---------------------------- MODULE Core_proofs -----------------------------
(***************************************************************************)
(* For every number of lanes, every launch size and every program:         *)
(* Promises: every register of a core keeps its type; the scheduler, the   *)
(* LSUs, the arbiters and the emit latch keep their promises to one another*)
(* in every cycle; and each warp is a Divergence.  The invariant says, of  *)
(* every warp, what its lanes are doing by where the scheduler has it.     *)
(* Results: for a program laid out as codegen.rs lays it out, a whole core *)
(* computes what the ISA says of threads run one at a time.                *)
(***************************************************************************)
EXTENDS CoreProperties, FiniteSetTheorems, TLAPS

-----------------------------------------------------------------------------
(* Arithmetic of lanes, words and strobes.                                  *)

\* A set of numbers has a least one.
LEMMA LeastNumber ==
  ASSUME NEW S, S \subseteq Nat, S # {}
  PROVE  \E x \in S : \A y \in S : x <= y
<1> DEFINE T == {0 .. x : x \in S}
<1>1. T # {} /\ T \subseteq FiniteSubsetsOf(Nat)
  <2>1. \A x \in S : 0 .. x \in SUBSET Nat /\ IsFiniteSet(0 .. x)
    BY FS_Interval
  <2>2. QED
    BY <2>1 DEF FiniteSubsetsOf
<1>2. PICK s \in T : \A t \in T : ~ (<<t, s>> \in StrictSubsetOrdering(Nat))
  <2> HIDE DEF T
  <2> QED BY <1>1, FS_StrictSubsetOrderingWellFounded, WFMin
<1>3. PICK x \in S : s = 0 .. x
  OBVIOUS
<1>4. ASSUME NEW y \in S PROVE x <= y
  <2>1. SUFFICES ASSUME y < x PROVE FALSE
    OBVIOUS
  <2>2. (0 .. y) \subseteq (0 .. x) /\ x \in 0 .. x /\ x \notin 0 .. y
    BY <2>1
  <2>3. <<0 .. y, 0 .. x>> \in StrictSubsetOrdering(Nat)
    BY <2>2 DEF StrictSubsetOrdering
  <2>4. QED
    BY <1>2, <1>3, <2>3
<1>5. QED
  BY <1>4

\* The arbiters' lowest lane is one of those that ask.
LEMMA LeastOf ==
  ASSUME NEW S, S \subseteq Nat, S # {}
  PROVE  Min(S) \in S
BY LeastNumber DEF Min

\* A residue is below its modulus.
LEMMA ModRange ==
  ASSUME NEW x \in Int, NEW n \in Nat \ {0}
  PROVE  x % n \in 0 .. n - 1
OBVIOUS

\* A quotient is at most what was divided.
LEMMA DivRange ==
  ASSUME NEW x \in Nat, NEW n \in Nat \ {0}
  PROVE  x \div n \in 0 .. x
OBVIOUS

\* The table of shifts has powers, not zeros.
LEMMA PowerPositive ==
  ASSUME NEW k \in 0 .. 15
  PROVE  Power(k) \in Nat \ {0}
BY DEF Power

\* With two warps a lane's number says which one it is in.
LEMMA DivOfTwo ==
  ASSUME NEW T \in Nat \ {0}, NEW l \in Nat, l < 2 * T
  PROVE  /\ l < T => l \div T = 0
         /\ l >= T => l \div T = 1
OBVIOUS

\* Every lane has a warp, and thread 0 of a warp is in it.
LEMMA WarpsOfLanes ==
  /\ \A l \in Lanes : l \in Nat /\ WarpOf(l) \in Warps
  /\ \A w \in Warps : Thread0(w) \in Lanes /\ WarpOf(Thread0(w)) = w
  /\ 0 \in Warps /\ 0 \in Lanes
<1>1. THREADS_PER_BLOCK \in Nat \ {0} /\ WARPS_PER_CORE \in {1, 2}
  BY CoreAssumption
<1>2. \A l \in Nat : l < 2 * THREADS_PER_BLOCK =>
        /\ l < THREADS_PER_BLOCK => l \div THREADS_PER_BLOCK = 0
        /\ l >= THREADS_PER_BLOCK => l \div THREADS_PER_BLOCK = 1
  BY <1>1, DivOfTwo
<1>3. QED
  BY <1>1, <1>2 DEF Lanes, Warps, WarpOf, Thread0

\* decoder.sv: the operations that raise each of five strobes.
LEMMA StrobesOf ==
  ASSUME NEW op \in Ops
  PROVE  /\ "pc_mux" \in Strobes[op] <=> op = "BR"
         /\ "mem_read" \in Strobes[op] <=> op = "LDR"
         /\ "mem_write" \in Strobes[op] <=> op = "STR"
         /\ "sync" \in Strobes[op] <=> op = "SYNC"
         /\ "ret" \in Strobes[op] <=> op = "RET"
<1>1. op \in {"MOV", "LUI", "ADD", "ADDI", "SUB", "MUL", "SHR", "SHL", "TID", "BID", "BDIM",
               "CMP", "LDR", "STR", "ADDB", "WBASE", "BR", "SYNC", "RET"}
  BY DEF Ops, Arithmetic, Identity
<1>2. QED
  BY <1>1 DEF Strobes, Ops, Arithmetic, Identity
-----------------------------------------------------------------------------
(* Types: TypeOK with what it leaves open, so that a step keeps it.         *)

LsuState == [state : {"IDLE", "ISSUE", "WAIT", "DONE"}, is_read : BOOLEAN,
             req : {"none", "read", "write", "emit"}, addr : Addr, data : Byte, out : Byte]
ArbState == [state : {"IDLE", "WAIT", "RESP"}, svc : Lanes, raddr : Addr, rdata : Byte]
Frame    == [pc : Pc, mask : SUBSET Lanes]

Unlatched == [strobes |-> {}, rd |-> 0, rs |-> 0, rt |-> 0, imm |-> 0, nzp |-> {}]

FrontTyped ==
  /\ rom \in Programs
  /\ instruction \in {rom[p] : p \in Pc}
  /\ decoded \in {Control(rom[p]) : p \in Pc} \cup {Unlatched}

SchedTyped ==
  /\ core_state \in {"IDLE", "SELECT_WARP", "FETCH", "DECODE", "REQUEST", "WAIT",
                     "EXECUTE", "UPDATE", "DONE"}
  /\ current_warp \in Warps /\ done \in BOOLEAN
  /\ warp_status \in [Warps -> {"READY", "WAITING", "DONE"}]

WarpsTyped ==
  /\ warp_pc \in [Warps -> Pc]
  /\ active_mask \in [Warps -> SUBSET Lanes] /\ base_mask \in [Warps -> SUBSET Lanes]
  /\ stack \in [Warps -> Seq(Frame)]
  /\ \A w \in Warps :
       /\ active_mask[w] \subseteq LanesOf(w) /\ base_mask[w] \subseteq LanesOf(w)
       /\ \A i \in 1 .. Len(stack[w]) : stack[w][i].mask \subseteq LanesOf(w)
       /\ Len(stack[w]) < SDEPTH

GridTyped ==
  /\ registers \in [Lanes -> [Reg -> Word]] /\ rs \in [Lanes -> Word] /\ rt \in [Lanes -> Word]
  /\ nzp \in [Lanes -> Bits3]
  /\ base \in [Lanes -> Addr] /\ wbase \in [Lanes -> Addr]
  /\ lsu \in [Lanes -> LsuState]

MemoryTyped ==
  /\ rarb \in ArbState
  /\ mem \in [Addr -> Byte] /\ mem_rdata \in Byte
  /\ mem_we \in BOOLEAN /\ mem_waddr \in Addr /\ mem_wdata \in Byte
  /\ ready \subseteq Lanes /\ wgrant \subseteq Lanes

EmitTyped == emit_owned \in BOOLEAN /\ emit_owner \in Warps /\ emit_ready \in BOOLEAN

Typed == FrontTyped /\ SchedTyped /\ WarpsTyped /\ GridTyped /\ MemoryTyped /\ EmitTyped

\* The parts of the type invariant make it up.
LEMMA TypedIsTypeOK == Typed => TypeOK
BY DEF Typed, FrontTyped, SchedTyped, WarpsTyped, GridTyped, MemoryTyped, EmitTyped, TypeOK,
       LsuState, ArbState

\* The sizes are positive, and the constants that a lane can read are words.
LEMMA Sizes ==
  /\ THREADS_PER_BLOCK \in Nat \ {0} /\ PcSize \in Nat \ {0} /\ AddrSize \in Nat \ {0}
  /\ WordSize \in Nat \ {0} /\ ByteSize \in Nat \ {0} /\ NumRegs \in Nat \ {0}
  /\ ImmSize \in Nat \ {0} /\ SDEPTH \in Nat \ {0}
  /\ Byte \subseteq Word /\ Lanes \subseteq Word
  /\ BlockId \in Word /\ BLOCK_DIM \in Word /\ 1 \in Word /\ 2 \in Word /\ 4 \in Word
  /\ 0 \in Pc /\ 0 \in Addr /\ 0 \in Word /\ 0 \in Byte /\ 0 \in Reg
<1>1. /\ THREADS_PER_BLOCK \in Nat \ {0} /\ PcSize \in Nat \ {0} /\ AddrSize \in Nat \ {0}
      /\ WordSize \in Nat \ {0} /\ ByteSize \in Nat \ {0} /\ NumRegs \in Nat \ {0}
      /\ ImmSize \in Nat \ {0} /\ SDEPTH \in Nat \ {0}
  BY CoreAssumption
<1>2. /\ Byte \subseteq Word /\ Lanes \subseteq Word
      /\ BlockId \in Word /\ BLOCK_DIM \in Word /\ 1 \in Word /\ 2 \in Word /\ 4 \in Word
  BY CoreAssumption
<1>3. QED
  BY <1>1, <1>2 DEF Pc, Addr, Word, Byte, Reg

\* A result cut to a width is in range.
LEMMA Reduced ==
  ASSUME NEW x \in Int
  PROVE  x % WordSize \in Word /\ x % AddrSize \in Addr /\ x % ByteSize \in Byte
BY Sizes, ModRange DEF Word, Addr, Byte

\* What the decoder may hold.
LEMMA ControlTyped ==
  ASSUME FrontTyped
  PROVE  /\ instruction \in Instr
         /\ decoded.rd \in Reg /\ decoded.rs \in Reg /\ decoded.rt \in Reg /\ decoded.imm \in Nat
         /\ Decoded("pc_mux") => decoded.imm \in Pc
<1>1. \A p \in Pc : rom[p] \in Instr /\ (rom[p].op = "BR" => rom[p].imm \in Pc)
  BY CoreAssumption DEF FrontTyped
<1>2. CASE decoded = Unlatched
  BY <1>1, <1>2, Sizes DEF FrontTyped, Unlatched, Decoded
<1>3. ASSUME NEW p \in Pc, decoded = Control(rom[p])
      PROVE  /\ decoded.rd \in Reg /\ decoded.rs \in Reg /\ decoded.rt \in Reg /\ decoded.imm \in Nat
             /\ Decoded("pc_mux") => decoded.imm \in Pc
  <2>1. rom[p].op \in Ops /\ rom[p] \in Instr
    BY <1>1 DEF Instr
  <2>2. decoded.strobes = Strobes[rom[p].op] /\ decoded.imm = rom[p].imm
        /\ decoded.rd = rom[p].rd /\ decoded.rs = rom[p].rs /\ decoded.rt = rom[p].rt
    BY <1>3 DEF Control
  <2>3. QED
    BY <1>1, <2>1, <2>2, StrobesOf DEF Decoded, Instr
<1>4. QED
  BY <1>1, <1>2, <1>3 DEF FrontTyped

\* alu.sv: every result is a word.
LEMMA AluTyped ==
  ASSUME FrontTyped, GridTyped, NEW l \in Lanes
  PROVE  AluOut(l) \in Word
<1>1. rs[l] \in Nat /\ rt[l] \in Nat /\ decoded.imm \in Nat /\ WordSize \in Nat \ {0}
  BY ControlTyped, Sizes DEF GridTyped, Word
<1>2. /\ (rs[l] + rt[l]) % WordSize \in Word /\ (rs[l] + decoded.imm) % WordSize \in Word
      /\ (rs[l] - rt[l]) % WordSize \in Word /\ decoded.imm % WordSize \in Word
  <2>1. /\ rs[l] + rt[l] \in Int /\ rs[l] + decoded.imm \in Int
        /\ rs[l] - rt[l] \in Int /\ decoded.imm \in Int
    BY <1>1
  <2>2. QED
    BY <2>1, Reduced
<1>3. (rs[l] * rt[l]) % WordSize \in Word
  <2>1. rs[l] * rt[l] \in Int
    BY <1>1
  <2>2. QED
    BY <1>1, <2>1, ModRange DEF Word
<1>4. PICK k \in Nat \ {0} : k = Power(rt[l] % 16)
  <2>1. rt[l] % 16 \in 0 .. 15
    BY <1>1
  <2>2. QED
    BY <2>1, PowerPositive
<1>5. rs[l] \div k \in Word
  <2>1. rs[l] \div k \in 0 .. rs[l]
    BY <1>1, DivRange
  <2>2. rs[l] \in Word
    BY DEF GridTyped
  <2>3. QED
    BY <1>1, <2>1, <2>2 DEF Word
<1>6. (rs[l] * k) % WordSize \in Word
  <2>1. rs[l] * k \in Int
    BY <1>1
  <2>2. QED
    BY <1>1, <2>1, ModRange DEF Word
<1>7. 0 \in Word /\ 1 \in Word /\ 2 \in Word /\ 4 \in Word
  BY Sizes
<1>8. QED
  BY <1>2, <1>3, <1>4, <1>5, <1>6, <1>7 DEF AluOut

\* program_memory.sv and decoder.sv: what is fetched and decoded stays in range.
LEMMA FrontStep ==
  ASSUME Typed, DataPath
  PROVE  FrontTyped'
<1>1. warp_pc[current_warp] \in Pc
  BY DEF Typed, SchedTyped, WarpsTyped
<1>2. PICK p \in Pc : instruction = rom[p]
  BY DEF Typed, FrontTyped
<1>3. QED
  BY <1>1, <1>2 DEF Typed, FrontTyped, DataPath, FetchAndDecode, Unlatched, Control

\* registers.sv, pc.sv and lsu.sv: what the lanes hold stays in range.
LEMMA RegistersStep ==
  ASSUME Typed, DataPath
  PROVE  /\ registers' \in [Lanes -> [Reg -> Word]] /\ rs' \in [Lanes -> Word] /\ rt' \in [Lanes -> Word]
         /\ nzp' \in [Lanes -> Bits3]
         /\ base' \in [Lanes -> Addr] /\ wbase' \in [Lanes -> Addr]
<1>1. decoded.rd \in Reg /\ decoded.rs \in Reg /\ decoded.rt \in Reg /\ decoded.imm \in Nat
  BY ControlTyped DEF Typed
<1>2. GridTyped /\ RegisterFile /\ Flags /\ BasePointers
  BY DEF Typed, DataPath
<1>3. rs' \in [Lanes -> Word] /\ rt' \in [Lanes -> Word]
  BY <1>1, <1>2 DEF GridTyped, RegisterFile
<1>4. registers' \in [Lanes -> [Reg -> Word]]
  <2> DEFINE Result(l) ==
        CASE Decoded("id_read")     -> IdentityOf(l)
          [] Decoded("lui")         -> (rs[l] * ImmSize + (decoded.imm % ImmSize)) % WordSize
          [] Decoded("from_memory") -> lsu[l].out
          [] OTHER                  -> AluOut(l)
  <2>1. ASSUME NEW l \in Lanes PROVE Result(l) \in Word
    <3>1. IdentityOf(l) \in Word
      BY Sizes DEF IdentityOf
    <3>2. (rs[l] * ImmSize + (decoded.imm % ImmSize)) % WordSize \in Word
      <4>1. rs[l] \in Nat /\ ImmSize \in Nat \ {0} /\ WordSize \in Nat \ {0}
        BY <1>2, Sizes DEF GridTyped, Word
      <4>2. decoded.imm % ImmSize \in Int
        BY <1>1, <4>1, ModRange
      <4>3. rs[l] * ImmSize + (decoded.imm % ImmSize) \in Int
        BY <4>1, <4>2
      <4>4. QED
        BY <4>1, <4>3, ModRange DEF Word
    <3>3. lsu[l].out \in Word
      BY <1>2, Sizes DEF GridTyped, LsuState
    <3>4. AluOut(l) \in Word
      BY AluTyped DEF Typed
    <3>5. QED
      BY <3>1, <3>2, <3>3, <3>4
  <2>2. registers' =
          IF core_state = "UPDATE" /\ Decoded("reg_write")
          THEN [l \in Lanes |-> IF ~Awake(l) THEN registers[l]
                                ELSE [registers[l] EXCEPT ![decoded.rd] = Result(l)]]
          ELSE registers
    BY <1>2 DEF RegisterFile
  <2> HIDE DEF Result
  <2>3. QED
    BY <1>1, <1>2, <2>1, <2>2 DEF GridTyped
<1>5. nzp' \in [Lanes -> Bits3]
  <2>1. \A l \in Lanes : LowBits(AluOut(l)) \in Bits3
    BY DEF LowBits, Bits3
  <2>2. QED
    BY <1>2, <2>1 DEF GridTyped, Flags
<1>6. base' \in [Lanes -> Addr] /\ wbase' \in [Lanes -> Addr]
  <2>1. ASSUME NEW a \in Addr PROVE (a + decoded.imm) % AddrSize \in Addr
    <3>1. a + decoded.imm \in Int
      BY <1>1 DEF Addr
    <3>2. QED
      BY <3>1, Sizes, ModRange DEF Addr
  <2>2. QED
    BY <1>2, <2>1 DEF GridTyped, BasePointers
<1>7. QED
  BY <1>3, <1>4, <1>5, <1>6

\* lsu.sv: the state and request line of a lane stay in range.
LEMMA LsuStep ==
  ASSUME Typed, DataPath
  PROVE  lsu' \in [Lanes -> LsuState]
<1>1. ASSUME NEW l \in Lanes PROVE LsuNext(l) \in LsuState
  <2>1. lsu[l] \in LsuState /\ rarb.rdata \in Byte
    BY DEF Typed, GridTyped, MemoryTyped, ArbState
  <2>2. Issued(l) \in LsuState
    <3>1. rs[l] \in Nat /\ rt[l] \in Nat /\ base[l] \in Nat /\ wbase[l] \in Nat
      BY DEF Typed, GridTyped, Word, Addr
    <3>2. (base[l] + rs[l]) % AddrSize \in Addr /\ (wbase[l] + rs[l]) % AddrSize \in Addr
      <4>1. base[l] + rs[l] \in Int /\ wbase[l] + rs[l] \in Int
        BY <3>1
      <4>2. QED
        BY <4>1, Reduced
    <3>3. rt[l] % ByteSize \in Byte
      BY <3>1, Reduced
    <3>4. QED
      BY <2>1, <3>2, <3>3 DEF Issued, LsuState
  <2>3. Decoded("mem_read") \in BOOLEAN
    BY DEF Decoded
  <2>4. QED
    BY <2>1, <2>2, <2>3 DEF LsuNext, LsuState
<1>2. QED
  BY <1>1 DEF DataPath, Lsus

\* Arbiters, memory and emit latch stay in range.
LEMMA MemoryStep ==
  ASSUME Typed, DataPath
  PROVE  MemoryTyped' /\ EmitTyped'
<1>1. MemoryTyped /\ GridTyped /\ EmitTyped
  BY DEF Typed
<1>2. ASSUME NEW S \in SUBSET Lanes, S # {} PROVE Min(S) \in S /\ lsu[Min(S)] \in LsuState
  <2>1. S \subseteq Nat
    BY WarpsOfLanes
  <2>2. QED
    BY <1>1, <1>2, <2>1, LeastOf DEF GridTyped
<1>3. rarb' \in ArbState /\ ready' \subseteq Lanes
  <2>1. Requesting("read") \in SUBSET Lanes
    BY DEF Requesting
  <2>2. QED
    BY <1>1, <1>2, <2>1 DEF DataPath, ReadArbiter, MemoryTyped, ArbState, LsuState
<1>4. mem_we' \in BOOLEAN /\ mem_waddr' \in Addr /\ mem_wdata' \in Byte /\ wgrant' \subseteq Lanes
  <2>1. WritePending \in SUBSET Lanes
    BY DEF WritePending, Requesting
  <2>2. QED
    BY <1>1, <1>2, <2>1 DEF DataPath, WriteArbiter, MemoryTyped, LsuState
<1>5. mem' \in [Addr -> Byte] /\ mem_rdata' \in Byte
  BY <1>1 DEF DataPath, MainMemory, MemoryTyped, ArbState
<1>6. EmitTyped'
  <2>1. WarpEmit # {} => Min(WarpEmit) \in Warps
    BY LeastOf DEF WarpEmit, Warps
  <2>2. QED
    BY <1>1, <2>1 DEF DataPath, EmitLatch, Uart, EmitTyped
<1>7. QED
  BY <1>3, <1>4, <1>5, <1>6 DEF MemoryTyped

\* scheduler.sv: pipeline state, current warp and the status of the warps stay in range.
LEMMA StatusStep ==
  ASSUME Typed, Next
  PROVE  SchedTyped'
<1>1. SchedTyped
  BY DEF Typed
<1>2. WokenStatus \in [Warps -> {"READY", "WAITING", "DONE"}]
  BY <1>1 DEF WokenStatus, SchedTyped
<1>3. ASSUME NEW s \in {"READY", "WAITING", "DONE"}, StatusWith(s)
      PROVE  warp_status' \in [Warps -> {"READY", "WAITING", "DONE"}]
  BY <1>1, <1>2, <1>3 DEF StatusWith, SchedTyped
<1>4. ReadyWarps # {} => Min(ReadyWarps) \in Warps
  BY LeastOf DEF ReadyWarps, Warps
<1>5. warp_status' \in [Warps -> {"READY", "WAITING", "DONE"}]
  BY <1>2, <1>3 DEF Next, Idle, SelectWarp, Fetch, Decode, Request, Stall, Park, Proceed, Execute,
                    Update, Finished
<1>6. current_warp' \in Warps
  BY <1>1, <1>4 DEF SchedTyped, Next, Idle, SelectWarp, Fetch, Decode, Request, Stall, Park, Proceed,
                    Execute, Update, Finished
<1>7. \E s \in {"SELECT_WARP", "FETCH", "DECODE", "REQUEST", "WAIT", "EXECUTE", "UPDATE", "DONE"} : GoTo(s)
  BY DEF Next, Idle, SelectWarp, Fetch, Decode, Request, Stall, Park, Proceed, Execute, Update, Finished
<1>8. QED
  BY <1>5, <1>6, <1>7 DEF SchedTyped, GoTo

\* A warp's next PC, mask and frames keep their types, and frames and masks stay
\* within the lanes of the warp.
LEMMA SetWarpTyped ==
  ASSUME WarpsTyped, current_warp \in Warps,
         NEW pc \in Pc, NEW mask \in SUBSET LanesOf(current_warp), NEW frames \in Seq(Frame),
         Len(frames) < SDEPTH,
         \A i \in 1 .. Len(frames) : frames[i].mask \subseteq LanesOf(current_warp),
         SetWarp(pc, mask, frames),
         \/ UNCHANGED base_mask
         \/ base_mask' = [base_mask EXCEPT ![current_warp] = active_mask[current_warp]]
  PROVE  WarpsTyped'
<1>1. LanesOf(current_warp) \subseteq Lanes
  BY DEF LanesOf
<1>2. warp_pc' \in [Warps -> Pc]
  BY DEF WarpsTyped, SetWarp
<1>3. /\ active_mask' \in [Warps -> SUBSET Lanes] /\ base_mask' \in [Warps -> SUBSET Lanes]
      /\ \A w \in Warps : active_mask'[w] \subseteq LanesOf(w) /\ base_mask'[w] \subseteq LanesOf(w)
  BY <1>1 DEF WarpsTyped, SetWarp
<1>4. /\ stack' \in [Warps -> Seq(Frame)]
      /\ \A w \in Warps : stack'[w] = IF w = current_warp THEN frames ELSE stack[w]
  BY DEF WarpsTyped, SetWarp
<1>5. \A w \in Warps : /\ \A i \in 1 .. Len(stack'[w]) : stack'[w][i].mask \subseteq LanesOf(w)
                       /\ Len(stack'[w]) < SDEPTH
  BY <1>4 DEF WarpsTyped
<1>6. QED
  BY <1>2, <1>3, <1>4, <1>5 DEF WarpsTyped, LanesOf, Lanes, WarpOf

\* scheduler.sv: PC, masks and stack of a warp stay in range.
LEMMA WarpsStep ==
  ASSUME Typed, Next
  PROVE  WarpsTyped'
<1>1. WarpsTyped /\ current_warp \in Warps
  BY DEF Typed, SchedTyped
<1>2. CASE NoControlFlow
  BY <1>1, <1>2 DEF WarpsTyped, NoControlFlow
<1>3. CASE Execute
  <2> DEFINE s    == stack[current_warp]
             mask == active_mask[current_warp]
             mine == LanesOf(current_warp)
  <2>1. /\ s \in Seq(Frame) /\ Len(s) < SDEPTH /\ mask \subseteq mine
        /\ base_mask[current_warp] \subseteq mine
        /\ \A i \in 1 .. Len(s) : s[i] \in Frame /\ s[i].mask \subseteq mine
    BY <1>1 DEF WarpsTyped
  <2>2. NextPc \in Pc
    <3>1. warp_pc[current_warp] + 1 \in Int
      BY <1>1 DEF WarpsTyped, Pc
    <3>2. QED
      BY <3>1, Sizes, ModRange DEF NextPc, Pc
  <2>3. Branch \subseteq mine /\ Stay \subseteq mine
    BY <2>1 DEF Branch, Stay
  <2>4. ASSUME s # << >>
        PROVE  /\ s[Len(s)].pc \in Pc /\ s[Len(s)].mask \subseteq mine
               /\ SubSeq(s, 1, Len(s) - 1) \in Seq(Frame) /\ Len(SubSeq(s, 1, Len(s) - 1)) < SDEPTH
               /\ \A i \in 1 .. Len(SubSeq(s, 1, Len(s) - 1)) : SubSeq(s, 1, Len(s) - 1)[i].mask \subseteq mine
    <3>1. Len(s) \in Nat \ {0} /\ Len(s) \in 1 .. Len(s)
      BY <2>1, <2>4
    <3>2. /\ SubSeq(s, 1, Len(s) - 1) \in Seq(Frame) /\ Len(SubSeq(s, 1, Len(s) - 1)) = Len(s) - 1
          /\ \A i \in 1 .. Len(s) - 1 : i \in 1 .. Len(s) /\ SubSeq(s, 1, Len(s) - 1)[i] = s[i]
      BY <2>1, <3>1
    <3>3. s[Len(s)] \in Frame /\ s[Len(s)].mask \subseteq mine
      BY <2>1, <3>1
    <3>4. Len(s) - 1 < SDEPTH
      BY <2>1, <3>1, Sizes
    <3>5. QED
      BY <2>1, <3>2, <3>3, <3>4 DEF Frame
  <2>5. ASSUME NEW f \in Frame, f.mask \subseteq mine
        PROVE  /\ Push(s, f) \in Seq(Frame) /\ Len(Push(s, f)) < SDEPTH
               /\ \A i \in 1 .. Len(Push(s, f)) : Push(s, f)[i].mask \subseteq mine
    <3>1. CASE Len(s) = SDEPTH - 1
      BY <3>1, Sizes DEF Push
    <3>2. CASE Len(s) # SDEPTH - 1
      <4>1. Push(s, f) = Append(s, f) /\ Append(s, f) \in Seq(Frame) /\ Len(Append(s, f)) = Len(s) + 1
            /\ Len(s) \in Nat
            /\ \A i \in 1 .. Len(s) + 1 : Append(s, f)[i] = IF i = Len(s) + 1 THEN f ELSE s[i]
        BY <2>1, <3>2 DEF Push
      <4>2. Len(s) + 1 < SDEPTH
        BY <2>1, <3>2, <4>1, Sizes
      <4>3. \A i \in 1 .. Len(s) + 1 : i = Len(s) + 1 \/ i \in 1 .. Len(s)
        BY <4>1
      <4>4. QED
        BY <2>1, <2>5, <4>1, <4>2, <4>3
    <3>3. QED
      BY <3>1, <3>2
  <2>6. CASE /\ Decoded("sync") /\ s # << >>
             /\ SetWarp(s[Len(s)].pc, s[Len(s)].mask, SubSeq(s, 1, Len(s) - 1))
             /\ UNCHANGED base_mask
    BY <1>1, <2>4, <2>6, SetWarpTyped
  <2>7. CASE /\ Decoded("sync") /\ s = << >>
             /\ SetWarp(NextPc, base_mask[current_warp], s)
             /\ UNCHANGED base_mask
    BY <1>1, <2>1, <2>2, <2>7, SetWarpTyped
  <2>8. CASE /\ Decoded("pc_mux") /\ Branch # {} /\ Stay # {}
             /\ SetWarp(decoded.imm, Branch, Push(s, [pc |-> NextPc, mask |-> Stay]))
             /\ base_mask' = IF s = << >> THEN [base_mask EXCEPT ![current_warp] = mask] ELSE base_mask
    <3>1. [pc |-> NextPc, mask |-> Stay] \in Frame
      BY <2>2, <2>3 DEF Frame, LanesOf
    <3>2. decoded.imm \in Pc
      BY <2>8, ControlTyped DEF Typed
    <3>3. QED
      BY <1>1, <2>3, <2>5, <2>8, <3>1, <3>2, SetWarpTyped
  <2>9. CASE /\ Decoded("pc_mux") /\ (Branch = {} \/ Stay = {})
             /\ SetWarp(IF Branch # {} THEN decoded.imm ELSE NextPc, mask, s)
             /\ UNCHANGED base_mask
    <3>1. (IF Branch # {} THEN decoded.imm ELSE NextPc) \in Pc
      BY <2>2, <2>9, ControlTyped DEF Typed
    <3>2. QED
      BY <1>1, <2>1, <2>9, <3>1, SetWarpTyped
  <2>10. CASE /\ ~Decoded("sync") /\ ~Decoded("pc_mux")
              /\ SetWarp(NextPc, mask, s)
              /\ UNCHANGED base_mask
    BY <1>1, <2>1, <2>2, <2>10, SetWarpTyped
  <2>11. QED
    BY <1>3, <2>6, <2>7, <2>8, <2>9, <2>10 DEF Execute
<1>4. QED
  BY <1>2, <1>3 DEF Next, Idle, SelectWarp, Fetch, Decode, Request, Stall, Park, Proceed, Update, Finished

\* Every cycle moves the data path, whatever the scheduler does.
LEMMA EveryStep == Next => DataPath
BY DEF Next, Idle, SelectWarp, Fetch, Decode, Request, Stall, Park, Proceed, Execute, Update, Finished

\* A clock cycle keeps every register in range.
LEMMA TypedStep ==
  ASSUME Typed, [Next]_vars
  PROVE  Typed'
<1>1. CASE Next
  BY <1>1, EveryStep, FrontStep, StatusStep, WarpsStep, RegistersStep, LsuStep, MemoryStep
     DEF Typed, GridTyped
<1>2. CASE UNCHANGED vars
  BY <1>2 DEF Typed, FrontTyped, SchedTyped, WarpsTyped, GridTyped, MemoryTyped, EmitTyped,
     vars, sched, front, grid, memory, emit
<1>3. QED
  BY <1>1, <1>2

\* A core begins with every register in range.
LEMMA TypedInit == Init => Typed
<1> SUFFICES ASSUME Init PROVE Typed
  OBVIOUS
<1>1. FrontTyped
  BY Sizes DEF Init, FrontTyped, Unlatched
<1>2. SchedTyped
  BY WarpsOfLanes DEF Init, SchedTyped
<1>3. WarpsTyped
  <2>1. \A w \in Warps : LaunchMask(w) \subseteq LanesOf(w) /\ LanesOf(w) \subseteq Lanes
    BY DEF LaunchMask, LanesOf
  <2>2. << >> \in Seq(Frame) /\ Len(<< >>) = 0
    OBVIOUS
  <2>3. QED
    BY <2>1, <2>2, Sizes DEF Init, WarpsTyped
<1>4. GridTyped
  BY Sizes DEF Init, GridTyped, LsuIdle, LsuState, Bits3
<1>5. MemoryTyped
  BY Sizes, WarpsOfLanes, CoreAssumption DEF Init, MemoryTyped, ArbState
<1>6. EmitTyped
  BY WarpsOfLanes DEF Init, EmitTyped
<1>7. QED
  BY <1>1, <1>2, <1>3, <1>4, <1>5, <1>6 DEF Typed

\* core.sv and its units: every register keeps its width, the lane indices of the
\* arbiters stay within the core and the stack pointers within their bits.
THEOREM TypeCorrect == Spec => []TypeOK
<1>1. Spec => []Typed
  BY TypedInit, TypedStep, PTL DEF Spec
<1>2. QED
  BY <1>1, TypedIsTypeOK, PTL
-----------------------------------------------------------------------------
(* The pipeline: the promises of its parts to one another.                  *)

\* A warp the pipeline is not on.
Away(w) == core_state \in {"SELECT_WARP", "DONE"} \/ current_warp # w

Op(w) == rom[warp_pc[w]].op

AllIdle(w) == \A l \in LanesOf(w) : lsu[l].state = "IDLE"

\* The warp stands at an access, every awake lane of it in one of states.
Accessing(w, states) ==
  /\ Op(w) \in {"LDR", "STR"}
  /\ \A l \in LanesOf(w) :
       IF l \in active_mask[w] THEN lsu[l].state \in states ELSE lsu[l].state = "IDLE"

\* The request lines of a lane follow its state.
RequestLines ==
  \A l \in Lanes :
    /\ lsu[l].req # "none" <=> lsu[l].state = "WAIT"
    /\ lsu[l].state = "WAIT" => (lsu[l].req = "read" <=> lsu[l].is_read)

\* ControlIsCurrent, and how it comes about.
Latched ==
  /\ core_state \in {"DECODE", "REQUEST", "WAIT", "EXECUTE"} => instruction = rom[warp_pc[current_warp]]
  /\ core_state \in {"REQUEST", "WAIT", "EXECUTE", "UPDATE"} => decoded = Control(instruction)

\* What the lanes of a warp do, by where the scheduler has the warp.
Parked(w)    == warp_status[w] = "WAITING" => Away(w) /\ Accessing(w, {"WAIT", "DONE"})
Elsewhere(w) == \/ Away(w)
                \/ core_state \in {"IDLE", "FETCH", "DECODE", "REQUEST"}
Rested(w)    == warp_status[w] # "WAITING" /\ Elsewhere(w) => AllIdle(w) \/ Accessing(w, {"DONE"})

InWait ==
  core_state = "WAIT" =>
    /\ Accessing(current_warp, {"ISSUE"}) \/ Accessing(current_warp, {"WAIT", "DONE"})
    /\ \A l \in LanesOf(current_warp) :
         lsu[l].state \in {"ISSUE", "WAIT"} => (lsu[l].is_read <=> Decoded("mem_read"))

Pipeline == Latched /\ (\A w \in Warps : Parked(w) /\ Rested(w)) /\ InWait /\ AccessesComplete

\* The read arbiter serves a request that still stands, or one it has answered
\* already, whose lane then stays DONE until the late pulse has passed.
Genuine == lsu[rarb.svc].req = "read" /\ lsu[rarb.svc].addr = rarb.raddr
Late    == lsu[rarb.svc].state = "DONE"

Reading ==
  /\ ready \subseteq {rarb.svc}
  /\ ready # {} => rarb.state = "IDLE" /\ (Genuine \/ Late)
  /\ rarb.state = "WAIT" => Genuine \/ (Late /\ warp_status[WarpOf(rarb.svc)] = "WAITING")
  /\ rarb.state = "RESP" => Genuine \/ (Late /\ Away(WarpOf(rarb.svc)))

IInv == Typed /\ RequestLines /\ Pipeline /\ GrantMatchesStore /\ Reading

-----------------------------------------------------------------------------
(* One lane, and what a cycle leaves alone.                                 *)

\* The cases of LsuNext, by the state the lane is in.
LEMMA LaneMoves ==
  ASSUME Typed, DataPath, NEW l \in Lanes
  PROVE  /\ lsu[l].state \in {"IDLE", "ISSUE", "WAIT", "DONE"}
         /\ lsu[l].state = "IDLE" =>
              /\ ~(core_state = "REQUEST" /\ Awake(l) /\ MemOp) => lsu'[l] = lsu[l]
              /\ core_state = "REQUEST" /\ Awake(l) /\ MemOp =>
                   /\ lsu'[l].state = "ISSUE" /\ lsu'[l].req = lsu[l].req
                   /\ lsu'[l].is_read <=> Decoded("mem_read")
         /\ lsu[l].state = "ISSUE" =>
              /\ lsu'[l].state = "WAIT" /\ lsu'[l].is_read = lsu[l].is_read
              /\ lsu'[l].req # "none" /\ (lsu'[l].req = "read" <=> lsu[l].is_read)
         /\ lsu[l].state = "WAIT" =>
              /\ ~Acked(l) => lsu'[l] = lsu[l]
              /\ Acked(l) => lsu'[l].state = "DONE" /\ lsu'[l].req = "none"
         /\ lsu[l].state = "DONE" =>
              /\ ~(core_state = "UPDATE" /\ WarpActive(l)) => lsu'[l] = lsu[l]
              /\ core_state = "UPDATE" /\ WarpActive(l) =>
                   lsu'[l].state = "IDLE" /\ lsu'[l].req = lsu[l].req
<1>1. lsu[l] \in LsuState
  BY DEF Typed, GridTyped
<1>2. lsu'[l] = LsuNext(l)
  BY DEF DataPath, Lsus
<1>3. CASE lsu[l].state = "IDLE"
  BY <1>1, <1>2, <1>3 DEF LsuNext, LsuState, Decoded
<1>4. CASE lsu[l].state = "ISSUE"
  <2>1. lsu'[l] = Issued(l)
    BY <1>2, <1>4 DEF LsuNext
  <2>2. QED
    BY <1>1, <1>4, <2>1 DEF Issued, LsuState
<1>5. CASE lsu[l].state = "WAIT"
  BY <1>1, <1>2, <1>5 DEF LsuNext, LsuState
<1>6. CASE lsu[l].state = "DONE"
  BY <1>1, <1>2, <1>6 DEF LsuNext, LsuState
<1>7. QED
  BY <1>1, <1>3, <1>4, <1>5, <1>6 DEF LsuState

\* lsu.sv: a request line is up exactly while its lane is in WAIT.
LEMMA RequestLinesStep ==
  ASSUME Typed, RequestLines, DataPath
  PROVE  RequestLines'
<1> SUFFICES ASSUME NEW l \in Lanes
             PROVE  /\ lsu'[l].req # "none" <=> lsu'[l].state = "WAIT"
                    /\ lsu'[l].state = "WAIT" => (lsu'[l].req = "read" <=> lsu'[l].is_read)
  BY DEF RequestLines
<1>1. QED
  BY LaneMoves DEF RequestLines

\* An awake lane belongs to the current warp.
LEMMA AwakeIsActive ==
  ASSUME Typed, NEW l \in Lanes
  PROVE  /\ Awake(l) => WarpActive(l)
         /\ l \in LanesOf(WarpOf(l))
         /\ \A w \in Warps : l \in LanesOf(w) <=> WarpOf(l) = w
BY DEF Typed, SchedTyped, WarpsTyped, Awake, WarpActive, LanesOf

\* A lane that is idle or done stays so unless the pipeline is on its warp.
LEMMA LaneStays ==
  ASSUME Typed, DataPath, NEW w \in Warps, NEW l \in LanesOf(w),
         \/ current_warp # w
         \/ core_state \notin {"REQUEST", "UPDATE"}
  PROVE  /\ l \in Lanes
         /\ lsu[l].state \in {"IDLE", "DONE"} => lsu'[l] = lsu[l]
         /\ lsu[l].state = "WAIT" => lsu'[l].state \in {"WAIT", "DONE"}
<1>1. l \in Lanes /\ WarpOf(l) = w
  BY DEF LanesOf
<1>2. QED
  BY <1>1, LaneMoves, AwakeIsActive DEF WarpActive

\* Only EXECUTE moves a warp, and only the current one.
LEMMA WarpStays ==
  ASSUME Typed, Next, NEW w \in Warps, current_warp # w \/ core_state # "EXECUTE"
  PROVE  /\ rom' = rom /\ warp_pc'[w] = warp_pc[w] /\ active_mask'[w] = active_mask[w]
<1>1. rom' = rom
  BY EveryStep DEF DataPath, FetchAndDecode
<1>2. CASE NoControlFlow
  BY <1>1, <1>2 DEF NoControlFlow
<1>3. CASE Execute
  <2>1. core_state = "EXECUTE" /\ current_warp # w
    BY <1>3 DEF Execute
  <2>2. PICK pc, mask, frames : SetWarp(pc, mask, frames)
    BY <1>3 DEF Execute
  <2>3. QED
    BY <1>1, <2>1, <2>2 DEF SetWarp, Typed, WarpsTyped
<1>4. QED
  BY <1>2, <1>3 DEF Next, Idle, SelectWarp, Fetch, Decode, Request, Stall, Park, Proceed, Update, Finished

\* What the decoder says of the current warp's instruction.
LEMMA DecodedOp ==
  ASSUME Typed, Latched, core_state \in {"REQUEST", "WAIT", "EXECUTE"}
  PROVE  /\ MemOp <=> Op(current_warp) \in {"LDR", "STR"}
         /\ MemOp => ~Decoded("sync") /\ ~Decoded("pc_mux")
<1>1. rom[warp_pc[current_warp]] \in Instr
  <2>1. warp_pc[current_warp] \in Pc /\ rom \in Programs
    BY DEF Typed, SchedTyped, WarpsTyped, FrontTyped
  <2>2. QED
    BY <2>1, CoreAssumption
<1>2. decoded.strobes = Strobes[Op(current_warp)] /\ Op(current_warp) \in Ops
  BY <1>1 DEF Latched, Control, Op, Instr
<1>3. QED
  BY <1>2, StrobesOf DEF MemOp, Decoded

-----------------------------------------------------------------------------
(* The scheduler: which warps are parked, woken and picked.                 *)

\* scheduler.sv: a warp becomes WAITING only by being parked, and stops being so only
\* when its lanes are no longer busy or it is on the pipeline.
LEMMA StatusMoves ==
  ASSUME Typed, Next, NEW w \in Warps
  PROVE  /\ warp_status'[w] = "WAITING" =>
              (warp_status[w] = "WAITING" /\ Busy(w)) \/ (Park /\ w = current_warp)
         /\ Park => warp_status'[current_warp] = "WAITING"
         /\ warp_status[w] = "WAITING" /\ Busy(w) =>
              \/ warp_status'[w] = "WAITING"
              \/ core_state = "UPDATE" /\ w = current_warp
<1>1. warp_status \in [Warps -> {"READY", "WAITING", "DONE"}] /\ current_warp \in Warps
  BY DEF Typed, SchedTyped
<1>2. CASE warp_status' = WokenStatus /\ ~Park
  BY <1>1, <1>2 DEF WokenStatus
<1>3. CASE Park
  BY <1>1, <1>3 DEF Park, StatusWith, WokenStatus
<1>4. CASE Update /\ StatusWith("DONE") /\ ~Park
  BY <1>1, <1>4 DEF StatusWith, WokenStatus, Update
<1>5. QED
  BY <1>2, <1>3, <1>4 DEF Next, Idle, SelectWarp, Fetch, Decode, Request, Stall, Proceed, Execute,
     Update, Finished

\* The scheduler picks no parked warp.
LEMMA AwayStays ==
  ASSUME Typed, Next, NEW w \in Warps, Away(w), warp_status[w] = "WAITING"
  PROVE  Away(w)'
<1>1. ReadyWarps # {} => Min(ReadyWarps) # w
  <2>1. ReadyWarps # {} => Min(ReadyWarps) \in ReadyWarps
    BY LeastOf DEF ReadyWarps, Warps
  <2>2. w \notin ReadyWarps
    BY DEF ReadyWarps
  <2>3. QED
    BY <2>1, <2>2
<1>2. QED
  BY <1>1 DEF Away, Next, Idle, SelectWarp, Fetch, Decode, Request, Stall, Park, Proceed, Execute,
     Update, Finished, GoTo

\* A parked warp's accesses go on to their end, and nothing else of it moves.
LEMMA AccessGoesOn ==
  ASSUME Typed, Next, NEW w \in Warps,
         current_warp # w \/ core_state \notin {"REQUEST", "EXECUTE", "UPDATE"}
  PROVE  /\ Accessing(w, {"WAIT", "DONE"}) => Accessing(w, {"WAIT", "DONE"})'
         /\ Accessing(w, {"DONE"}) => Accessing(w, {"DONE"})'
         /\ AllIdle(w) => AllIdle(w)'
<1>1. rom' = rom /\ warp_pc'[w] = warp_pc[w] /\ active_mask'[w] = active_mask[w]
  BY WarpStays
<1>2. ASSUME NEW l \in LanesOf(w)
      PROVE  /\ lsu[l].state \in {"IDLE", "DONE"} => lsu'[l] = lsu[l]
             /\ lsu[l].state = "WAIT" => lsu'[l].state \in {"WAIT", "DONE"}
  BY EveryStep, LaneStays
<1>3. QED
  BY <1>1, <1>2 DEF Accessing, AllIdle, Op

\* A parked warp is off the pipeline, at an LDR or STR, with its awake lanes in WAIT or
\* DONE.
LEMMA ParkedStep ==
  ASSUME Typed, Pipeline, Next, NEW w \in Warps
  PROVE  Parked(w)'
<1> SUFFICES ASSUME warp_status'[w] = "WAITING"
             PROVE  Away(w)' /\ Accessing(w, {"WAIT", "DONE"})'
  BY DEF Parked
<1>1. CASE warp_status[w] = "WAITING"
  <2>1. Away(w) /\ Accessing(w, {"WAIT", "DONE"})
    BY <1>1 DEF Pipeline, Parked
  <2>2. current_warp # w \/ core_state \notin {"REQUEST", "EXECUTE", "UPDATE"}
    BY <2>1 DEF Away
  <2>3. QED
    BY <1>1, <2>1, <2>2, AwayStays, AccessGoesOn
<1>2. CASE Park /\ w = current_warp
  <2>1. core_state = "WAIT" /\ core_state' = "SELECT_WARP" /\ ~Issuing(w)
    BY <1>2 DEF Park, GoTo
  <2>2. Accessing(w, {"ISSUE"}) \/ Accessing(w, {"WAIT", "DONE"})
    BY <1>2, <2>1 DEF Pipeline, InWait
  <2>3. Accessing(w, {"WAIT", "DONE"})
    BY <2>1, <2>2 DEF Accessing, Issuing
  <2>4. QED
    BY <2>1, <2>3, AccessGoesOn DEF Away
<1>3. QED
  BY <1>1, <1>2, StatusMoves

\* Up to REQUEST the lanes of a warp that is not parked are idle, or all done and
\* waiting for the replay.
LEMMA RestedStep ==
  ASSUME Typed, Pipeline, Next, NEW w \in Warps
  PROVE  Rested(w)'
<1> SUFFICES ASSUME warp_status'[w] # "WAITING", Elsewhere(w)'
             PROVE  AllIdle(w)' \/ Accessing(w, {"DONE"})'
  BY DEF Rested
<1>1. CASE warp_status[w] = "WAITING"
  <2>1. Away(w) /\ Accessing(w, {"WAIT", "DONE"})
    BY <1>1 DEF Pipeline, Parked
  <2>2. current_warp # w \/ core_state \notin {"REQUEST", "EXECUTE", "UPDATE"}
    BY <2>1 DEF Away
  <2>3. ~Busy(w)
    BY <1>1, <2>2, StatusMoves
  <2>4. Accessing(w, {"DONE"})
    BY <2>1, <2>3 DEF Accessing, Busy
  <2>5. QED
    BY <2>2, <2>4, AccessGoesOn
<1>2. CASE warp_status[w] # "WAITING" /\ Elsewhere(w)
  <2>1. AllIdle(w) \/ Accessing(w, {"DONE"})
    BY <1>2 DEF Pipeline, Rested
  <2>2. current_warp # w \/ core_state \notin {"REQUEST", "EXECUTE", "UPDATE"}
    <3>1. SUFFICES ASSUME current_warp = w, core_state \in {"REQUEST", "EXECUTE", "UPDATE"}
                   PROVE  FALSE
      OBVIOUS
    <3>2. core_state = "REQUEST"
      BY <1>2, <3>1 DEF Elsewhere, Away
    <3>3. core_state' \in {"WAIT", "EXECUTE"} /\ current_warp' = w
      BY <3>1, <3>2 DEF Next, Idle, SelectWarp, Fetch, Decode, Request, Stall, Park, Proceed, Execute,
                        Update, Finished, GoTo
    <3>4. QED
      BY <3>3 DEF Elsewhere, Away
  <2>3. QED
    BY <2>1, <2>2, AccessGoesOn
<1>3. CASE warp_status[w] # "WAITING" /\ ~Elsewhere(w)
  <2>1. current_warp = w /\ core_state \in {"WAIT", "EXECUTE", "UPDATE"}
    BY <1>3 DEF Elsewhere, Away, Typed, SchedTyped
  <2>2. core_state = "UPDATE"
    <3>1. ~Park
      BY <2>1, StatusMoves
    <3>2. SUFFICES ASSUME core_state \in {"WAIT", "EXECUTE"}
                   PROVE  FALSE
      BY <2>1
    <3>3. core_state' \in {"WAIT", "EXECUTE", "UPDATE"} /\ current_warp' = w
      BY <2>1, <3>1, <3>2 DEF Next, Idle, SelectWarp, Fetch, Decode, Request, Stall, Proceed, Execute,
                              Update, Finished, GoTo
    <3>4. QED
      BY <3>3 DEF Elsewhere, Away
  <2>3. ASSUME NEW l \in LanesOf(w) PROVE lsu'[l].state = "IDLE"
    <3>1. l \in Lanes /\ WarpActive(l) /\ lsu[l].state \in {"IDLE", "DONE"}
      BY <2>1, <2>2 DEF Pipeline, AccessesComplete, LanesOf, WarpActive
    <3>2. QED
      BY <2>2, <3>1, LaneMoves, EveryStep
  <2>4. QED
    BY <2>3 DEF AllIdle
<1>4. QED
  BY <1>1, <1>2, <1>3

-----------------------------------------------------------------------------
(* The pipeline on its current warp.                                        *)

\* From DECODE on the strobes are those of the current warp's instruction.
LEMMA LatchedStep ==
  ASSUME Typed, Pipeline, Next
  PROVE  Latched'
<1>1. /\ instruction' = rom[warp_pc[current_warp]]
      /\ decoded' = IF core_state = "DECODE" THEN Control(instruction) ELSE decoded
      /\ rom' = rom
  BY EveryStep DEF DataPath, FetchAndDecode
<1>2. ASSUME core_state' \in {"DECODE", "REQUEST", "WAIT", "EXECUTE"}
      PROVE  /\ core_state \in {"FETCH", "DECODE", "REQUEST", "WAIT"} \/ core_state = "SELECT_WARP"
             /\ core_state # "SELECT_WARP"
             /\ current_warp' = current_warp
  BY <1>2 DEF Next, Idle, SelectWarp, Fetch, Decode, Request, Stall, Park, Proceed, Execute, Update,
              Finished, GoTo
<1>3. core_state' \in {"DECODE", "REQUEST", "WAIT", "EXECUTE"} =>
        instruction' = rom'[warp_pc'[current_warp']]
  <2>1. current_warp \in Warps
    BY DEF Typed, SchedTyped
  <2>2. QED
    BY <1>1, <1>2, <2>1, WarpStays
<1>4. ASSUME core_state' \in {"REQUEST", "WAIT", "EXECUTE", "UPDATE"}
      PROVE  /\ core_state \in {"DECODE", "REQUEST", "WAIT", "EXECUTE"}
  BY <1>4 DEF Next, Idle, SelectWarp, Fetch, Decode, Request, Stall, Park, Proceed, Execute, Update,
              Finished, GoTo
<1>5. core_state' \in {"REQUEST", "WAIT", "EXECUTE", "UPDATE"} => decoded' = Control(instruction')
  <2>1. ASSUME core_state \in {"DECODE", "REQUEST", "WAIT", "EXECUTE"}
        PROVE  /\ instruction' = instruction
               /\ core_state # "DECODE" => decoded = Control(instruction)
    BY <1>1, <2>1 DEF Pipeline, Latched
  <2>2. QED
    BY <1>1, <1>4, <2>1
<1>6. (decoded = Control(instruction))' <=> decoded' = Control(instruction')
  BY DEF Control
<1>7. QED
  BY <1>3, <1>5, <1>6 DEF Latched

\* The current warp is not a parked one.
LEMMA CurrentRuns ==
  ASSUME Typed, Pipeline, core_state \in {"IDLE", "FETCH", "DECODE", "REQUEST", "WAIT", "EXECUTE", "UPDATE"}
  PROVE  warp_status[current_warp] # "WAITING"
BY DEF Pipeline, Parked, Away, Typed, SchedTyped

\* REQUEST: every awake lane of an access starts it, or has done it already.
LEMMA Requested ==
  ASSUME Typed, Pipeline, Request
  PROVE  /\ AllIdle(current_warp) \/ Accessing(current_warp, {"DONE"})
         /\ rom' = rom /\ warp_pc' = warp_pc /\ active_mask' = active_mask
         /\ current_warp' = current_warp /\ decoded' = decoded
         /\ core_state' = IF MemOp THEN "WAIT" ELSE "EXECUTE"
         /\ MemOp <=> Op(current_warp) \in {"LDR", "STR"}
         /\ Next /\ DataPath /\ current_warp \in Warps
<1>1. core_state = "REQUEST" /\ Next /\ DataPath /\ current_warp \in Warps
  BY DEF Next, Request, Typed, SchedTyped
<1>2. AllIdle(current_warp) \/ Accessing(current_warp, {"DONE"})
  BY <1>1, CurrentRuns DEF Pipeline, Rested, Elsewhere
<1>3. MemOp <=> Op(current_warp) \in {"LDR", "STR"}
  BY <1>1, DecodedOp DEF Pipeline
<1>4. rom' = rom /\ warp_pc' = warp_pc /\ active_mask' = active_mask /\ decoded' = decoded
  BY <1>1 DEF Request, NoControlFlow, DataPath, FetchAndDecode
<1>5. current_warp' = current_warp /\ core_state' = IF MemOp THEN "WAIT" ELSE "EXECUTE"
  BY DEF Request, GoTo
<1>6. QED
  BY <1>1, <1>2, <1>3, <1>4, <1>5

\* In the scheduler's WAIT all awake lanes are in ISSUE, or none is.
LEMMA InWaitStep ==
  ASSUME Typed, Pipeline, Next
  PROVE  InWait'
<1> SUFFICES ASSUME core_state' = "WAIT"
             PROVE  /\ Accessing(current_warp, {"ISSUE"})' \/ Accessing(current_warp, {"WAIT", "DONE"})'
                    /\ \A l \in LanesOf(current_warp') :
                         lsu'[l].state \in {"ISSUE", "WAIT"} => (lsu'[l].is_read <=> Decoded("mem_read")')
  BY DEF InWait
<1>1. Request \/ Stall
  BY DEF Next, Idle, SelectWarp, Fetch, Decode, Request, Stall, Park, Proceed, Execute, Update,
         Finished, GoTo
<1> DEFINE w == current_warp
<1>2. CASE Request
  <2>1. MemOp /\ DataPath /\ current_warp' = w /\ decoded' = decoded
    BY <1>2, Requested
  <2>2. CASE AllIdle(w)
    <3>1. ASSUME NEW l \in LanesOf(w)
          PROVE  /\ l \in active_mask[w] =>
                      lsu'[l].state = "ISSUE" /\ (lsu'[l].is_read <=> Decoded("mem_read"))
                 /\ l \notin active_mask[w] => lsu'[l].state = "IDLE"
      <4>1. l \in Lanes /\ lsu[l].state = "IDLE" /\ core_state = "REQUEST"
        BY <1>2, <2>2 DEF AllIdle, LanesOf, Request
      <4>2. QED
        BY <2>1, <4>1, LaneMoves DEF Awake
    <3>2. Accessing(w, {"ISSUE"})'
      BY <1>2, <2>1, <3>1, Requested DEF Accessing, Op
    <3>3. QED
      BY <2>1, <3>1, <3>2 DEF Decoded
  <2>3. CASE Accessing(w, {"DONE"})
    <3>1. ASSUME NEW l \in LanesOf(w)
          PROVE  lsu'[l].state = lsu[l].state
      <4>1. l \in Lanes /\ lsu[l].state \in {"IDLE", "DONE"} /\ core_state = "REQUEST"
            /\ (lsu[l].state = "IDLE" => ~Awake(l))
        BY <1>2, <2>3 DEF Accessing, LanesOf, Request, Awake
      <4>2. QED
        BY <2>1, <4>1, LaneMoves
    <3>2. Accessing(w, {"WAIT", "DONE"})'
      BY <1>2, <2>1, <2>3, <3>1, Requested DEF Accessing, Op
    <3>3. QED
      BY <2>1, <2>3, <3>1, <3>2 DEF Accessing
  <2>4. QED
    BY <1>2, <2>2, <2>3, Requested
<1>3. CASE Stall
  <2>1. core_state = "WAIT" /\ current_warp' = w /\ DataPath /\ w \in Warps
    BY <1>3 DEF Stall, Typed, SchedTyped
  <2>2. rom' = rom /\ warp_pc'[w] = warp_pc[w] /\ active_mask'[w] = active_mask[w] /\ decoded' = decoded
    BY <2>1, WarpStays DEF DataPath, FetchAndDecode
  <2>3. ASSUME NEW l \in LanesOf(w)
        PROVE  /\ lsu[l].state \in {"IDLE", "DONE"} => lsu'[l].state = lsu[l].state
               /\ lsu[l].state \in {"ISSUE", "WAIT"} =>
                    \/ lsu'[l].state = "WAIT" /\ lsu'[l].is_read = lsu[l].is_read
                    \/ lsu[l].state = "WAIT" /\ lsu'[l].state = "DONE"
    <3>1. l \in Lanes
      BY DEF LanesOf
    <3>2. QED
      BY <2>1, <3>1, LaneMoves
  <2>4. Accessing(w, {"ISSUE"}) \/ Accessing(w, {"WAIT", "DONE"})
    BY <2>1 DEF Pipeline, InWait
  <2>5. Accessing(w, {"WAIT", "DONE"})'
    BY <2>1, <2>2, <2>3, <2>4 DEF Accessing, Op
  <2>6. \A l \in LanesOf(w) :
          lsu'[l].state \in {"ISSUE", "WAIT"} => (lsu'[l].is_read <=> Decoded("mem_read"))
    BY <2>1, <2>3, <2>4 DEF Pipeline, InWait, Accessing
  <2>7. QED
    BY <2>1, <2>2, <2>5, <2>6 DEF Decoded
<1>4. QED
  BY <1>1, <1>2, <1>3

\* A lane reaches EXECUTE only with its access completed.
LEMMA AccessesStep ==
  ASSUME Typed, Pipeline, Next
  PROVE  AccessesComplete'
<1> DEFINE w == current_warp
<1> SUFFICES ASSUME core_state' \in {"EXECUTE", "UPDATE"}
             PROVE  \A l \in LanesOf(current_warp') :
                      lsu'[l].state = IF MemOp' /\ l \in active_mask'[current_warp'] THEN "DONE" ELSE "IDLE"
  BY DEF AccessesComplete, Awake
<1>1. Request \/ Proceed \/ Execute
  BY DEF Next, Idle, SelectWarp, Fetch, Decode, Request, Stall, Park, Proceed, Execute, Update,
         Finished, GoTo
<1>2. CASE Request
  <2>1. ~MemOp /\ DataPath /\ current_warp' = w /\ decoded' = decoded
    BY <1>2, Requested
  <2>2. AllIdle(w)
    BY <1>2, <2>1, Requested DEF Accessing
  <2>3. ASSUME NEW l \in LanesOf(w) PROVE lsu'[l].state = "IDLE"
    <3>1. l \in Lanes /\ lsu[l].state = "IDLE"
      BY <2>2 DEF AllIdle, LanesOf
    <3>2. QED
      BY <2>1, <3>1, LaneMoves
  <2>4. QED
    BY <2>1, <2>3 DEF MemOp, Decoded
<1>3. CASE Proceed
  <2>1. core_state = "WAIT" /\ current_warp' = w /\ DataPath /\ w \in Warps /\ ~Busy(w)
    BY <1>3 DEF Proceed, Typed, SchedTyped
  <2>2. Accessing(w, {"ISSUE"}) \/ Accessing(w, {"WAIT", "DONE"})
    BY <2>1 DEF Pipeline, InWait
  <2>3. Accessing(w, {"DONE"})
    BY <2>1, <2>2 DEF Accessing, Busy
  <2>4. MemOp
    BY <2>1, <2>3, DecodedOp DEF Pipeline, Accessing
  <2>5. active_mask'[w] = active_mask[w] /\ decoded' = decoded
    BY <2>1, WarpStays DEF DataPath, FetchAndDecode
  <2>6. \A l \in LanesOf(w) : lsu[l].state \in {"IDLE", "DONE"} /\ lsu'[l] = lsu[l]
    BY <2>1, <2>3, LaneStays DEF Accessing
  <2>7. QED
    BY <2>1, <2>3, <2>4, <2>5, <2>6 DEF Accessing, MemOp, Decoded
<1>4. CASE Execute
  <2>1. core_state = "EXECUTE" /\ current_warp' = w /\ DataPath /\ w \in Warps
    BY <1>4 DEF Execute, Typed, SchedTyped
  <2>2. \A l \in LanesOf(w) : lsu[l].state = IF MemOp /\ Awake(l) THEN "DONE" ELSE "IDLE"
    BY <2>1 DEF Pipeline, AccessesComplete
  <2>3. \A l \in LanesOf(w) : lsu[l].state \in {"IDLE", "DONE"} /\ lsu'[l] = lsu[l]
    BY <2>1, <2>2, LaneStays
  <2>4. decoded' = decoded
    BY <2>1 DEF DataPath, FetchAndDecode
  <2>5. MemOp => active_mask'[w] = active_mask[w]
    <3>1. MemOp => ~Decoded("sync") /\ ~Decoded("pc_mux")
      BY <2>1, DecodedOp DEF Pipeline
    <3>2. MemOp => SetWarp(NextPc, active_mask[w], stack[w])
      BY <1>4, <3>1 DEF Execute
    <3>3. QED
      BY <2>1, <3>2 DEF SetWarp, Typed, WarpsTyped
  <2>6. QED
    BY <2>1, <2>2, <2>3, <2>4, <2>5 DEF MemOp, Decoded, Awake
<1>5. QED
  BY <1>1, <1>2, <1>3, <1>4

\* A cycle keeps what the scheduler owes the lanes.
LEMMA PipelineStep ==
  ASSUME Typed, Pipeline, Next
  PROVE  Pipeline'
BY LatchedStep, ParkedStep, RestedStep, InWaitStep, AccessesStep DEF Pipeline

-----------------------------------------------------------------------------
(* The two arbiters.                                                        *)

\* lsu_write_arbiter.sv: a grant goes with the store of the lane it names.
LEMMA GrantStep ==
  ASSUME Typed, RequestLines, GrantMatchesStore, DataPath
  PROVE  GrantMatchesStore'
<1>1. CASE WritePending = {}
  BY <1>1 DEF DataPath, WriteArbiter, GrantMatchesStore
<1>2. CASE WritePending # {}
  <2> DEFINE sel == Min(WritePending)
  <2>1. sel \in WritePending
    BY <1>2, LeastOf, WarpsOfLanes DEF WritePending, Requesting
  <2>2. sel \in Lanes /\ lsu[sel].req = "write" /\ sel \notin wgrant
    BY <2>1 DEF WritePending, Requesting
  <2>3. lsu[sel].state = "WAIT" /\ ~Acked(sel)
    BY <2>2 DEF RequestLines, Acked
  <2>4. lsu'[sel] = lsu[sel]
    BY <2>2, <2>3, LaneMoves
  <2>5. /\ mem_we' = TRUE /\ wgrant' = {sel}
        /\ mem_waddr' = lsu[sel].addr /\ mem_wdata' = lsu[sel].data
    BY <1>2 DEF DataPath, WriteArbiter
  <2> HIDE DEF sel
  <2>6. QED
    BY <2>2, <2>3, <2>4, <2>5 DEF GrantMatchesStore
<1>3. QED
  BY <1>1, <1>2

\* A read answered while its request is still up is taken for a new one.  The
\* lane's warp is parked by then, so the lane cannot come back before the pulse.
LEMMA AnsweredReadIsParked ==
  ASSUME Typed, RequestLines, Pipeline, Next, NEW l \in Lanes, lsu[l].req = "read"
  PROVE  warp_status'[WarpOf(l)] = "WAITING"
<1> DEFINE w == WarpOf(l)
<1>1. w \in Warps /\ l \in LanesOf(w) /\ lsu[l].state = "WAIT" /\ lsu[l].is_read
  BY WarpsOfLanes DEF LanesOf, RequestLines
<1>2. Busy(w)
  BY <1>1 DEF Busy
<1> HIDE DEF w
<1>3. CASE warp_status[w] = "WAITING"
  <2>1. Away(w)
    BY <1>1, <1>3 DEF Pipeline, Parked
  <2>2. QED
    BY <1>1, <1>2, <1>3, <2>1, StatusMoves DEF Away, w
<1>4. CASE warp_status[w] # "WAITING"
  <2>1. ~Elsewhere(w)
    BY <1>1, <1>4 DEF Pipeline, Rested, AllIdle, Accessing
  <2>2. current_warp = w /\ core_state \in {"WAIT", "EXECUTE", "UPDATE"}
    BY <2>1 DEF Elsewhere, Away, Typed, SchedTyped
  <2>3. core_state = "WAIT"
    BY <1>1, <2>2 DEF Pipeline, AccessesComplete
  <2>4. ~Issuing(w) /\ Decoded("mem_read")
    BY <1>1, <2>2, <2>3 DEF Pipeline, InWait, Accessing, Issuing
  <2>5. w \notin WarpEmit
    <3>1. SUFFICES ASSUME lsu[Thread0(w)].req = "emit"
                   PROVE  FALSE
      BY DEF WarpEmit
    <3>2. Thread0(w) \in Lanes /\ Thread0(w) \in LanesOf(w)
      BY <1>1, WarpsOfLanes DEF LanesOf
    <3>3. lsu[Thread0(w)].state = "WAIT" /\ ~lsu[Thread0(w)].is_read
      BY <3>1, <3>2 DEF RequestLines, Typed, GridTyped, LsuState
    <3>4. QED
      BY <2>2, <2>3, <2>4, <3>2, <3>3 DEF Pipeline, InWait
  <2>6. Park
    BY <1>2, <2>2, <2>3, <2>4, <2>5 DEF Next, Idle, SelectWarp, Fetch, Decode, Request, Stall, Proceed,
                                        Execute, Update, Finished
  <2>7. QED
    BY <1>1, <2>2, <2>6, StatusMoves DEF w
<1>5. QED
  BY <1>3, <1>4

\* lsu_arbiter.sv: a read pulse answers a request, or comes late to a lane that is done.
LEMMA ReadingStep ==
  ASSUME Typed, RequestLines, Pipeline, Reading, Next
  PROVE  Reading'
<1>1. DataPath /\ rarb \in ArbState /\ rarb.svc \in Lanes
  BY EveryStep DEF Typed, MemoryTyped, ArbState
<1>2. PICK w \in Warps : w = WarpOf(rarb.svc) /\ rarb.svc \in LanesOf(w)
  BY <1>1, WarpsOfLanes DEF LanesOf
<1>3. ready' = IF rarb.state = "RESP" THEN {rarb.svc} ELSE {}
  BY <1>1 DEF DataPath, ReadArbiter
<1>4. ASSUME ready = {}, Genuine
      PROVE  lsu'[rarb.svc] = lsu[rarb.svc]
  <2>1. lsu[rarb.svc].state = "WAIT" /\ ~Acked(rarb.svc)
    BY <1>1, <1>4 DEF Genuine, RequestLines, Acked
  <2>2. QED
    BY <1>1, <2>1, LaneMoves
<1>5. ASSUME Late, Away(w)
      PROVE  lsu'[rarb.svc] = lsu[rarb.svc]
  BY <1>1, <1>2, <1>5, LaneMoves DEF Late, Away, WarpActive
<1>6. CASE rarb.state = "IDLE" /\ Requesting("read") = {}
  BY <1>1, <1>3, <1>6 DEF DataPath, ReadArbiter, Reading
<1>7. CASE rarb.state = "IDLE" /\ Requesting("read") # {}
  <2> DEFINE sel == Min(Requesting("read"))
  <2>1. sel \in Lanes /\ lsu[sel].req = "read"
    <3>1. sel \in Requesting("read")
      BY <1>7, LeastOf, WarpsOfLanes DEF Requesting
    <3>2. QED
      BY <3>1 DEF Requesting
  <2>2. rarb'.state = "WAIT" /\ rarb'.svc = sel /\ rarb'.raddr = lsu[sel].addr
    BY <1>1, <1>7 DEF DataPath, ReadArbiter, ArbState
  <2> HIDE DEF sel
  <2>3. lsu[sel].state = "WAIT"
    BY <2>1 DEF RequestLines
  <2>4. CASE Acked(sel)
    <3>1. lsu'[sel].state = "DONE"
      BY <1>1, <2>1, <2>3, <2>4, LaneMoves
    <3>2. warp_status'[WarpOf(sel)] = "WAITING"
      BY <2>1, AnsweredReadIsParked
    <3>3. QED
      BY <1>3, <1>7, <2>2, <3>1, <3>2 DEF Reading, Late, Genuine
  <2>5. CASE ~Acked(sel)
    <3>1. lsu'[sel] = lsu[sel]
      BY <1>1, <2>1, <2>3, <2>5, LaneMoves
    <3>2. QED
      BY <1>3, <1>7, <2>1, <2>2, <3>1 DEF Reading, Late, Genuine
  <2>6. QED
    BY <2>4, <2>5
<1>8. CASE rarb.state = "WAIT"
  <2>1. ready = {} /\ rarb' = [rarb EXCEPT !.state = "RESP"]
    BY <1>1, <1>8 DEF Reading, DataPath, ReadArbiter
  <2>2. rarb'.state = "RESP" /\ rarb'.svc = rarb.svc /\ rarb'.raddr = rarb.raddr
    BY <1>1, <2>1 DEF ArbState
  <2>3. CASE Genuine
    BY <1>3, <1>4, <1>8, <2>1, <2>2, <2>3 DEF Reading, Genuine, Late
  <2>4. CASE Late /\ warp_status[w] = "WAITING"
    <3>1. Away(w)
      BY <1>2, <2>4 DEF Pipeline, Parked
    <3>2. Away(w)'
      BY <2>4, <3>1, AwayStays
    <3>3. lsu'[rarb.svc] = lsu[rarb.svc]
      BY <1>5, <2>4, <3>1
    <3>4. QED
      BY <1>2, <1>3, <1>8, <2>2, <2>4, <3>2, <3>3 DEF Reading, Genuine, Late, Away
  <2>5. QED
    BY <1>2, <1>8, <2>3, <2>4 DEF Reading
<1>9. CASE rarb.state = "RESP"
  <2>1. ready = {} /\ rarb' = [rarb EXCEPT !.state = "IDLE", !.rdata = mem_rdata]
    BY <1>1, <1>9 DEF Reading, DataPath, ReadArbiter
  <2>2. rarb'.state = "IDLE" /\ rarb'.svc = rarb.svc /\ rarb'.raddr = rarb.raddr
    BY <1>1, <2>1 DEF ArbState
  <2>3. lsu'[rarb.svc] = lsu[rarb.svc] /\ (Genuine \/ Late)
    BY <1>2, <1>4, <1>5, <1>9, <2>1 DEF Reading
  <2>4. QED
    BY <1>3, <1>9, <2>2, <2>3 DEF Reading, Genuine, Late
<1>10. QED
  BY <1>1, <1>6, <1>7, <1>8, <1>9 DEF ArbState

-----------------------------------------------------------------------------
\* A core begins in the invariant.
LEMMA IInvInit == Init => IInv
<1> SUFFICES ASSUME Init PROVE IInv
  OBVIOUS
<1>1. Typed
  BY TypedInit
<1>2. RequestLines
  BY DEF Init, RequestLines, LsuIdle
<1>3. GrantMatchesStore /\ Reading
  BY DEF Init, GrantMatchesStore, Reading
<1>4. \A w \in Warps : AllIdle(w) /\ warp_status[w] # "WAITING"
  BY DEF Init, AllIdle, LsuIdle, LanesOf
<1>5. Pipeline
  BY <1>4 DEF Init, Pipeline, Latched, Parked, Rested, InWait, AccessesComplete
<1>6. QED
  BY <1>1, <1>2, <1>3, <1>5 DEF IInv

\* A clock cycle keeps the invariant, unit by unit.
LEMMA IInvStep ==
  ASSUME IInv, [Next]_vars
  PROVE  IInv'
<1>1. Typed'
  BY TypedStep DEF IInv
<1>2. CASE Next
  BY <1>1, <1>2, EveryStep, RequestLinesStep, PipelineStep, GrantStep, ReadingStep DEF IInv
<1>3. CASE UNCHANGED vars
  <2>1. RequestLines' /\ GrantMatchesStore' /\ Reading'
    BY <1>3 DEF IInv, RequestLines, GrantMatchesStore, Reading, Genuine, Late, Away,
       vars, sched, front, grid, memory, emit
  <2>2. Pipeline'
    BY <1>3 DEF IInv, Pipeline, Latched, Parked, Rested, InWait, AccessesComplete, Away, Elsewhere, AllIdle,
       Accessing, Op, MemOp, Decoded, Awake, vars, sched, front, grid, memory, emit
  <2>3. QED
    BY <1>1, <2>1, <2>2 DEF IInv
<1>4. QED
  BY <1>2, <1>3

\* core.sv: the promises of scheduler, LSUs and arbiters to one another hold in every
\* cycle, for every number of lanes, launch, memory and program.
THEOREM PipelineInductive == Spec => []IInv
BY IInvInit, IInvStep, PTL DEF Spec

\* decoder.sv and program_memory.sv: in every instance the strobes and the live
\* opcode that the lanes see are those of the current warp's instruction.
THEOREM ControlAlwaysCurrent == Spec => []ControlIsCurrent
<1>1. IInv => ControlIsCurrent
  BY DEF IInv, Pipeline, Latched, ControlIsCurrent
<1>2. QED
  BY <1>1, PipelineInductive, PTL

\* lsu_write_arbiter.sv: however many lanes store at once, the write port is up
\* for one lane that still waits, with its address and byte.
THEOREM GrantsMatchStores == Spec => []GrantMatchesStore
<1>1. IInv => GrantMatchesStore
  BY DEF IInv
<1>2. QED
  BY <1>1, PipelineInductive, PTL

\* lsu_arbiter.sv: however many lanes load at once, no pulse meets a request for
\* another address, the second pulse of an answered request included.
THEOREM ReadsAnswerRequests == Spec => []ReadAnswersRequest
<1>1. IInv => ReadAnswersRequest
  <2> SUFFICES ASSUME IInv, NEW l \in ready, lsu[l].req = "read"
               PROVE  rarb.svc = l /\ rarb.raddr = lsu[l].addr
    BY DEF ReadAnswersRequest
  <2>1. l = rarb.svc /\ l \in Lanes /\ (Genuine \/ Late)
    BY DEF IInv, Reading, Typed, MemoryTyped
  <2>2. lsu[l].state = "WAIT"
    BY <2>1 DEF IInv, RequestLines
  <2>3. QED
    BY <2>1, <2>2 DEF Genuine, Late
<1>2. QED
  BY <1>1, PipelineInductive, PTL

\* scheduler.sv and lsu.sv: in every instance no instruction executes before the
\* access of each awake lane is over, and a replayed one finds it done.
THEOREM AccessesAlwaysComplete == Spec => []AccessesComplete
<1>1. IInv => AccessesComplete
  BY DEF IInv, Pipeline
<1>2. QED
  BY <1>1, PipelineInductive, PTL

\* scheduler.sv: in every instance a parked warp is off the pipeline, at an LDR
\* or STR, with the access of each awake lane issued.
THEOREM ParkedWarpsWait == Spec => []ParkedWarpWaits
<1>1. IInv => ParkedWarpWaits
  <2> SUFFICES ASSUME IInv, NEW w \in Warps, warp_status[w] = "WAITING"
               PROVE  /\ core_state \in {"SELECT_WARP", "DONE"} \/ current_warp # w
                      /\ rom[warp_pc[w]].op \in {"LDR", "STR"}
                      /\ \A l \in active_mask[w] : lsu[l].state \in {"WAIT", "DONE"}
    BY DEF ParkedWarpWaits
  <2>1. Away(w) /\ Accessing(w, {"WAIT", "DONE"}) /\ active_mask[w] \subseteq LanesOf(w)
    BY DEF IInv, Pipeline, Parked, Typed, WarpsTyped
  <2>2. QED
    BY <2>1 DEF Away, Accessing, Op
<1>2. QED
  BY <1>1, PipelineInductive, PTL

\* core.sv: in every instance an offered byte stays, unchanged and its owner's,
\* until it is acknowledged.
THEOREM EmitsAreStable == Spec => EmitIsStable
<1>1. ASSUME IInv, [Next]_vars
      PROVE  [emit_valid /\ ~emit_ready =>
                emit_valid' /\ emit_data' = emit_data /\ emit_owner' = emit_owner]_vars
  <2> SUFFICES ASSUME Next, emit_valid, ~emit_ready
               PROVE  emit_valid' /\ emit_data' = emit_data /\ emit_owner' = emit_owner
    BY <1>1
  <2>1. DataPath /\ emit_owned /\ emit_owner \in Warps /\ lsu[Thread0(emit_owner)].req = "emit"
    BY EveryStep DEF emit_valid, WarpEmit
  <2>2. emit_owned' = TRUE /\ emit_owner' = emit_owner
    BY <2>1 DEF DataPath, EmitLatch
  <2>3. lsu'[Thread0(emit_owner)] = lsu[Thread0(emit_owner)]
    <3>1. Thread0(emit_owner) \in Lanes
      BY <2>1, WarpsOfLanes
    <3>2. lsu[Thread0(emit_owner)].state = "WAIT" /\ ~Acked(Thread0(emit_owner))
      BY <1>1, <2>1, <3>1 DEF IInv, RequestLines, Acked
    <3>3. QED
      BY <1>1, <2>1, <3>1, <3>2, LaneMoves DEF IInv
  <2>4. QED
    BY <2>1, <2>2, <2>3 DEF emit_valid, emit_data, WarpEmit
<1>2. QED
  BY <1>1, PipelineInductive, PTL DEF Spec, EmitIsStable

-----------------------------------------------------------------------------
(* Each warp, at the grain of whole instructions, is a Divergence.           *)

\* The pipeline never carries a warp that has retired.
CurrentLive ==
  core_state \in {"FETCH", "DECODE", "REQUEST", "WAIT", "EXECUTE", "UPDATE"} =>
    warp_status[current_warp] = "READY"

\* scheduler.sv: the warp on the pipeline has been launched and has not retired.
LEMMA CurrentLiveStep ==
  ASSUME Typed, CurrentLive, Next
  PROVE  CurrentLive'
<1> SUFFICES ASSUME core_state' \in {"FETCH", "DECODE", "REQUEST", "WAIT", "EXECUTE", "UPDATE"}
             PROVE  warp_status'[current_warp'] = "READY"
  BY DEF CurrentLive
<1>1. warp_status' = WokenStatus
  BY DEF Next, Idle, SelectWarp, Fetch, Decode, Request, Stall, Park, Proceed, Execute, Update,
         Finished, GoTo
<1>2. current_warp' \in Warps /\ warp_status[current_warp'] = "READY"
  <2>1. CASE SelectWarp
    <3>1. current_warp' = Min(ReadyWarps) /\ ReadyWarps # {}
      BY <2>1 DEF SelectWarp, GoTo
    <3>2. Min(ReadyWarps) \in ReadyWarps
      BY <3>1, LeastOf DEF ReadyWarps, Warps
    <3>3. QED
      BY <3>1, <3>2 DEF ReadyWarps
  <2>2. CASE ~SelectWarp
    BY <2>2 DEF CurrentLive, Typed, SchedTyped, Next, Idle, Fetch, Decode, Request, Stall, Park, Proceed,
                Execute, Update, Finished, GoTo
  <2>3. QED
    BY <2>1, <2>2
<1>3. QED
  BY <1>1, <1>2 DEF WokenStatus

\* scheduler.sv: from FETCH to UPDATE the current warp is a READY one, so no warp
\* runs on after its RET and no parked warp is executed.
THEOREM CurrentAlwaysLive == Spec => []CurrentLive
<1>1. Init => CurrentLive
  BY DEF Init, CurrentLive
<1>2. IInv /\ CurrentLive /\ [Next]_vars => CurrentLive'
  <2>1. ASSUME IInv, CurrentLive, Next PROVE CurrentLive'
    BY <2>1, CurrentLiveStep DEF IInv
  <2>2. ASSUME CurrentLive, UNCHANGED vars PROVE CurrentLive'
    BY <2>2 DEF CurrentLive, vars, sched
  <2>3. QED
    BY <2>1, <2>2
<1>3. QED
  BY <1>1, <1>2, PipelineInductive, PTL DEF Spec

\* Between a RET's EXECUTE and its UPDATE nothing else may happen to the warp.
LEMMA RetiredMoves ==
  ASSUME IInv, CurrentLive, Next, NEW w \in Warps
  PROVE  Retired(w)' <=> Retired(w) \/ (Execute /\ w = current_warp /\ Decoded("ret"))
<1>1. warp_status \in [Warps -> {"READY", "WAITING", "DONE"}] /\ current_warp \in Warps
  BY DEF IInv, Typed, SchedTyped
<1>2. CASE Execute
  <2>1. /\ core_state = "EXECUTE" /\ core_state' = "UPDATE" /\ current_warp' = current_warp
        /\ warp_status' = WokenStatus /\ decoded' = decoded
    BY <1>2, EveryStep DEF Execute, GoTo, DataPath, FetchAndDecode
  <2>2. warp_status'[w] = "DONE" <=> warp_status[w] = "DONE"
    BY <1>1, <2>1 DEF WokenStatus
  <2>3. QED
    BY <1>2, <2>1, <2>2 DEF Retired, Decoded
<1>3. CASE Update
  <2>1. core_state = "UPDATE" /\ core_state' = "SELECT_WARP"
    BY <1>3 DEF Update, GoTo
  <2>2. warp_status'[w] = "DONE" <=> warp_status[w] = "DONE" \/ (Decoded("ret") /\ w = current_warp)
    BY <1>1, <1>3, <2>1 DEF Update, StatusWith, WokenStatus, CurrentLive
  <2>3. QED
    BY <2>1, <2>2 DEF Retired, Execute
<1>4. CASE ~Execute /\ ~Update
  <2>1. core_state # "UPDATE" /\ core_state' # "UPDATE"
    BY <1>4 DEF Next, Idle, SelectWarp, Fetch, Decode, Request, Stall, Park, Proceed, Finished, GoTo
  <2>2. warp_status'[w] = "DONE" <=> warp_status[w] = "DONE"
    BY <1>1, <1>4 DEF StatusWith, WokenStatus, CurrentLive, 
       Next, Idle, SelectWarp, Fetch, Decode, Request, Stall, Park, Proceed, Finished
  <2>3. QED
    BY <1>4, <2>1, <2>2 DEF Retired
<1>5. QED
  BY <1>2, <1>3, <1>4

\* What the abstract warp sees of the instruction that EXECUTE has before it.
LEMMA SkeletonOf ==
  ASSUME IInv, CurrentLive, Execute
  PROVE  LET i == Skeleton(rom)[warp_pc[current_warp]]
         IN /\ i.op = "SYNC" <=> Decoded("sync")
            /\ i.op = "BR" <=> Decoded("pc_mux")
            /\ i.op = "RET" <=> Decoded("ret")
            /\ i.op \in {"BR", "SYNC", "RET", "OTHER"}
            /\ i.op = "BR" => i.imm = decoded.imm
<1> DEFINE p == warp_pc[current_warp]
<1>1. p \in Pc /\ rom[p] \in Instr
  BY CoreAssumption DEF IInv, Typed, SchedTyped, WarpsTyped, FrontTyped
<1>2. decoded = Control(rom[p])
  BY DEF IInv, Pipeline, Latched, Execute
<1>3. PICK op \in Ops : op = rom[p].op
  BY <1>1 DEF Instr
<1>4. decoded.strobes = Strobes[op] /\ decoded.imm = rom[p].imm
  BY <1>2, <1>3 DEF Control
<1>5. /\ Skeleton(rom)[p].op = IF op \in {"BR", "SYNC", "RET"} THEN op ELSE "OTHER"
      /\ Skeleton(rom)[p].imm = IF op = "BR" THEN rom[p].imm ELSE 0
  BY <1>1, <1>3 DEF Skeleton
<1> HIDE DEF p
<1>6. /\ op = "SYNC" <=> Decoded("sync")
      /\ op = "BR" <=> Decoded("pc_mux")
      /\ op = "RET" <=> Decoded("ret")
  BY <1>4, StrobesOf DEF Decoded
<1>7. QED
  BY <1>4, <1>5, <1>6 DEF p

\* EXECUTE moves the current warp as one action of its Divergence.
LEMMA ExecuteDiverges ==
  ASSUME IInv, CurrentLive, Execute, NEW w \in Warps, w = current_warp
  PROVE  Warp(w)!Next
<1> DEFINE s == stack[w]
           i == Skeleton(rom)[warp_pc[w]]
<1>1. /\ core_state = "EXECUTE" /\ warp_status[w] = "READY" /\ Skeleton(rom)' = Skeleton(rom)
      /\ ~Retired(w)
  BY EveryStep DEF Execute, CurrentLive, Retired, Next, DataPath, FetchAndDecode, Skeleton
<1>2. Retired(w)' <=> Decoded("ret")
  <2>1. Next
    BY DEF Next
  <2>2. QED
    BY <1>1, <2>1, RetiredMoves
<1>3. /\ i.op = "SYNC" <=> Decoded("sync")
      /\ i.op = "BR" <=> Decoded("pc_mux")
      /\ i.op = "RET" <=> Decoded("ret")
      /\ i.op \in {"BR", "SYNC", "RET", "OTHER"}
      /\ i.op = "BR" => i.imm = decoded.imm
  BY SkeletonOf
<1>4. /\ warp_pc \in [Warps -> Pc] /\ active_mask \in [Warps -> SUBSET Lanes]
      /\ base_mask \in [Warps -> SUBSET Lanes] /\ stack \in [Warps -> Seq(Frame)]
  BY DEF IInv, Typed, WarpsTyped
<1>5. \A pc, mask, frames : SetWarp(pc, mask, frames) =>
        warp_pc'[w] = pc /\ active_mask'[w] = mask /\ stack'[w] = frames
  BY <1>4 DEF SetWarp
<1>6. NextPc = Warp(w)!NextPc /\ Warp(w)!instr = i
  BY DEF NextPc, Warp!NextPc, Warp!instr
<1>7. \A op : Warp(w)!Executes(op) <=> i.op = op
  BY <1>1, <1>6 DEF Warp!Executes
<1> HIDE DEF i
<1>8. CASE /\ Decoded("sync") /\ s # << >>
           /\ SetWarp(s[Len(s)].pc, s[Len(s)].mask, SubSeq(s, 1, Len(s) - 1))
           /\ UNCHANGED base_mask
  <2>1. Warp(w)!SyncPop
    BY <1>1, <1>2, <1>3, <1>5, <1>7, <1>8 DEF Warp!SyncPop
  <2>2. QED
    BY <2>1 DEF Warp!Next
<1>9. CASE /\ Decoded("sync") /\ s = << >>
           /\ SetWarp(NextPc, base_mask[w], s)
           /\ UNCHANGED base_mask
  <2>1. Warp(w)!SyncRestore
    BY <1>1, <1>2, <1>3, <1>5, <1>6, <1>7, <1>9 DEF Warp!SyncRestore
  <2>2. QED
    BY <2>1 DEF Warp!Next
<1>10. Warp(w)!WantToBranch(Votes) = Branch /\ Warp(w)!WantToStay(Votes) = Stay /\ Votes \in SUBSET LanesOf(w)
  BY DEF Warp!WantToBranch, Warp!WantToStay, Branch, Stay, Votes
<1>11. CASE /\ Decoded("pc_mux") /\ Branch # {} /\ Stay # {}
            /\ SetWarp(decoded.imm, Branch, Push(s, [pc |-> NextPc, mask |-> Stay]))
            /\ base_mask' = IF s = << >> THEN [base_mask EXCEPT ![w] = active_mask[w]] ELSE base_mask
  <2>1. base_mask'[w] = IF s = << >> THEN active_mask[w] ELSE base_mask[w]
    BY <1>4, <1>11
  <2>2. Warp(w)!Push(s, [pc |-> NextPc, mask |-> Stay]) = Push(s, [pc |-> NextPc, mask |-> Stay])
    BY DEF Warp!Push, Push
  <2>3. Warp(w)!Diverge(Votes)
    BY <1>1, <1>2, <1>3, <1>5, <1>6, <1>7, <1>10, <1>11, <2>1, <2>2 DEF Warp!Diverge
  <2>4. QED
    BY <1>10, <2>3 DEF Warp!Next
<1>12. CASE /\ Decoded("pc_mux") /\ (Branch = {} \/ Stay = {})
            /\ SetWarp(IF Branch # {} THEN decoded.imm ELSE NextPc, active_mask[w], s)
            /\ UNCHANGED base_mask
  <2>1. Warp(w)!Uniform(Votes)
    BY <1>1, <1>2, <1>3, <1>5, <1>6, <1>7, <1>10, <1>12 DEF Warp!Uniform
  <2>2. QED
    BY <1>10, <2>1 DEF Warp!Next
<1>13. CASE /\ ~Decoded("sync") /\ ~Decoded("pc_mux")
            /\ SetWarp(NextPc, active_mask[w], s)
            /\ UNCHANGED base_mask
  <2>1. Warp(w)!Plain \/ Warp(w)!Ret
    BY <1>1, <1>2, <1>3, <1>5, <1>6, <1>7, <1>13 DEF Warp!Plain, Warp!Ret
  <2>2. QED
    BY <2>1 DEF Warp!Next
<1>14. QED
  BY <1>8, <1>9, <1>11, <1>12, <1>13 DEF Execute

\* No other cycle, and no other warp, is visible.
LEMMA WarpStutters ==
  ASSUME IInv, CurrentLive, Next, NEW w \in Warps, ~(Execute /\ w = current_warp)
  PROVE  UNCHANGED Warp(w)!vars
<1>1. Skeleton(rom)' = Skeleton(rom)
  BY EveryStep DEF DataPath, FetchAndDecode, Skeleton
<1>2. Retired(w)' <=> Retired(w)
  BY RetiredMoves
<1>3. /\ warp_pc'[w] = warp_pc[w] /\ active_mask'[w] = active_mask[w]
      /\ stack'[w] = stack[w] /\ base_mask'[w] = base_mask[w]
  <2>1. CASE NoControlFlow
    BY <2>1 DEF NoControlFlow
  <2>2. CASE Execute
    <3>1. w # current_warp
      BY <2>2
    <3>2. PICK pc, mask, frames : SetWarp(pc, mask, frames)
      BY <2>2 DEF Execute
    <3>3. base_mask' = base_mask \/ base_mask' = [base_mask EXCEPT ![current_warp] = active_mask[current_warp]]
      BY <2>2 DEF Execute
    <3>4. QED
      BY <3>1, <3>2, <3>3 DEF SetWarp, IInv, Typed, WarpsTyped
  <2>3. QED
    BY <2>1, <2>2 DEF Next, Idle, SelectWarp, Fetch, Decode, Request, Stall, Park, Proceed, Update, Finished
<1>4. QED
  BY <1>1, <1>2, <1>3 DEF Warp!vars

\* scheduler.sv: however the warps interleave, are parked and replay, each of
\* them goes its way as if it were alone: the core implements one Divergence per
\* warp.
THEOREM WarpsAreDivergences == Spec => WarpsImplementDivergence
<1>1. ASSUME Init, NEW w \in Warps
      PROVE  Warp(w)!Init
  <2>1. Skeleton(rom) \in {Skeleton(p) : p \in Programs}
    BY <1>1 DEF Init
  <2>2. Retired(w) <=> LaunchMask(w) = {}
    BY <1>1 DEF Init, Retired
  <2>3. QED
    BY <1>1, <2>1, <2>2 DEF Init, Warp!Init
<1>2. ASSUME IInv, CurrentLive, [Next]_vars
      PROVE  [\A w \in Warps : [Warp(w)!Next]_(Warp(w)!vars)]_vars
  <2> SUFFICES ASSUME Next, NEW w \in Warps
               PROVE  Warp(w)!Next \/ UNCHANGED Warp(w)!vars
    BY <1>2
  <2>1. CASE Execute /\ w = current_warp
    BY <1>2, <2>1, ExecuteDiverges
  <2>2. CASE ~(Execute /\ w = current_warp)
    BY <1>2, <2>2, WarpStutters
  <2>3. QED
    BY <2>1, <2>2
<1>3. (\A w \in Warps : Warp(w)!Init) /\ [][\A w \in Warps : [Warp(w)!Next]_(Warp(w)!vars)]_vars
        => WarpsImplementDivergence
  BY DEF WarpsImplementDivergence
<1>4. Init => \A w \in Warps : Warp(w)!Init
  BY <1>1
<1>5. QED
  BY <1>2, <1>3, <1>4, PipelineInductive, CurrentAlwaysLive, PTL DEF Spec

\* What the theorems of Divergence_proofs assume is true of every warp of every
\* core, so that they hold of each of its warps.
LEMMA WarpMeetsAssumptions ==
  ASSUME NEW w \in Warps
  PROVE  /\ PcSize \in Nat \ {0} /\ SDEPTH \in Nat \ {0}
         /\ IsFiniteSet(LanesOf(w)) /\ LaunchMask(w) \subseteq LanesOf(w)
         /\ {Skeleton(prog) : prog \in Programs} \subseteq [Pc -> Warp(w)!Instr]
<1>1. PcSize \in Nat \ {0} /\ SDEPTH \in Nat \ {0} /\ 0 \in Pc
  BY Sizes
<1>2. IsFiniteSet(LanesOf(w))
  <2>1. IsFiniteSet(Lanes)
    <3>1. WARPS_PER_CORE * THREADS_PER_BLOCK - 1 \in Int
      BY Sizes, CoreAssumption
    <3>2. QED
      BY <3>1, FS_Interval DEF Lanes
  <2>2. LanesOf(w) \subseteq Lanes
    BY DEF LanesOf
  <2>3. QED
    BY <2>1, <2>2, FS_Subset
<1>3. ASSUME NEW prog \in Programs, NEW p \in Pc
      PROVE  Skeleton(prog)[p] \in Warp(w)!Instr
  <2>1. prog[p].op = "BR" => prog[p].imm \in Pc
    BY CoreAssumption
  <2>2. Skeleton(prog)[p] =
          [op |-> IF prog[p].op \in {"BR", "SYNC", "RET"} THEN prog[p].op ELSE "OTHER",
           imm |-> IF prog[p].op = "BR" THEN prog[p].imm ELSE 0]
    BY DEF Skeleton
  <2>3. QED
    BY <1>1, <2>1, <2>2 DEF Warp!Instr, Warp!Pc, Pc
<1>4. \A prog \in Programs : Skeleton(prog) \in [Pc -> Warp(w)!Instr]
  BY <1>3 DEF Skeleton
<1>5. QED
  BY <1>1, <1>2, <1>4 DEF LaunchMask

-----------------------------------------------------------------------------
(***************************************************************************)
(* A core computes what the ISA says (DoneMatchesReference).               *)
(*                                                                         *)
(* The argument is a simulation.  Each thread of the launch is somewhere   *)
(* on its own run in LaneReference; the core holds of each what the run    *)
(* has at that point, and a cycle moves some of them one instruction on.   *)
(* At the end every thread is at the end of its run.                       *)
(*                                                                         *)
(*   1. what one instruction does to a thread (LaneReference)              *)
(*   2. the runs of the threads                                            *)
(*   3. the simulation (Sim), and how it follows the core                  *)
(*   4. the registers       5. the LSUs        6. memory and the UART      *)
(*   7. where the threads of a warp stand      8. the flags                *)
(*   9. the invariant and the theorem                                      *)
(***************************************************************************)

-----------------------------------------------------------------------------
(* 1. What one instruction does to a thread.                                 *)

\* The states of a thread that uses no coprocessor.
Thread ==
  [tid : Nat, pc : Pc, regs : [Reg -> Word], flag : {"none", "N", "Z", "P"},
   base : Addr, wbase : Addr, mem : [Addr -> Byte], read : SUBSET Addr,
   written : SUBSET Addr, out : Seq(Byte), unit : {Ref!Cleared}, halted : BOOLEAN]

\* alu.sv: the table of the barrel shifter is the powers of two.
LEMMA Shifts == ASSUME NEW k \in 0 .. 15 PROVE 2^k = Power(k)
<1>0. CASE k = 0
  <2> 2^0 = 1 OBVIOUS
  <2> QED BY <1>0 DEF Power
<1>1. CASE k = 1
  <2> 2^1 = 2 OBVIOUS
  <2> QED BY <1>1 DEF Power
<1>2. CASE k = 2
  <2> 2^2 = 4 OBVIOUS
  <2> QED BY <1>2 DEF Power
<1>3. CASE k = 3
  <2> 2^3 = 8 OBVIOUS
  <2> QED BY <1>3 DEF Power
<1>4. CASE k = 4
  <2> 2^4 = 16 OBVIOUS
  <2> QED BY <1>4 DEF Power
<1>5. CASE k = 5
  <2> 2^5 = 32 OBVIOUS
  <2> QED BY <1>5 DEF Power
<1>6. CASE k = 6
  <2> 2^6 = 64 OBVIOUS
  <2> QED BY <1>6 DEF Power
<1>7. CASE k = 7
  <2> 2^7 = 128 OBVIOUS
  <2> QED BY <1>7 DEF Power
<1>8. CASE k = 8
  <2> 2^8 = 256 OBVIOUS
  <2> QED BY <1>8 DEF Power
<1>9. CASE k = 9
  <2> 2^9 = 512 OBVIOUS
  <2> QED BY <1>9 DEF Power
<1>10. CASE k = 10
  <2> 2^10 = 1024 OBVIOUS
  <2> QED BY <1>10 DEF Power
<1>11. CASE k = 11
  <2> 2^11 = 2048 OBVIOUS
  <2> QED BY <1>11 DEF Power
<1>12. CASE k = 12
  <2> 2^12 = 4096 OBVIOUS
  <2> QED BY <1>12 DEF Power
<1>13. CASE k = 13
  <2> 2^13 = 8192 OBVIOUS
  <2> QED BY <1>13 DEF Power
<1>14. CASE k = 14
  <2> 2^14 = 16384 OBVIOUS
  <2> QED BY <1>14 DEF Power
<1>15. CASE k = 15
  <2> 2^15 = 32768 OBVIOUS
  <2> QED BY <1>15 DEF Power
<1> QED BY <1>0, <1>1, <1>2, <1>3, <1>4, <1>5, <1>6, <1>7, <1>8, <1>9, <1>10, <1>11, <1>12, <1>13, <1>14, <1>15

\* Adding a multiple of n does not change what is left modulo n.
LEMMA Residue ==
  ASSUME NEW n \in Nat \ {0}, NEW z \in Int, NEW m \in Int
  PROVE  (z + n * m) % n = z % n
<1>1. z = n * (z \div n) + (z % n) /\ z \div n \in Int /\ (z % n) \in 0 .. n - 1
  OBVIOUS
<1>2. z + n * m = n * ((z \div n) + m) + (z % n)
  BY <1>1
<1> DEFINE q == (z \div n) + m
           r == z % n
<1>3. q \in Int /\ r \in 0 .. n - 1 /\ z + n * m = n * q + r
  BY <1>1, <1>2
<1> HIDE DEF q, r
<1>4. (n * q + r) % n = r
  BY <1>3
<1> QED BY <1>3, <1>4 DEF r

\* The reference multiplies by halves of a word, and still multiplies.
LEMMA Products ==
  ASSUME NEW a \in Nat, NEW b \in Nat
  PROVE  Ref!Product(a, b) = (a * b) % WordSize
<1>1. WordSize \in Nat \ {0} /\ ByteSize \in Nat \ {0}
  BY Sizes
<1> DEFINE lo == b % ByteSize
           hi == b \div ByteSize
           y  == a * hi
           q  == y \div WordSize
<1>2. lo \in Nat /\ hi \in Nat /\ b = ByteSize * hi + lo
  BY <1>1
<1>3. y \in Nat
  BY <1>2
<1>4. q \in Int /\ y % WordSize \in Int /\ y = WordSize * q + (y % WordSize)
  BY <1>1, <1>3
<1>5. a * b = (a * lo + ByteSize * (y % WordSize)) + WordSize * (ByteSize * q)
  <2>1. a * b = a * lo + ByteSize * y
    BY <1>1, <1>2
  <2>2. ByteSize * y = ByteSize * (WordSize * q) + ByteSize * (y % WordSize)
    <3> HIDE DEF y, q
    <3> QED BY <1>1, <1>3, <1>4
  <2>3. ByteSize * (WordSize * q) = WordSize * (ByteSize * q)
    <3> HIDE DEF q
    <3> QED BY <1>1, <1>4
  <2>4. a * lo \in Int /\ ByteSize * (y % WordSize) \in Int /\ WordSize * (ByteSize * q) \in Int
    <3> HIDE DEF q, y, lo
    <3> QED BY <1>1, <1>2, <1>4
  <2> HIDE DEF q, y, lo
  <2> QED BY <2>1, <2>2, <2>3, <2>4
<1>6. a * lo + ByteSize * (y % WordSize) \in Int /\ ByteSize * q \in Int
  <2> HIDE DEF q, y, lo
  <2> QED BY <1>1, <1>2, <1>4
<1>7. (a * b) % WordSize = (a * lo + ByteSize * (y % WordSize)) % WordSize
  <2> HIDE DEF q, y, lo
  <2> QED BY <1>1, <1>5, <1>6, Residue
<1> QED BY <1>7 DEF Ref!Product

\* The thread after an instruction, and the places that the instruction accesses.
After(t, i) == Ref!Stepped(t, i)
From(t, i)  == (t.base + t.regs[i.rs]) % AddrSize
To(t, i)    == (t.wbase + t.regs[i.rs]) % AddrSize
Stores(t, i) == i.op = "STR" /\ t.regs[i.rs] # MMIO_TX
Emits(t, i)  == i.op = "STR" /\ t.regs[i.rs] = MMIO_TX

\* The next address, what is computed, the verdict of a comparison, where a branch goes.
Beyond(t) == (t.pc + 1) % PcSize
Result(t, i) == Ref!Value(t, i, t.regs[i.rs], t.regs[i.rt]) % WordSize
Compared(t, i) ==
  IF t.regs[i.rs] < t.regs[i.rt] THEN "N" ELSE IF t.regs[i.rs] = t.regs[i.rt] THEN "Z" ELSE "P"
Target(t, i) == IF Ref!FlagBit[t.flag] \in i.nzp THEN i.imm ELSE Beyond(t)

\* An instruction that computes writes its result and moves on.
LEMMA AfterComputing ==
  ASSUME NEW t \in Thread, NEW i \in Instr, i.op \in Arithmetic \cup Identity
  PROVE  After(t, i) = [t EXCEPT !.regs = [t.regs EXCEPT ![i.rd] = Result(t, i)], !.pc = Beyond(t)]
<1>1. i.op \in Ref!Arithmetic
  BY DEF Arithmetic, Identity, Ref!Arithmetic
<1>2. After(t, i) = Ref!Wrote(t, i.rd, Ref!Value(t, i, t.regs[i.rs], t.regs[i.rt]))
  BY <1>1 DEF After, Ref!Stepped, Ref!Arithmetic
<1> QED BY <1>2 DEF Ref!Wrote, Result, Beyond, Thread

\* CMP leaves its verdict in the flags.
LEMMA AfterCompare ==
  ASSUME NEW t \in Thread, NEW i \in Instr, i.op = "CMP"
  PROVE  After(t, i) = [t EXCEPT !.pc = Beyond(t), !.flag = Compared(t, i)]
BY DEF After, Ref!Stepped, Ref!Arithmetic, Ref!Went, Beyond, Compared, Thread

\* LDR reads a place of memory.
LEMMA AfterLoad ==
  ASSUME NEW t \in Thread, NEW i \in Instr, i.op = "LDR"
  PROVE  After(t, i) = [t EXCEPT !.regs = [t.regs EXCEPT ![i.rd] = t.mem[From(t, i)] % WordSize],
                                  !.pc = Beyond(t), !.read = t.read \cup {From(t, i)}]
BY DEF After, Ref!Stepped, Ref!Arithmetic, Ref!Wrote, Beyond, From, Thread

\* STR at the emit offset sends a byte.
LEMMA AfterEmit ==
  ASSUME NEW t \in Thread, NEW i \in Instr, Emits(t, i)
  PROVE  After(t, i) = [t EXCEPT !.pc = Beyond(t), !.out = Append(t.out, t.regs[i.rt] % ByteSize)]
BY DEF After, Ref!Stepped, Ref!Arithmetic, Ref!Went, Beyond, Emits, Thread

\* STR anywhere else writes a byte to memory.
LEMMA AfterStore ==
  ASSUME NEW t \in Thread, NEW i \in Instr, Stores(t, i)
  PROVE  After(t, i) = [t EXCEPT !.pc = Beyond(t), !.mem = [t.mem EXCEPT ![To(t, i)] = t.regs[i.rt] % ByteSize],
                                  !.written = t.written \cup {To(t, i)}]
BY DEF After, Ref!Stepped, Ref!Arithmetic, Ref!Went, Beyond, To, Stores, Thread

\* ADDB moves the base pointer of loads.
LEMMA AfterBase ==
  ASSUME NEW t \in Thread, NEW i \in Instr, i.op = "ADDB"
  PROVE  After(t, i) = [t EXCEPT !.pc = Beyond(t), !.base = (t.base + i.imm) % AddrSize]
BY DEF After, Ref!Stepped, Ref!Arithmetic, Ref!Went, Beyond, Thread

\* WBASE moves the base pointer of stores.
LEMMA AfterWbase ==
  ASSUME NEW t \in Thread, NEW i \in Instr, i.op = "WBASE"
  PROVE  After(t, i) = [t EXCEPT !.pc = Beyond(t), !.wbase = (t.wbase + i.imm) % AddrSize]
BY DEF After, Ref!Stepped, Ref!Arithmetic, Ref!Went, Beyond, Thread

\* BR goes where the flags say.
LEMMA AfterBranch ==
  ASSUME NEW t \in Thread, NEW i \in Instr, i.op = "BR"
  PROVE  After(t, i) = [t EXCEPT !.pc = Target(t, i)]
BY DEF After, Ref!Stepped, Ref!Arithmetic, Ref!Went, Beyond, Target, Thread

\* SYNC does nothing to a thread alone.
LEMMA AfterSync ==
  ASSUME NEW t \in Thread, NEW i \in Instr, i.op = "SYNC"
  PROVE  After(t, i) = [t EXCEPT !.pc = Beyond(t)]
BY DEF After, Ref!Stepped, Ref!Arithmetic, Ref!Went, Beyond, Thread

\* RET halts a thread.
LEMMA AfterRet ==
  ASSUME NEW t \in Thread, NEW i \in Instr, i.op = "RET"
  PROVE  After(t, i) = [t EXCEPT !.halted = TRUE]
BY DEF After, Ref!Stepped, Ref!Arithmetic, Beyond, Thread


\* What an instruction computes fits a register.
LEMMA ResultIsWord ==
  ASSUME NEW t \in Thread, NEW i \in Instr, i.op \in Arithmetic \cup Identity
  PROVE  Result(t, i) \in Word
<1> DEFINE s == t.regs[i.rs]
           d == t.regs[i.rt]
<1>1. s \in Nat /\ d \in Nat /\ i.imm \in Nat /\ t.tid \in Nat
  BY Sizes DEF Thread, Instr, Word
<1>2. BlockId \in Int /\ BLOCK_DIM \in Int /\ WordSize \in Nat \ {0} /\ ImmSize \in Nat \ {0}
  BY Sizes DEF Word
<1>3. i.op \in {"MOV", "LUI", "ADD", "ADDI", "SUB", "MUL", "SHR", "SHL", "TID", "BID", "BDIM"}
  BY DEF Arithmetic, Identity
<1> HIDE DEF s, d
<1>4. 2^(d % 16) \in Nat \ {0}
  <2>1. d % 16 \in 0 .. 15
    BY <1>1
  <2> QED BY <2>1, Shifts, PowerPositive
<1>5. Ref!Product(s, d) \in Int
  <2>1. Ref!Product(s, d) = (s * d) % WordSize
    BY <1>1, Products
  <2>2. s * d \in Int
    BY <1>1
  <2> QED BY <1>2, <2>1, <2>2
<1>6. s * ImmSize + (i.imm % ImmSize) \in Int /\ s \div 2^(d % 16) \in Int /\ s * 2^(d % 16) \in Int
  <2>1. \A p \in Nat \ {0} : s \div p \in Int /\ s * p \in Int
    BY <1>1
  <2>2. s * ImmSize \in Int /\ i.imm % ImmSize \in Int
    BY <1>1, <1>2
  <2> QED BY <1>1, <1>2, <1>4, <2>1, <2>2
<1>7. Ref!Value(t, i, s, d) \in Int
  BY <1>1, <1>2, <1>3, <1>5, <1>6 DEF Ref!Value
<1> QED BY <1>7, Reduced DEF Result, s, d

\* The operands and the places of an access are in range.
LEMMA Places ==
  ASSUME NEW t \in Thread, NEW i \in Instr
  PROVE  /\ Beyond(t) \in Pc /\ From(t, i) \in Addr /\ To(t, i) \in Addr
         /\ (t.base + i.imm) % AddrSize \in Addr /\ (t.wbase + i.imm) % AddrSize \in Addr
         /\ t.regs[i.rs] \in Word /\ t.regs[i.rt] \in Word /\ t.regs[i.rt] % ByteSize \in Byte
         /\ i.rd \in Reg
<1>1. t.pc + 1 \in Int /\ PcSize \in Nat \ {0}
  BY Sizes DEF Thread, Pc
<1>2. (t.pc + 1) % PcSize \in 0 .. PcSize - 1
  BY <1>1, ModRange
<1>3. /\ t.regs[i.rs] \in Word /\ t.regs[i.rt] \in Word /\ i.rd \in Reg
      /\ t.base \in Addr /\ t.wbase \in Addr /\ i.imm \in Nat
  BY DEF Thread, Instr
<1>4. /\ t.regs[i.rs] \in Nat /\ t.regs[i.rt] \in Nat /\ t.base \in Nat /\ t.wbase \in Nat
  BY <1>3 DEF Word, Addr
<1>5. /\ t.base + t.regs[i.rs] \in Int /\ t.wbase + t.regs[i.rs] \in Int
      /\ t.base + i.imm \in Int /\ t.wbase + i.imm \in Int
  BY <1>3, <1>4
<1> QED BY <1>2, <1>3, <1>4, <1>5, Reduced DEF Beyond, From, To, Pc

\* An instruction takes a thread to a thread.
LEMMA AfterTyped ==
  ASSUME NEW t \in Thread, NEW i \in Instr, i.op = "BR" => i.imm \in Pc
  PROVE  After(t, i) \in Thread
<1>1. /\ Beyond(t) \in Pc /\ From(t, i) \in Addr /\ To(t, i) \in Addr
      /\ (t.base + i.imm) % AddrSize \in Addr /\ (t.wbase + i.imm) % AddrSize \in Addr
      /\ t.regs[i.rt] % ByteSize \in Byte /\ i.rd \in Reg
  BY Places
<1>2. CASE i.op \in Arithmetic \cup Identity
  <2>1. Result(t, i) \in Word
    BY <1>2, ResultIsWord
  <2>2. [t.regs EXCEPT ![i.rd] = Result(t, i)] \in [Reg -> Word]
    BY <2>1 DEF Thread
  <2>3. After(t, i) = [t EXCEPT !.regs = [t.regs EXCEPT ![i.rd] = Result(t, i)], !.pc = Beyond(t)]
    BY <1>2, AfterComputing
  <2> QED BY <1>1, <2>2, <2>3 DEF Thread
<1>3. CASE i.op = "LDR"
  <2> DEFINE v == t.mem[From(t, i)] % WordSize
  <2>1. v \in Word
    <3>1. t.mem[From(t, i)] \in Int
      BY <1>1 DEF Thread, Byte
    <3> QED BY <3>1, Reduced
  <2> HIDE DEF v
  <2>2. [t.regs EXCEPT ![i.rd] = v] \in [Reg -> Word]
    BY <2>1 DEF Thread
  <2>3. After(t, i) = [t EXCEPT !.regs = [t.regs EXCEPT ![i.rd] = v], !.pc = Beyond(t),
                                !.read = t.read \cup {From(t, i)}]
    BY <1>3, AfterLoad DEF v
  <2>4. t.read \cup {From(t, i)} \in SUBSET Addr
    BY <1>1 DEF Thread
  <2> QED BY <1>1, <2>2, <2>3, <2>4 DEF Thread
<1>4. CASE Stores(t, i)
  <2>1. [t.mem EXCEPT ![To(t, i)] = t.regs[i.rt] % ByteSize] \in [Addr -> Byte]
    BY <1>1 DEF Thread
  <2>2. t.written \cup {To(t, i)} \in SUBSET Addr
    BY <1>1 DEF Thread
  <2>3. After(t, i) = [t EXCEPT !.pc = Beyond(t),
                                !.mem = [t.mem EXCEPT ![To(t, i)] = t.regs[i.rt] % ByteSize],
                                !.written = t.written \cup {To(t, i)}]
    BY <1>4, AfterStore
  <2> QED BY <1>1, <2>1, <2>2, <2>3 DEF Thread
<1>5. CASE Emits(t, i)
  <2>1. Append(t.out, t.regs[i.rt] % ByteSize) \in Seq(Byte)
    BY <1>1 DEF Thread
  <2>2. After(t, i) = [t EXCEPT !.pc = Beyond(t), !.out = Append(t.out, t.regs[i.rt] % ByteSize)]
    BY <1>5, AfterEmit
  <2> QED BY <1>1, <2>1, <2>2 DEF Thread
<1>6. CASE i.op = "CMP"
  <2>1. After(t, i) = [t EXCEPT !.pc = Beyond(t), !.flag = Compared(t, i)]
    BY <1>6, AfterCompare
  <2>2. Compared(t, i) \in {"none", "N", "Z", "P"}
    BY DEF Compared
  <2> QED BY <1>1, <2>1, <2>2 DEF Thread
<1>7. CASE i.op = "ADDB"
  <2>1. After(t, i) = [t EXCEPT !.pc = Beyond(t), !.base = (t.base + i.imm) % AddrSize]
    BY <1>7, AfterBase
  <2> QED BY <1>1, <2>1 DEF Thread
<1>8. CASE i.op = "WBASE"
  <2>1. After(t, i) = [t EXCEPT !.pc = Beyond(t), !.wbase = (t.wbase + i.imm) % AddrSize]
    BY <1>8, AfterWbase
  <2> QED BY <1>1, <2>1 DEF Thread
<1>9. CASE i.op = "BR"
  <2>1. Target(t, i) \in Pc
    BY <1>1, <1>9 DEF Target
  <2>2. After(t, i) = [t EXCEPT !.pc = Target(t, i)]
    BY <1>9, AfterBranch
  <2> QED BY <2>1, <2>2 DEF Thread
<1>10. CASE i.op = "SYNC"
  BY <1>1, <1>10, AfterSync DEF Thread
<1>11. CASE i.op = "RET"
  <2>1. After(t, i) = [t EXCEPT !.halted = TRUE]
    BY <1>11, AfterRet
  <2> QED BY <2>1 DEF Thread
<1> QED BY <1>2, <1>3, <1>4, <1>5, <1>6, <1>7, <1>8, <1>9, <1>10, <1>11 DEF Instr, Ops, Stores, Emits


\* What an instruction leaves alone.
LEMMA AfterKeeps ==
  ASSUME NEW t \in Thread, NEW i \in Instr
  PROVE  /\ ~Stores(t, i) => After(t, i).mem = t.mem /\ After(t, i).written = t.written
         /\ ~Emits(t, i) => After(t, i).out = t.out
         /\ i.op # "LDR" => After(t, i).read = t.read
         /\ i.op # "RET" => After(t, i).halted = t.halted
         /\ After(t, i).tid = t.tid
         /\ i.op \notin {"BR", "RET"} => After(t, i).pc = Beyond(t)
         /\ i.op \notin Arithmetic \cup Identity \cup {"LDR"} => After(t, i).regs = t.regs
         /\ i.op # "CMP" => After(t, i).flag = t.flag
         /\ i.op # "ADDB" => After(t, i).base = t.base
         /\ i.op # "WBASE" => After(t, i).wbase = t.wbase
<1>1. CASE i.op \in Arithmetic \cup Identity
  <2>1. After(t, i) = [t EXCEPT !.regs = [t.regs EXCEPT ![i.rd] = Result(t, i)], !.pc = Beyond(t)]
    BY <1>1, AfterComputing
  <2>2. i.op \notin {"STR", "LDR", "CMP", "ADDB", "WBASE", "BR", "SYNC", "RET"}
    BY <1>1 DEF Arithmetic, Identity
  <2> QED BY <1>1, <2>1, <2>2 DEF Thread, Stores, Emits
<1>2. CASE i.op = "LDR"
  <2>1. After(t, i) = [t EXCEPT !.regs = [t.regs EXCEPT ![i.rd] = t.mem[From(t, i)] % WordSize],
                                !.pc = Beyond(t), !.read = t.read \cup {From(t, i)}]
    BY <1>2, AfterLoad
  <2> QED BY <1>2, <2>1 DEF Thread, Stores, Emits
<1>3. CASE Stores(t, i)
  <2>1. After(t, i) = [t EXCEPT !.pc = Beyond(t),
                                !.mem = [t.mem EXCEPT ![To(t, i)] = t.regs[i.rt] % ByteSize],
                                !.written = t.written \cup {To(t, i)}]
    BY <1>3, AfterStore
  <2> QED BY <1>3, <2>1 DEF Thread, Stores, Emits
<1>4. CASE Emits(t, i)
  <2>1. After(t, i) = [t EXCEPT !.pc = Beyond(t), !.out = Append(t.out, t.regs[i.rt] % ByteSize)]
    BY <1>4, AfterEmit
  <2> QED BY <1>4, <2>1 DEF Thread, Stores, Emits
<1>5. CASE i.op = "CMP"
  <2>1. After(t, i) = [t EXCEPT !.pc = Beyond(t), !.flag = Compared(t, i)]
    BY <1>5, AfterCompare
  <2> QED BY <1>5, <2>1 DEF Thread, Stores, Emits
<1>6. CASE i.op = "ADDB"
  <2>1. After(t, i) = [t EXCEPT !.pc = Beyond(t), !.base = (t.base + i.imm) % AddrSize]
    BY <1>6, AfterBase
  <2> QED BY <1>6, <2>1 DEF Thread, Stores, Emits
<1>7. CASE i.op = "WBASE"
  <2>1. After(t, i) = [t EXCEPT !.pc = Beyond(t), !.wbase = (t.wbase + i.imm) % AddrSize]
    BY <1>7, AfterWbase
  <2> QED BY <1>7, <2>1 DEF Thread, Stores, Emits
<1>8. CASE i.op = "BR"
  <2>1. After(t, i) = [t EXCEPT !.pc = Target(t, i)]
    BY <1>8, AfterBranch
  <2> QED BY <1>8, <2>1 DEF Thread, Stores, Emits
<1>9. CASE i.op = "SYNC"
  <2>1. After(t, i) = [t EXCEPT !.pc = Beyond(t)]
    BY <1>9, AfterSync
  <2> QED BY <1>9, <2>1 DEF Thread, Stores, Emits
<1>10. CASE i.op = "RET"
  <2>1. After(t, i) = [t EXCEPT !.halted = TRUE]
    BY <1>10, AfterRet
  <2> QED BY <1>10, <2>1 DEF Thread, Stores, Emits
<1> QED BY <1>1, <1>2, <1>3, <1>4, <1>5, <1>6, <1>7, <1>8, <1>9, <1>10 DEF Instr, Ops, Stores, Emits

-----------------------------------------------------------------------------
(* 2. The runs of the threads.                                               *)

\* One instruction of a thread that has not come to its RET.
OneStep(prog, t) == IF t.halted THEN t ELSE After(t, prog[t.pc])

\* h is what becomes of thread l, one instruction after the other, up to the m-th.
IsHistory(prog, l, m, h) ==
  h = [n \in 0 .. m |-> IF n = 0 THEN Ref!Fresh(l, LoadedData) ELSE OneStep(prog, h[n - 1])]

\* One instruction more.
LEMMA HistoryNext ==
  ASSUME NEW prog, NEW l, NEW m \in Nat, NEW g, IsHistory(prog, l, m, g)
  PROVE  \E h : IsHistory(prog, l, m + 1, h)
<1> DEFINE h == [n \in 0 .. m + 1 |-> IF n = m + 1 THEN OneStep(prog, g[m]) ELSE g[n]]
           Def(f, n) == IF n = 0 THEN Ref!Fresh(l, LoadedData) ELSE OneStep(prog, f[n - 1])
<1>0. g = [n \in 0 .. m |-> Def(g, n)]
  BY DEF IsHistory
<1>1. ASSUME NEW n \in 0 .. m + 1 PROVE h[n] = Def(h, n)
  <2> HIDE DEF Def
  <2>1. CASE n = m + 1
    <3>1. h[n] = OneStep(prog, g[m]) /\ h[m] = g[m] /\ n - 1 = m /\ n # 0
      BY <2>1
    <3> QED BY <3>1 DEF Def
  <2>2. CASE n # m + 1 /\ n # 0
    <3>1. n \in 0 .. m /\ n - 1 \in 0 .. m /\ n - 1 # m + 1 /\ n - 1 \in 0 .. m + 1
      BY <2>2
    <3>2. h[n] = g[n] /\ h[n - 1] = g[n - 1]
      BY <2>2, <3>1
    <3>3. g[n] = Def(g, n)
      BY <1>0, <3>1
    <3> HIDE DEF h
    <3> QED BY <2>2, <3>2, <3>3 DEF Def
  <2>3. CASE n = 0
    <3>1. h[0] = g[0] /\ 0 \in 0 .. m
      BY <2>3
    <3>2. g[0] = Def(g, 0)
      BY <1>0, <3>1
    <3> HIDE DEF h
    <3> QED BY <2>3, <3>1, <3>2 DEF Def
  <2> QED BY <2>1, <2>2, <2>3
<1>2. h = [n \in 0 .. m + 1 |-> h[n]]
  OBVIOUS
<1>3. h = [n \in 0 .. m + 1 |-> Def(h, n)]
  <2> HIDE DEF h, Def
  <2> QED BY <1>1, <1>2
<1> HIDE DEF h
<1> QED BY <1>3 DEF IsHistory

\* No instruction at all.
LEMMA HistoryZero == ASSUME NEW prog, NEW l PROVE \E h : IsHistory(prog, l, 0, h)
<1> DEFINE h == [n \in 0 .. 0 |-> Ref!Fresh(l, LoadedData)]
<1>1. h = [n \in 0 .. 0 |-> IF n = 0 THEN Ref!Fresh(l, LoadedData) ELSE OneStep(prog, h[n - 1])]
  OBVIOUS
<1> HIDE DEF h
<1> QED BY <1>1 DEF IsHistory

\* A thread has a history of every length.
LEMMA HistoryExists == ASSUME NEW prog, NEW l, NEW m \in Nat PROVE \E h : IsHistory(prog, l, m, h)
<1> DEFINE Fails == {k \in Nat : ~\E h : IsHistory(prog, l, k, h)}
<1>1. CASE Fails # {}
  <2>1. PICK k \in Fails : \A j \in Fails : k <= j
    <3>1. Fails \subseteq Nat
      OBVIOUS
    <3> HIDE DEF Fails
    <3> QED BY <1>1, <3>1, LeastNumber
  <2>2. k # 0
    BY HistoryZero
  <2>3. k - 1 \in Nat /\ k - 1 \notin Fails
    BY <2>1, <2>2
  <2>4. PICK g : IsHistory(prog, l, k - 1, g)
    BY <2>3
  <2>5. \E h : IsHistory(prog, l, k, h)
    <3>1. (k - 1) + 1 = k
      OBVIOUS
    <3> QED BY <2>3, <2>4, <3>1, HistoryNext
  <2> QED BY <2>5
<1> QED BY <1>1

\* The reference's run is the last of it.
LEMMA RunIsHistory ==
  ASSUME NEW prog, NEW l
  PROVE  \E h : IsHistory(prog, l, Fuel, h) /\ h[Fuel] = Ref!Run(l, prog, LoadedData, Fuel)
<1>1. \E g : /\ Ref!Run(l, prog, LoadedData, Fuel) = g[Fuel]
             /\ (\E h : IsHistory(prog, l, Fuel, h)) => IsHistory(prog, l, Fuel, g)
  BY DEF Ref!Run, IsHistory, OneStep, After
<1> QED BY <1>1, HistoryExists, FuelAssumption

\* A thread begins as the reference's does.
LEMMA FreshTyped ==
  ASSUME NEW l \in Lanes
  PROVE  Ref!Fresh(l, LoadedData) \in Thread /\ Ref!Fresh(l, LoadedData).tid = l
<1>1. LoadedData \in [Addr -> Byte] /\ l \in Nat
  BY CoreAssumption, Sizes DEF Word
<1>2. [r \in 0 .. NumRegs - 1 |-> 0] \in [Reg -> Word]
  BY Sizes DEF Reg
<1> QED BY <1>1, <1>2, Sizes DEF Ref!Fresh, Thread

\* Every state of a history is a thread's.
LEMMA HistoryTyped ==
  ASSUME NEW prog \in Programs, NEW l \in Lanes, NEW h, IsHistory(prog, l, Fuel, h), NEW n \in 0 .. Fuel
  PROVE  h[n] \in Thread /\ h[n].tid = l
<1> DEFINE Fails == {k \in 0 .. Fuel : ~(h[k] \in Thread /\ h[k].tid = l)}
<1>0. h = [k \in 0 .. Fuel |-> IF k = 0 THEN Ref!Fresh(l, LoadedData) ELSE OneStep(prog, h[k - 1])]
  BY DEF IsHistory
<1>1. CASE Fails # {}
  <2>1. PICK k \in Fails : \A j \in Fails : k <= j
    <3>1. Fails \subseteq Nat
      BY FuelAssumption
    <3> HIDE DEF Fails
    <3> QED BY <1>1, <3>1, LeastNumber
  <2>2. k # 0
    <3>1. 0 \in 0 .. Fuel
      BY FuelAssumption
    <3>2. h[0] = Ref!Fresh(l, LoadedData)
      BY <1>0, <3>1
    <3> QED BY <3>2, FreshTyped
  <2>3. k - 1 \in 0 .. Fuel /\ k - 1 \notin Fails
    BY <2>1, <2>2, FuelAssumption
  <2> DEFINE t == h[k - 1]
  <2>4. t \in Thread /\ t.tid = l
    BY <2>3
  <2>5. h[k] = OneStep(prog, t)
    BY <1>0, <2>2
  <2> HIDE DEF t
  <2>6. t.pc \in Pc
    BY <2>4 DEF Thread
  <2>7. prog[t.pc] \in Instr /\ (prog[t.pc].op = "BR" => prog[t.pc].imm \in Pc)
    BY <2>6, CoreAssumption
  <2>8. After(t, prog[t.pc]) \in Thread /\ After(t, prog[t.pc]).tid = t.tid
    BY <2>4, <2>7, AfterTyped, AfterKeeps
  <2> QED BY <2>4, <2>5, <2>8 DEF OneStep
<1> QED BY <1>1

\* An access is never taken back.
LEMMA AfterGrows ==
  ASSUME NEW t \in Thread, NEW i \in Instr
  PROVE  t.read \subseteq After(t, i).read /\ t.written \subseteq After(t, i).written
<1>1. t.read \subseteq After(t, i).read
  <2>1. CASE i.op = "LDR"
    <3>1. After(t, i) = [t EXCEPT !.regs = [t.regs EXCEPT ![i.rd] = t.mem[From(t, i)] % WordSize],
                                  !.pc = Beyond(t), !.read = t.read \cup {From(t, i)}]
      BY <2>1, AfterLoad
    <3>2. After(t, i).read = t.read \cup {From(t, i)}
      BY <3>1 DEF Thread
    <3> QED BY <3>2
  <2> QED BY <2>1, AfterKeeps
<1>2. t.written \subseteq After(t, i).written
  <2>1. CASE Stores(t, i)
    <3>1. After(t, i) = [t EXCEPT !.pc = Beyond(t), !.mem = [t.mem EXCEPT ![To(t, i)] = t.regs[i.rt] % ByteSize],
                                  !.written = t.written \cup {To(t, i)}]
      BY <2>1, AfterStore
    <3>2. After(t, i).written = t.written \cup {To(t, i)}
      BY <3>1 DEF Thread
    <3> QED BY <3>2
  <2> QED BY <2>1, AfterKeeps
<1> QED BY <1>1, <1>2

\* What a thread has read and written stays in its history, and a RET ends it.
LEMMA HistoryGrows ==
  ASSUME NEW prog \in Programs, NEW l \in Lanes, NEW h, IsHistory(prog, l, Fuel, h), NEW n \in 0 .. Fuel
  PROVE  /\ h[n].read \subseteq h[Fuel].read /\ h[n].written \subseteq h[Fuel].written
         /\ h[n].halted => h[n] = h[Fuel]
<1> DEFINE Kept(k) == /\ h[n].read \subseteq h[k].read /\ h[n].written \subseteq h[k].written
                      /\ h[n].halted => h[n] = h[k]
           Fails == {k \in n .. Fuel : ~Kept(k)}
<1>0. h = [k \in 0 .. Fuel |-> IF k = 0 THEN Ref!Fresh(l, LoadedData) ELSE OneStep(prog, h[k - 1])]
  BY DEF IsHistory
<1>1. CASE Fails # {}
  <2>1. PICK k \in Fails : \A j \in Fails : k <= j
    <3>1. Fails \subseteq Nat
      BY FuelAssumption
    <3> HIDE DEF Fails
    <3> QED BY <1>1, <3>1, LeastNumber
  <2>2. k # n
    OBVIOUS
  <2>3. k - 1 \in n .. Fuel /\ k - 1 \in 0 .. Fuel /\ k \in 0 .. Fuel /\ k # 0 /\ k - 1 \notin Fails
    BY <2>1, <2>2, FuelAssumption
  <2> DEFINE t == h[k - 1]
  <2>4. t \in Thread
    BY <2>3, HistoryTyped
  <2>5. h[k] = OneStep(prog, t)
    BY <1>0, <2>3
  <2>6. h[n].read \subseteq t.read /\ h[n].written \subseteq t.written /\ (h[n].halted => h[n] = t)
    BY <2>3
  <2> HIDE DEF t
  <2>7. prog[t.pc] \in Instr
    BY <2>4, CoreAssumption DEF Thread
  <2>8. t.read \subseteq After(t, prog[t.pc]).read /\ t.written \subseteq After(t, prog[t.pc]).written
    BY <2>4, <2>7, AfterGrows
  <2>9. Kept(k)
    BY <2>5, <2>6, <2>8 DEF OneStep
  <2> QED BY <2>9
<1>2. Fuel \in n .. Fuel
  BY FuelAssumption
<1> QED BY <1>1, <1>2

\* A state of the run that thread l makes alone.
OnRun(prog, l, t) ==
  \E h : /\ IsHistory(prog, l, Fuel, h)
         /\ h[Fuel] = Ref!Run(l, prog, LoadedData, Fuel)
         /\ \E n \in 0 .. Fuel : t = h[n]

\* It begins with the fresh thread.
LEMMA RunBegins ==
  ASSUME NEW prog, NEW l
  PROVE  OnRun(prog, l, Ref!Fresh(l, LoadedData))
<1>1. PICK h : IsHistory(prog, l, Fuel, h) /\ h[Fuel] = Ref!Run(l, prog, LoadedData, Fuel)
  BY RunIsHistory
<1>2. 0 \in 0 .. Fuel
  BY FuelAssumption
<1>3. h[0] = Ref!Fresh(l, LoadedData)
  BY <1>1, <1>2 DEF IsHistory
<1> QED BY <1>1, <1>2, <1>3 DEF OnRun

\* It goes on to the RET.
LEMMA RunGoesOn ==
  ASSUME NEW prog, NEW l, NEW t, OnRun(prog, l, t), ~t.halted,
         Ref!Run(l, prog, LoadedData, Fuel).halted
  PROVE  OnRun(prog, l, After(t, prog[t.pc]))
<1>1. PICK h : /\ IsHistory(prog, l, Fuel, h)
               /\ h[Fuel] = Ref!Run(l, prog, LoadedData, Fuel)
               /\ \E n \in 0 .. Fuel : t = h[n]
  BY DEF OnRun
<1>2. PICK n \in 0 .. Fuel : t = h[n]
  BY <1>1
<1>3. n # Fuel
  BY <1>1, <1>2
<1>4. n + 1 \in 0 .. Fuel /\ n + 1 # 0 /\ (n + 1) - 1 = n
  BY <1>3, FuelAssumption
<1>5. h[n + 1] = OneStep(prog, h[n])
  BY <1>1, <1>4 DEF IsHistory
<1> QED BY <1>1, <1>2, <1>4, <1>5 DEF OnRun, OneStep

\* What is known of each of its states.
LEMMA RunFacts ==
  ASSUME NEW prog \in Programs, NEW l \in Lanes, NEW t, OnRun(prog, l, t)
  PROVE  /\ t \in Thread /\ t.tid = l
         /\ t.read \subseteq Ref!Run(l, prog, LoadedData, Fuel).read
         /\ t.written \subseteq Ref!Run(l, prog, LoadedData, Fuel).written
         /\ t.halted => t = Ref!Run(l, prog, LoadedData, Fuel)
<1>1. PICK h : /\ IsHistory(prog, l, Fuel, h)
               /\ h[Fuel] = Ref!Run(l, prog, LoadedData, Fuel)
               /\ \E n \in 0 .. Fuel : t = h[n]
  BY DEF OnRun
<1> QED BY <1>1, HistoryTyped, HistoryGrows

-----------------------------------------------------------------------------
(* 3. The simulation: how far each thread is, and what the core holds of it. *)

\* The places that a thread accesses in the whole of its run.
Touched(l) == Alone(l).read \cup Alone(l).written

\* The read ports hold the operands from the cycle after REQUEST on.
PortsRead ==
  core_state \in {"WAIT", "EXECUTE", "UPDATE"} =>
    \A l \in Lanes : rs[l] = registers[l][decoded.rs] /\ rt[l] = registers[l][decoded.rt]

\* The register file and the base pointers.
RegsSim(d) ==
  \A l \in Threads :
    registers[l] = d[l].regs /\ base[l] = d[l].base /\ wbase[l] = d[l].wbase

\* The flags: those of a masked lane are not its thread's, for a CMP sets them too,
\* but a thread at a branch has the ones that the branch asks for.
VoteSim(d) ==
  \A l \in Threads :
    LET i == rom[d[l].pc]
    IN i.op = "BR" => (nzp[l] \cap i.nzp # {} <=> Ref!FlagBit[d[l].flag] \in i.nzp)

\* Either no thread of the warp has compared yet, and none could part from the
\* others, or all have.
FlagsSim(d, w) ==
  \/ /\ stack[w] = << >> /\ active_mask[w] = LaunchMask(w)
     /\ \A l \in LaunchMask(w) : nzp[l] = {} /\ d[l].flag = "none"
  \/ \A l \in LaunchMask(w) : nzp[l] # {} /\ d[l].flag # "none"

\* What lane l's LSU does for a thread at t.
Serves(l, t) ==
  LET i == rom[t.pc]
  IN /\ ~t.halted
     /\ i.op = IF lsu[l].is_read THEN "LDR" ELSE "STR"
     /\ lsu[l].req = "read" => lsu[l].addr = From(t, i)
     /\ lsu[l].req = "write" =>
          Stores(t, i) /\ lsu[l].addr = To(t, i) /\ lsu[l].data = t.regs[i.rt] % ByteSize
     /\ lsu[l].req = "emit" => Emits(t, i) /\ lsu[l].data = t.regs[i.rt] % ByteSize
     /\ lsu[l].state = "DONE" /\ lsu[l].is_read => lsu[l].out = t.mem[From(t, i)]

LsuSim(d) ==
  /\ \A l \in Lanes \ Threads : lsu[l].state = "IDLE"
  /\ \A l \in Threads : lsu[l].state # "IDLE" => Serves(l, d[l])

\* An access takes effect when its LSU is DONE, before the instruction does.
Settled(l, t) == IF lsu[l].state = "DONE" THEN After(t, rom[t.pc]) ELSE t

MemSim(d) ==
  /\ \A l \in Threads : \A a \in Touched(l) : mem[a] = Settled(l, d[l]).mem[a]
  /\ \A a \in Addr : (\A l \in Threads : a \notin Alone(l).written) => mem[a] = LoadedData[a]

\* The byte under way to a lane is the one that its thread reads.
ReadSim(d) ==
  /\ rarb.state = "RESP" /\ Genuine => mem_rdata = d[rarb.svc].mem[rarb.raddr]
  /\ \A l \in ready : lsu[l].req = "read" => rarb.rdata = d[l].mem[lsu[l].addr]

\* The UART has sent the byte before the LSU of thread 0 sees the answer.
Sending(w) == emit_ready /\ emit_owner = w

SentSim(d) ==
  /\ emit_ready => emit_valid
  /\ \A w \in Warps : LaunchMask(w) # {} =>
       LET t == d[Thread0(w)]
       IN sent[w] = (IF Sending(w) THEN After(t, rom[t.pc]) ELSE Settled(Thread0(w), t)).out

\* The instructions that change no register of a thread but its PC take effect
\* in EXECUTE, with the masks of before; the others in UPDATE.
Moving == {"BR", "SYNC"}
Pending(l) == core_state = "UPDATE" /\ Awake(l) /\ instruction.op \notin Moving

\* Where a thread stands once its instruction in UPDATE has taken effect.
At(d, l) == IF Pending(l) THEN After(d[l], instruction).pc ELSE d[l].pc

Code    == Skeleton(rom)
Skip(p) == Code[p].imm
Join(p) == (Skip(p) + 1) % PcSize

\* The three situations of LaneView, above.
Together(d, w) ==
  /\ stack[w] = << >> /\ active_mask[w] = LaunchMask(w)
  /\ \A l \in LaunchMask(w) : At(d, l) = warp_pc[w]

Parted(d, w, p) ==
  /\ stack[w] = <<[pc |-> p + 1, mask |-> LaunchMask(w) \ active_mask[w]]>>
  /\ warp_pc[w] = Skip(p)
  /\ \A l \in LaunchMask(w) : At(d, l) = IF l \in active_mask[w] THEN warp_pc[w] ELSE p + 1

InBody(d, w, p) ==
  /\ stack[w] = << >>
  /\ warp_pc[w] \in p + 1 .. Skip(p)
  /\ \A l \in LaunchMask(w) : At(d, l) = IF l \in active_mask[w] THEN warp_pc[w] ELSE Join(p)

InStep(d, w) ==
  /\ base_mask[w] = LaunchMask(w)
  /\ Together(d, w) \/ \E p \in Pc : IsIf(Code, p) /\ (Parted(d, w, p) \/ InBody(d, w, p))

\* A warp that runs has no halted thread, one that has retired no other.
WarpSim(d, w) ==
  /\ active_mask[w] \subseteq LaunchMask(w)
  /\ ~Retired(w) => InStep(d, w)
  /\ \A l \in LaunchMask(w) : d[l].halted <=> warp_status[w] = "DONE"

\* In UPDATE: the instruction is that of the awake threads, and of all threads if
\* it is one that the masks do not hold back, or a RET.
UpdateSim(d) ==
  core_state = "UPDATE" =>
    /\ \A l \in Threads : Pending(l) => rom[d[l].pc] = instruction
    /\ instruction.op \in {"ADDB", "WBASE", "RET"} =>
         active_mask[current_warp] = LaunchMask(current_warp)

Runs(d) == \A l \in Threads : OnRun(rom, l, d[l])

Sim(d) ==
  /\ Runs(d) /\ RegsSim(d) /\ LsuSim(d) /\ MemSim(d) /\ ReadSim(d) /\ SentSim(d)
  /\ VoteSim(d) /\ UpdateSim(d) /\ \A w \in Warps : WarpSim(d, w) /\ FlagsSim(d, w)

\* What a program and its run are assumed to be.
Kernels == SDEPTH > 1 /\ \A prog \in Programs : Disciplined(prog) /\ Ends(prog)

\* What a cycle does to the threads: the awake ones execute the instruction in
\* EXECUTE or in UPDATE, by what it is.
Steps(l) == Awake(l) /\ core_state = (IF instruction.op \in Moving THEN "EXECUTE" ELSE "UPDATE")
Moved(d) == [l \in Threads |-> IF Steps(l) THEN After(d[l], instruction) ELSE d[l]]

-----------------------------------------------------------------------------
\* A thread is a lane of its warp that the launch has.
LEMMA ThreadsAre ==
  /\ \A l \in Threads : /\ l \in Lanes /\ WarpOf(l) \in Warps
                        /\ l \in LaunchMask(WarpOf(l)) /\ l \in LanesOf(WarpOf(l))
  /\ \A w \in Warps : LaunchMask(w) \subseteq Threads /\ LaunchMask(w) \subseteq LanesOf(w)
  /\ \A w \in Warps : \A l \in LaunchMask(w) : WarpOf(l) = w
  /\ \A w \in Warps : LaunchMask(w) # {} => Thread0(w) \in LaunchMask(w)
<1>1. \A w \in Warps : \A l \in LaunchMask(w) : l \in Lanes /\ WarpOf(l) = w /\ l \in LanesOf(w)
  BY DEF LaunchMask, LanesOf
<1>2. ASSUME NEW w \in Warps, NEW l \in LaunchMask(w) PROVE Thread0(w) \in LaunchMask(w)
  <2>1. Thread0(w) \in Lanes /\ WarpOf(Thread0(w)) = w
    BY WarpsOfLanes
  <2>2. l \in Nat /\ l \div THREADS_PER_BLOCK = w /\ l < BLOCK_DIM /\ THREADS_PER_BLOCK \in Nat \ {0} /\ w \in Nat
    BY <1>1, <1>2, WarpsOfLanes, Sizes DEF WarpOf, LaunchMask, Warps
  <2>3. w * THREADS_PER_BLOCK <= l
    <3>1. \A t \in Nat \ {0} : \A m \in Nat : (m \div t) * t <= m
      OBVIOUS
    <3> QED BY <2>2, <3>1
  <2>4. Thread0(w) < BLOCK_DIM
    <3>1. BLOCK_DIM \in Nat /\ Thread0(w) \in Nat
      <4>1. BLOCK_DIM \in 0 .. WordSize - 1
        BY Sizes DEF Word
      <4> QED BY <2>1, <4>1, WarpsOfLanes
    <3> QED BY <2>2, <2>3, <3>1 DEF Thread0
  <2> QED BY <2>1, <2>4 DEF LaunchMask, LanesOf
<1> QED BY <1>1, <1>2, WarpsOfLanes DEF Threads

\* The instructions of the program.
LEMMA ProgramTyped ==
  ASSUME Typed
  PROVE  /\ rom \in Programs /\ instruction \in Instr
         /\ instruction.op = "BR" => instruction.imm \in Pc
         /\ instruction.op \in Identity =>
              (instruction.op = "BID" <=> instruction.rs = 2) /\ (instruction.op = "BDIM" <=> instruction.rs = 3)
         /\ \A p \in Pc : rom[p] \in Instr /\ (rom[p].op = "BR" => rom[p].imm \in Pc)
BY CoreAssumption DEF Typed, FrontTyped

\* The current warp of EXECUTE or UPDATE, and its awake threads.
LEMMA StepsFacts ==
  ASSUME IInv, CurrentLive, NEW d \in [Threads -> Thread], Sim(d), NEW l \in Threads, Steps(l)
  PROVE  /\ ~d[l].halted /\ rom[d[l].pc] = instruction
         /\ l \in LanesOf(current_warp) /\ WarpActive(l) /\ current_warp \in Warps
         /\ l \in active_mask[current_warp] /\ l \in LaunchMask(current_warp)
         /\ core_state = "EXECUTE" => d[l].pc = warp_pc[current_warp]
<1>1. /\ current_warp \in Warps /\ l \in active_mask[current_warp] /\ core_state \in {"EXECUTE", "UPDATE"}
      /\ warp_status[current_warp] = "READY" /\ active_mask[current_warp] \subseteq LanesOf(current_warp)
  BY DEF IInv, Typed, SchedTyped, WarpsTyped, Steps, Awake, CurrentLive
<1>2. l \in LanesOf(current_warp) /\ WarpActive(l)
  BY <1>1 DEF LanesOf, WarpActive
<1>3. /\ l \in LaunchMask(current_warp)
      /\ WarpSim(d, current_warp)
  BY <1>1 DEF Sim, WarpSim
<1>4. ~d[l].halted
  BY <1>1, <1>3 DEF WarpSim
<1>5. CASE core_state = "UPDATE"
  BY <1>1, <1>2, <1>3, <1>4, <1>5 DEF Sim, UpdateSim, Pending, Steps
<1>6. CASE core_state = "EXECUTE"
  <2>1. ~Retired(current_warp)
    BY <1>1, <1>6 DEF Retired
  <2>2. InStep(d, current_warp)
    BY <1>3, <2>1 DEF WarpSim
  <2>3. At(d, l) = warp_pc[current_warp]
    BY <1>1, <1>3, <2>2 DEF InStep, Together, Parted, InBody
  <2>4. d[l].pc = warp_pc[current_warp]
    BY <1>6, <2>3 DEF At, Pending
  <2>5. instruction = rom[warp_pc[current_warp]]
    BY <1>6 DEF IInv, Pipeline, Latched
  <2> QED BY <1>1, <1>2, <1>3, <1>4, <2>4, <2>5
<1> QED BY <1>1, <1>5, <1>6

\* Each thread goes on along its run.
LEMMA RunsStep ==
  ASSUME IInv, CurrentLive, Kernels, NEW d \in [Threads -> Thread], Sim(d), Next, NEW e, e = Moved(d)
  PROVE  e \in [Threads -> Thread] /\ Runs(e)'
<1>1. rom' = rom /\ rom \in Programs
  BY EveryStep, ProgramTyped DEF DataPath, FetchAndDecode, IInv
<1>2. ASSUME NEW l \in Threads
      PROVE  OnRun(rom, l, e[l]) /\ e[l] \in Thread
  <2>1. OnRun(rom, l, d[l]) /\ d[l] \in Thread /\ l \in Lanes
    BY ThreadsAre DEF Sim, Runs
  <2>2. CASE Steps(l)
    <3>1. e[l] = After(d[l], rom[d[l].pc]) /\ ~d[l].halted
      BY <2>2, StepsFacts DEF Moved
    <3>2. Ref!Run(l, rom, LoadedData, Fuel).halted
      BY <1>1 DEF Kernels, Ends
    <3>3. OnRun(rom, l, e[l])
      BY <2>1, <3>1, <3>2, RunGoesOn
    <3> QED BY <1>1, <2>1, <3>3, RunFacts
  <2>3. CASE ~Steps(l)
    BY <2>1, <2>3 DEF Moved
  <2> QED BY <2>2, <2>3
<1>3. e \in [Threads -> Thread]
  <2>1. e = [l \in Threads |-> e[l]]
    BY DEF Moved
  <2> QED BY <1>2, <2>1
<1> QED BY <1>1, <1>2, <1>3 DEF Runs

-----------------------------------------------------------------------------
(* 4. The registers.                                                         *)

\* decoder.sv: the operations that raise the strobes of the register file.
LEMMA WriteStrobes ==
  ASSUME NEW op \in Ops
  PROVE  /\ "reg_write" \in Strobes[op] <=> op \in Arithmetic \cup Identity \cup {"LDR"}
         /\ "id_read" \in Strobes[op] <=> op \in Identity
         /\ "lui" \in Strobes[op] <=> op = "LUI"
         /\ "from_memory" \in Strobes[op] <=> op = "LDR"
         /\ "nzp_write" \in Strobes[op] <=> op = "CMP"
         /\ "base_add" \in Strobes[op] <=> op = "ADDB"
         /\ "wbase_add" \in Strobes[op] <=> op = "WBASE"
<1>1. op \in {"MOV", "LUI", "ADD", "ADDI", "SUB", "MUL", "SHR", "SHL", "TID", "BID", "BDIM",
               "CMP", "LDR", "STR", "ADDB", "WBASE", "BR", "SYNC", "RET"}
  BY DEF Ops, Arithmetic, Identity
<1>2. QED
  BY <1>1 DEF Strobes, Ops, Arithmetic, Identity

\* What the decoder holds in UPDATE.
LEMMA UpdateControl ==
  ASSUME IInv, core_state \in {"EXECUTE", "UPDATE"}
  PROVE  LET i == instruction
         IN /\ decoded = Control(i) /\ i \in Instr /\ i.op \in Ops
            /\ decoded.rd = i.rd /\ decoded.rs = i.rs /\ decoded.rt = i.rt /\ decoded.imm = i.imm
            /\ decoded.nzp = i.nzp
            /\ Decoded("reg_write") <=> i.op \in Arithmetic \cup Identity \cup {"LDR"}
            /\ Decoded("id_read") <=> i.op \in Identity
            /\ Decoded("lui") <=> i.op = "LUI"
            /\ Decoded("from_memory") <=> i.op = "LDR"
            /\ Decoded("nzp_write") <=> i.op = "CMP"
            /\ Decoded("base_add") <=> i.op = "ADDB"
            /\ Decoded("wbase_add") <=> i.op = "WBASE"
            /\ Decoded("pc_mux") <=> i.op = "BR"
            /\ Decoded("sync") <=> i.op = "SYNC"
            /\ Decoded("ret") <=> i.op = "RET"
            /\ Decoded("mem_read") <=> i.op = "LDR"
            /\ MemOp <=> i.op \in {"LDR", "STR"}
<1>1. decoded = Control(instruction) /\ instruction \in Instr
  BY ProgramTyped DEF IInv, Pipeline, Latched
<1>2. PICK op \in Ops : op = instruction.op
  BY <1>1 DEF Instr
<1>3. /\ decoded.strobes = Strobes[op] /\ decoded.imm = instruction.imm /\ decoded.nzp = instruction.nzp
      /\ decoded.rd = instruction.rd /\ decoded.rs = instruction.rs /\ decoded.rt = instruction.rt
  BY <1>1, <1>2 DEF Control
<1>4. QED
  BY <1>1, <1>2, <1>3, StrobesOf, WriteStrobes DEF Decoded, MemOp

\* registers.sv: the read ports hold the operands while the instruction is at work.
LEMMA PortsStep ==
  ASSUME Typed, PortsRead, Next
  PROVE  PortsRead'
<1> SUFFICES ASSUME core_state' \in {"WAIT", "EXECUTE", "UPDATE"}, NEW l \in Lanes
             PROVE  rs'[l] = registers'[l][decoded'.rs] /\ rt'[l] = registers'[l][decoded'.rt]
  BY DEF PortsRead
<1>1. core_state \in {"REQUEST", "WAIT", "EXECUTE"}
  BY DEF Next, Idle, SelectWarp, Fetch, Decode, Request, Stall, Park, Proceed, Execute, Update,
         Finished, GoTo
<1>2. decoded' = decoded /\ registers' = registers
  BY <1>1, EveryStep DEF DataPath, FetchAndDecode, RegisterFile
<1>3. CASE core_state = "REQUEST"
  BY <1>2, <1>3, EveryStep DEF DataPath, RegisterFile
<1>4. CASE core_state # "REQUEST"
  BY <1>1, <1>2, <1>4, EveryStep DEF DataPath, RegisterFile, PortsRead
<1> QED BY <1>3, <1>4

\* alu.sv: what it puts out is what the ISA says of its operands.
LEMMA AluIsValue ==
  ASSUME IInv, core_state = "UPDATE", NEW t \in Thread, NEW l \in Lanes,
         rs[l] = t.regs[instruction.rs], rt[l] = t.regs[instruction.rt],
         instruction.op \in Arithmetic \ {"LUI"}
  PROVE  AluOut(l) = Result(t, instruction)
<1> DEFINE i == instruction
           s == t.regs[i.rs]
           b == t.regs[i.rt]
<1>1. i \in Instr /\ decoded.imm = i.imm /\ s \in Word /\ b \in Word /\ i.imm \in Nat
  BY UpdateControl, Places DEF Instr
<1>2. i.op \in {"MOV", "ADD", "ADDI", "SUB", "MUL", "SHR", "SHL"}
  BY DEF Arithmetic
<1>3. s \in Nat /\ b \in Nat /\ s < WordSize /\ WordSize \in Nat \ {0}
  BY <1>1, Sizes DEF Word
<1> HIDE DEF s, b
<1>4. PICK k \in Nat \ {0} : k = 2^(b % 16) /\ k = Power(b % 16)
  <2>1. b % 16 \in 0 .. 15
    BY <1>3
  <2> QED BY <2>1, PowerPositive, Shifts
<1>5. (s \div k) % WordSize = s \div k
  <2>1. s \div k \in 0 .. s
    BY <1>3, DivRange
  <2>2. \A n \in 0 .. s : n % WordSize = n
    BY <1>3
  <2> QED BY <2>1, <2>2
<1>6. Ref!Product(s, b) % WordSize = (s * b) % WordSize
  <2>1. Ref!Product(s, b) = (s * b) % WordSize /\ (s * b) \in Int
    BY <1>3, Products
  <2>2. \A n \in Int : (n % WordSize) % WordSize = n % WordSize
    BY <1>3
  <2> HIDE DEF s, b
  <2> QED BY <2>1, <2>2
<1>7. Result(t, i) = Ref!Value(t, i, s, b) % WordSize
  BY DEF Result, s, b
<1>8. rs[l] = s /\ rt[l] = b
  BY DEF s, b
<1> HIDE DEF i
<1>9. CASE i.op = "MUL"
  BY <1>6, <1>7, <1>8, <1>9 DEF AluOut, Ref!Value, i
<1>10. CASE i.op = "SHR"
  BY <1>4, <1>5, <1>7, <1>8, <1>10 DEF AluOut, Ref!Value, i
<1>11. CASE i.op = "SHL"
  BY <1>4, <1>7, <1>8, <1>11 DEF AluOut, Ref!Value, i
<1>12. CASE i.op \in {"MOV", "ADD", "ADDI", "SUB"}
  BY <1>1, <1>7, <1>8, <1>12 DEF AluOut, Ref!Value, i
<1> QED BY <1>2, <1>9, <1>10, <1>11, <1>12 DEF i

\* registers.sv: what the write port writes is what the ISA says.
LEMMA WrittenIsResult ==
  ASSUME IInv, core_state = "UPDATE", NEW l \in Lanes, NEW t \in Thread, t.tid = l,
         rs[l] = t.regs[instruction.rs], rt[l] = t.regs[instruction.rt],
         instruction.op \in Arithmetic \cup Identity
  PROVE  (CASE Decoded("id_read")     -> IdentityOf(l)
            [] Decoded("lui")         -> (rs[l] * ImmSize + (decoded.imm % ImmSize)) % WordSize
            [] Decoded("from_memory") -> lsu[l].out
            [] OTHER                  -> AluOut(l))
         = Result(t, instruction)
<1> DEFINE i == instruction
<1>1. /\ decoded.imm = i.imm /\ decoded.rs = i.rs /\ i \in Instr
      /\ Decoded("id_read") <=> i.op \in Identity
      /\ Decoded("lui") <=> i.op = "LUI"
      /\ Decoded("from_memory") <=> i.op = "LDR"
  BY UpdateControl
<1>2. i.op \in {"MOV", "LUI", "ADD", "ADDI", "SUB", "MUL", "SHR", "SHL", "TID", "BID", "BDIM"}
  BY DEF Arithmetic, Identity
<1>3. CASE i.op \in Identity
  <2>1. /\ i.op \in {"TID", "BID", "BDIM"}
        /\ (i.op = "BID" <=> i.rs = 2) /\ (i.op = "BDIM" <=> i.rs = 3)
    BY <1>3, ProgramTyped DEF Identity, IInv
  <2>2. \A n \in Word : n % WordSize = n
    BY Sizes DEF Word
  <2>3. l \in Word /\ BlockId \in Word /\ BLOCK_DIM \in Word
    BY Sizes
  <2>4. Result(t, i) = (IF i.op = "BID" THEN BlockId ELSE IF i.op = "BDIM" THEN BLOCK_DIM ELSE l) % WordSize
    BY <2>1 DEF Result, Ref!Value
  <2>5. IdentityOf(l) = IF i.op = "BID" THEN BlockId ELSE IF i.op = "BDIM" THEN BLOCK_DIM ELSE l
    BY <1>1, <2>1 DEF IdentityOf
  <2>6. Result(t, i) = IdentityOf(l)
    BY <2>2, <2>3, <2>4, <2>5
  <2>7. Decoded("id_read") /\ ~Decoded("lui") /\ ~Decoded("from_memory")
    BY <1>1, <2>1, <1>3
  <2> QED BY <2>6, <2>7
<1>4. CASE i.op = "LUI"
  <2>1. Result(t, i) = (t.regs[i.rs] * ImmSize + (i.imm % ImmSize)) % WordSize
    BY <1>4 DEF Result, Ref!Value
  <2>2. ~Decoded("id_read") /\ Decoded("lui")
    BY <1>1, <1>4 DEF Identity
  <2> QED BY <1>1, <2>1, <2>2
<1>5. CASE i.op \in Arithmetic \ {"LUI"}
  <2>1. AluOut(l) = Result(t, i)
    BY <1>5, AluIsValue
  <2>2. ~Decoded("id_read") /\ ~Decoded("lui") /\ ~Decoded("from_memory")
    BY <1>1, <1>5 DEF Identity, Arithmetic
  <2> QED BY <2>1, <2>2
<1> QED BY <1>2, <1>3, <1>4, <1>5 DEF Arithmetic, Identity

\* The low bits of the three verdicts of a comparison.
LEMMA VerdictBits == LowBits(4) = {2} /\ LowBits(2) = {1} /\ LowBits(1) = {0}
<1>1. 2^0 = 1 /\ 2^1 = 2 /\ 2^2 = 4
  BY Shifts DEF Power
<1>2. \A v \in Nat : \A b \in 0 .. 2 : b \in LowBits(v) <=> ((v \div 2^b) % 2) = 1
  BY DEF LowBits
<1>3. \A v \in Nat : LowBits(v) \subseteq 0 .. 2
  BY DEF LowBits
<1>4. \A v \in Nat : /\ 0 \in LowBits(v) <=> ((v \div 1) % 2) = 1
                     /\ 1 \in LowBits(v) <=> ((v \div 2) % 2) = 1
                     /\ 2 \in LowBits(v) <=> ((v \div 4) % 2) = 1
  <2>1. 0 \in 0 .. 2 /\ 1 \in 0 .. 2 /\ 2 \in 0 .. 2
    OBVIOUS
  <2> QED BY <1>1, <1>2, <2>1, Zenon
<1>5. 0 \in LowBits(1) /\ 1 \notin LowBits(1) /\ 2 \notin LowBits(1)
  BY <1>4
<1>6. 0 \notin LowBits(2) /\ 1 \in LowBits(2) /\ 2 \notin LowBits(2)
  BY <1>4
<1>7. 0 \notin LowBits(4) /\ 1 \notin LowBits(4) /\ 2 \in LowBits(4)
  BY <1>4
<1>8. LowBits(1) \subseteq 0 .. 2 /\ LowBits(2) \subseteq 0 .. 2 /\ LowBits(4) \subseteq 0 .. 2
  BY <1>3
<1> QED BY <1>5, <1>6, <1>7, <1>8

\* pc.sv: the flags that a comparison leaves.
LEMMA FlagIsCompared ==
  ASSUME IInv, core_state = "UPDATE", NEW l \in Lanes, NEW t \in Thread,
         rs[l] = t.regs[instruction.rs], rt[l] = t.regs[instruction.rt], instruction.op = "CMP"
  PROVE  LowBits(AluOut(l)) = {Ref!FlagBit[Compared(t, instruction)]} /\ Compared(t, instruction) # "none"
<1>1. AluOut(l) = IF rs[l] < rt[l] THEN 4 ELSE IF rs[l] = rt[l] THEN 2 ELSE 1
  BY DEF AluOut
<1>2. Ref!FlagBit["N"] = 2 /\ Ref!FlagBit["Z"] = 1 /\ Ref!FlagBit["P"] = 0
  BY DEF Ref!FlagBit
<1> QED BY <1>1, <1>2, VerdictBits DEF Compared

\* What a cycle leaves alone of a lane's registers.
LEMMA LaneQuiet ==
  ASSUME IInv, Next, NEW l \in Lanes, core_state # "UPDATE" \/ ~WarpActive(l)
  PROVE  registers'[l] = registers[l] /\ nzp'[l] = nzp[l] /\ base'[l] = base[l] /\ wbase'[l] = wbase[l]
<1>1. RegisterFile /\ Flags /\ BasePointers
  BY EveryStep DEF DataPath
<1>2. Awake(l) => WarpActive(l)
  BY AwakeIsActive DEF IInv
<1>3. /\ nzp \in [Lanes -> Bits3] /\ base \in [Lanes -> Addr] /\ wbase \in [Lanes -> Addr]
  BY DEF IInv, Typed, GridTyped
<1>4. registers'[l] = registers[l]
  BY <1>1, <1>2 DEF RegisterFile
<1>5. nzp'[l] = nzp[l]
  BY <1>1, <1>3 DEF Flags
<1>6. base'[l] = base[l] /\ wbase'[l] = wbase[l]
  BY <1>1, <1>3 DEF BasePointers
<1> QED BY <1>4, <1>5, <1>6

\* UPDATE, in a lane of the current warp.
LEMMA LaneUpdates ==
  ASSUME IInv, Next, core_state = "UPDATE", NEW l \in Lanes, WarpActive(l)
  PROVE  /\ nzp'[l] = IF instruction.op = "CMP" THEN LowBits(AluOut(l)) ELSE nzp[l]
         /\ base'[l] = IF instruction.op = "ADDB" THEN (base[l] + instruction.imm) % AddrSize ELSE base[l]
         /\ wbase'[l] = IF instruction.op = "WBASE" THEN (wbase[l] + instruction.imm) % AddrSize ELSE wbase[l]
         /\ ~Awake(l) \/ instruction.op \notin Arithmetic \cup Identity \cup {"LDR"} =>
              registers'[l] = registers[l]
         /\ Awake(l) /\ instruction.op \in Arithmetic \cup Identity \cup {"LDR"} =>
              registers'[l] = [registers[l] EXCEPT ![instruction.rd] =
                                 CASE Decoded("id_read")     -> IdentityOf(l)
                                   [] Decoded("lui")         -> (rs[l] * ImmSize + (decoded.imm % ImmSize)) % WordSize
                                   [] Decoded("from_memory") -> lsu[l].out
                                   [] OTHER                  -> AluOut(l)]
<1>1. RegisterFile /\ Flags /\ BasePointers
  BY EveryStep DEF DataPath
<1>2. /\ decoded.rd = instruction.rd /\ decoded.imm = instruction.imm
      /\ Decoded("reg_write") <=> instruction.op \in Arithmetic \cup Identity \cup {"LDR"}
      /\ Decoded("nzp_write") <=> instruction.op = "CMP"
      /\ Decoded("base_add") <=> instruction.op = "ADDB"
      /\ Decoded("wbase_add") <=> instruction.op = "WBASE"
  BY UpdateControl
<1>3. /\ nzp \in [Lanes -> Bits3] /\ base \in [Lanes -> Addr] /\ wbase \in [Lanes -> Addr]
  BY DEF IInv, Typed, GridTyped
<1>4. nzp'[l] = IF instruction.op = "CMP" THEN LowBits(AluOut(l)) ELSE nzp[l]
  BY <1>1, <1>2 DEF Flags
<1>5. /\ base'[l] = IF instruction.op = "ADDB" THEN (base[l] + instruction.imm) % AddrSize ELSE base[l]
      /\ wbase'[l] = IF instruction.op = "WBASE" THEN (wbase[l] + instruction.imm) % AddrSize ELSE wbase[l]
  BY <1>1, <1>2 DEF BasePointers
<1> DEFINE V == CASE Decoded("id_read")     -> IdentityOf(l)
                  [] Decoded("lui")         -> (rs[l] * ImmSize + (decoded.imm % ImmSize)) % WordSize
                  [] Decoded("from_memory") -> lsu[l].out
                  [] OTHER                  -> AluOut(l)
<1>6. registers'[l] = IF Decoded("reg_write") /\ Awake(l) THEN [registers[l] EXCEPT ![decoded.rd] = V] ELSE registers[l]
  BY <1>1 DEF RegisterFile
<1> HIDE DEF V
<1>7. /\ ~Awake(l) \/ instruction.op \notin Arithmetic \cup Identity \cup {"LDR"} => registers'[l] = registers[l]
      /\ Awake(l) /\ instruction.op \in Arithmetic \cup Identity \cup {"LDR"} =>
           registers'[l] = [registers[l] EXCEPT ![instruction.rd] = V]
  BY <1>2, <1>6
<1> QED BY <1>4, <1>5, <1>7 DEF V

\* A thread whose instruction is in UPDATE.
LEMMA ThreadUpdates ==
  ASSUME IInv, CurrentLive, PortsRead, NEW d \in [Threads -> Thread], Sim(d), Next, NEW l \in Threads,
         core_state = "UPDATE", Steps(l), NEW t, t = After(d[l], instruction)
  PROVE  /\ registers'[l] = t.regs /\ base'[l] = t.base /\ wbase'[l] = t.wbase
         /\ instruction.op = "CMP" => nzp'[l] = {Ref!FlagBit[t.flag]} /\ t.flag # "none"
<1> DEFINE i == instruction
           u == d[l]
<1>1. /\ l \in Lanes /\ WarpActive(l) /\ Awake(l) /\ u \in Thread /\ i \in Instr
      /\ ~u.halted /\ rom[u.pc] = i /\ l \in LanesOf(current_warp)
  BY StepsFacts, ThreadsAre, ProgramTyped DEF Steps, IInv
<1>2. u.tid = l
  BY <1>1, RunFacts, ProgramTyped DEF Sim, Runs, IInv
<1>3. registers[l] = u.regs /\ base[l] = u.base /\ wbase[l] = u.wbase
  BY DEF Sim, RegsSim
<1>4. rs[l] = u.regs[i.rs] /\ rt[l] = u.regs[i.rt]
  BY <1>1, <1>3, UpdateControl DEF PortsRead
<1>5. /\ nzp'[l] = IF i.op = "CMP" THEN LowBits(AluOut(l)) ELSE nzp[l]
      /\ base'[l] = IF i.op = "ADDB" THEN (base[l] + i.imm) % AddrSize ELSE base[l]
      /\ wbase'[l] = IF i.op = "WBASE" THEN (wbase[l] + i.imm) % AddrSize ELSE wbase[l]
      /\ i.op \notin Arithmetic \cup Identity \cup {"LDR"} => registers'[l] = registers[l]
  BY <1>1, LaneUpdates
<1>6. CASE i.op \in Arithmetic \cup Identity
  <2>1. registers'[l] = [registers[l] EXCEPT ![i.rd] = Result(u, i)]
    <3> DEFINE V == CASE Decoded("id_read")     -> IdentityOf(l)
                      [] Decoded("lui")         -> (rs[l] * ImmSize + (decoded.imm % ImmSize)) % WordSize
                      [] Decoded("from_memory") -> lsu[l].out
                      [] OTHER                  -> AluOut(l)
    <3>1. registers'[l] = [registers[l] EXCEPT ![i.rd] = V]
      BY <1>1, <1>6, LaneUpdates
    <3>2. V = Result(u, i)
      BY <1>1, <1>2, <1>4, <1>6, WrittenIsResult
    <3> HIDE DEF V
    <3> QED BY <3>1, <3>2
  <2>2. i.op \notin {"CMP", "ADDB", "WBASE"}
    BY <1>6 DEF Arithmetic, Identity
  <2>3. t = [u EXCEPT !.regs = [u.regs EXCEPT ![i.rd] = Result(u, i)], !.pc = Beyond(u)]
    BY <1>1, <1>6, AfterComputing
  <2>4. /\ t.regs = [u.regs EXCEPT ![i.rd] = Result(u, i)]
        /\ t.base = u.base /\ t.wbase = u.wbase /\ t.flag = u.flag
    <3> HIDE DEF u, i
    <3> QED BY <1>1, <2>3 DEF Thread
  <2>9. instruction.op # "CMP"
    BY <2>2
  <2> HIDE DEF u, i
  <2> QED BY <2>9, <1>3, <1>5, <2>1, <2>2, <2>4
<1>7. CASE i.op = "LDR"
  <2>1. /\ Decoded("from_memory") /\ ~Decoded("id_read") /\ ~Decoded("lui") /\ MemOp
    BY <1>7, UpdateControl DEF Identity
  <2>2. registers'[l] = [registers[l] EXCEPT ![i.rd] = lsu[l].out]
    <3>1. registers'[l] = [registers[l] EXCEPT ![i.rd] =
                                 CASE Decoded("id_read")     -> IdentityOf(l)
                                   [] Decoded("lui")         -> (rs[l] * ImmSize + (decoded.imm % ImmSize)) % WordSize
                                   [] Decoded("from_memory") -> lsu[l].out
                                   [] OTHER                  -> AluOut(l)]
      BY <1>1, <1>7, LaneUpdates
    <3> QED BY <2>1, <3>1
  <2>3. lsu[l].state = "DONE"
    BY <1>1, <2>1 DEF IInv, Pipeline, AccessesComplete
  <2>4. Serves(l, u)
    BY <2>3 DEF Sim, LsuSim
  <2>5. lsu[l].out = u.mem[From(u, i)]
    BY <1>1, <1>7, <2>3, <2>4 DEF Serves
  <2>6. u.mem[From(u, i)] % WordSize = u.mem[From(u, i)]
    <3>1. u.mem[From(u, i)] \in Word
      BY <1>1, Places, Sizes DEF Thread
    <3>2. \A n \in Word : n % WordSize = n
      BY Sizes DEF Word
    <3> QED BY <3>1, <3>2
  <2>7. t = [u EXCEPT !.regs = [u.regs EXCEPT ![i.rd] = u.mem[From(u, i)] % WordSize],
                      !.pc = Beyond(u), !.read = u.read \cup {From(u, i)}]
    BY <1>1, <1>7, AfterLoad
  <2>8. /\ t.regs = [u.regs EXCEPT ![i.rd] = u.mem[From(u, i)] % WordSize]
        /\ t.base = u.base /\ t.wbase = u.wbase /\ t.flag = u.flag
    <3> HIDE DEF u, i
    <3> QED BY <1>1, <2>7 DEF Thread
  <2>9. instruction.op # "CMP"
    BY <1>7
  <2> HIDE DEF u, i
  <2> QED BY <2>9, <1>3, <1>5, <1>7, <2>2, <2>5, <2>6, <2>8
<1>8. CASE i.op = "CMP"
  <2>1. nzp'[l] = {Ref!FlagBit[Compared(u, i)]} /\ Compared(u, i) # "none"
    BY <1>1, <1>4, <1>5, <1>8, FlagIsCompared
  <2>2. t = [u EXCEPT !.pc = Beyond(u), !.flag = Compared(u, i)]
    BY <1>1, <1>8, AfterCompare
  <2>3. /\ t.flag = Compared(u, i)
        /\ t.base = u.base /\ t.wbase = u.wbase /\ t.regs = u.regs
    <3> HIDE DEF u, i
    <3> QED BY <1>1, <2>2 DEF Thread
  <2>4. registers'[l] = registers[l] /\ base'[l] = base[l] /\ wbase'[l] = wbase[l]
    BY <1>5, <1>8 DEF Arithmetic, Identity
  <2> QED BY <1>3, <2>1, <2>3, <2>4
<1>9. CASE i.op \notin Arithmetic \cup Identity \cup {"LDR", "CMP"}
  <2>1. t.regs = u.regs /\ t.flag = u.flag
    BY <1>1, <1>9, AfterKeeps
  <2>2. t.base = IF i.op = "ADDB" THEN (u.base + i.imm) % AddrSize ELSE u.base
    <3>1. CASE i.op = "ADDB"
      <4>1. t = [u EXCEPT !.pc = Beyond(u), !.base = (u.base + i.imm) % AddrSize]
        BY <1>1, <3>1, AfterBase
      <4> HIDE DEF u, i
      <4> QED BY <1>1, <3>1, <4>1 DEF Thread
    <3>2. CASE i.op # "ADDB"
      BY <1>1, <3>2, AfterKeeps
    <3> QED BY <3>1, <3>2
  <2>3. t.wbase = IF i.op = "WBASE" THEN (u.wbase + i.imm) % AddrSize ELSE u.wbase
    <3>1. CASE i.op = "WBASE"
      <4>1. t = [u EXCEPT !.pc = Beyond(u), !.wbase = (u.wbase + i.imm) % AddrSize]
        BY <1>1, <3>1, AfterWbase
      <4> HIDE DEF u, i
      <4> QED BY <1>1, <3>1, <4>1 DEF Thread
    <3>2. CASE i.op # "WBASE"
      BY <1>1, <3>2, AfterKeeps
    <3> QED BY <3>1, <3>2
  <2>9. instruction.op # "CMP"
    BY <1>9
  <2> HIDE DEF u, i
  <2> QED BY <2>9, <1>3, <1>5, <1>9, <2>1, <2>2, <2>3
<1> QED BY <1>6, <1>7, <1>8, <1>9

\* registers.sv and lsu.sv hold what the thread has.
LEMMA RegsStep ==
  ASSUME IInv, CurrentLive, PortsRead, NEW d \in [Threads -> Thread], Sim(d), Next, NEW e, e = Moved(d)
  PROVE  RegsSim(e)'
<1> SUFFICES ASSUME NEW l \in Threads
             PROVE  registers'[l] = e[l].regs /\ base'[l] = e[l].base /\ wbase'[l] = e[l].wbase
  BY DEF RegsSim
<1>1. /\ registers[l] = d[l].regs /\ base[l] = d[l].base /\ wbase[l] = d[l].wbase
      /\ l \in Lanes /\ d[l] \in Thread /\ instruction \in Instr
  BY ThreadsAre, ProgramTyped DEF Sim, RegsSim, IInv
<1>2. CASE Steps(l) /\ core_state = "UPDATE"
  <2>1. e[l] = After(d[l], instruction)
    BY <1>2 DEF Moved
  <2> QED BY <1>2, <2>1, ThreadUpdates
<1>3. CASE Steps(l) /\ core_state # "UPDATE"
  <2>1. e[l] = After(d[l], instruction) /\ instruction.op \in {"BR", "SYNC"}
    BY <1>3 DEF Moved, Steps, Moving
  <2>2. /\ e[l].regs = d[l].regs /\ e[l].base = d[l].base /\ e[l].wbase = d[l].wbase
    BY <1>1, <2>1, AfterKeeps DEF Arithmetic, Identity
  <2>3. registers'[l] = registers[l] /\ base'[l] = base[l] /\ wbase'[l] = wbase[l]
    BY <1>1, <1>3, LaneQuiet
  <2> QED BY <1>1, <2>2, <2>3
<1>4. CASE ~Steps(l)
  <2>1. e[l] = d[l]
    BY <1>4 DEF Moved
  <2>2. CASE core_state = "UPDATE" /\ WarpActive(l)
    <3>1. ~Awake(l) \/ instruction.op \in {"BR", "SYNC"}
      BY <1>4, <2>2 DEF Steps, Moving
    <3>2. instruction.op \notin {"ADDB", "WBASE"}
      <4>1. l \in LaunchMask(current_warp)
        BY <2>2, ThreadsAre DEF WarpActive
      <4> QED BY <2>2, <3>1, <4>1 DEF Sim, UpdateSim, Awake
    <3>3. registers'[l] = registers[l]
      BY <1>1, <2>2, <3>1, LaneUpdates DEF Arithmetic, Identity
    <3>4. base'[l] = base[l] /\ wbase'[l] = wbase[l]
      BY <1>1, <2>2, <3>2, LaneUpdates
    <3> QED BY <1>1, <2>1, <3>3, <3>4
  <2>3. CASE ~(core_state = "UPDATE" /\ WarpActive(l))
    <3>1. registers'[l] = registers[l] /\ base'[l] = base[l] /\ wbase'[l] = wbase[l]
      BY <1>1, <2>3, LaneQuiet
    <3> QED BY <1>1, <2>1, <3>1
  <2> QED BY <2>2, <2>3
<1> QED BY <1>2, <1>3, <1>4

-----------------------------------------------------------------------------
(* 5. The LSUs.                                                              *)

\* A lane issues in the scheduler's WAIT, for the current warp.
LEMMA IssuingLane ==
  ASSUME IInv, NEW l \in Lanes, lsu[l].state = "ISSUE"
  PROVE  core_state = "WAIT" /\ Awake(l) /\ WarpActive(l) /\ l \in LanesOf(current_warp)
<1> DEFINE w == WarpOf(l)
<1>1. w \in Warps /\ l \in LanesOf(w)
  BY WarpsOfLanes DEF LanesOf
<1> HIDE DEF w
<1>2. warp_status[w] # "WAITING"
  BY <1>1 DEF IInv, Pipeline, Parked, Accessing
<1>3. ~Elsewhere(w)
  BY <1>1, <1>2 DEF IInv, Pipeline, Rested, AllIdle, Accessing
<1>4. current_warp = w /\ core_state \in {"WAIT", "EXECUTE", "UPDATE"}
  BY <1>3 DEF Elsewhere, Away, IInv, Typed, SchedTyped
<1>5. core_state = "WAIT"
  BY <1>1, <1>4 DEF IInv, Pipeline, AccessesComplete
<1>6. Awake(l)
  BY <1>1, <1>4, <1>5 DEF IInv, Pipeline, InWait, Accessing, Awake
<1> QED BY <1>1, <1>4, <1>5, <1>6 DEF WarpActive, w

\* The awake threads of the current warp stand at its PC.
LEMMA AwakeStand ==
  ASSUME IInv, CurrentLive, NEW d \in [Threads -> Thread], Sim(d), NEW l \in Lanes, Awake(l),
         core_state \in {"FETCH", "DECODE", "REQUEST", "WAIT", "EXECUTE"}
  PROVE  /\ l \in Threads /\ l \in LaunchMask(current_warp) /\ d[l].pc = warp_pc[current_warp] /\ ~d[l].halted
         /\ ~Retired(current_warp)
<1>1. /\ current_warp \in Warps /\ l \in active_mask[current_warp]
      /\ warp_status[current_warp] = "READY" /\ core_state # "UPDATE"
  BY DEF IInv, Typed, SchedTyped, Awake, CurrentLive
<1>2. WarpSim(d, current_warp) /\ ~Retired(current_warp)
  BY <1>1 DEF Sim, Retired
<1>3. l \in LaunchMask(current_warp) /\ l \in Threads
  BY <1>1, <1>2, ThreadsAre DEF WarpSim
<1>4. InStep(d, current_warp) /\ ~d[l].halted
  BY <1>1, <1>2, <1>3 DEF WarpSim
<1>5. At(d, l) = warp_pc[current_warp]
  BY <1>1, <1>3, <1>4 DEF InStep, Together, Parted, InBody
<1> QED BY <1>1, <1>2, <1>3, <1>4, <1>5 DEF At, Pending

\* The instruction in REQUEST, WAIT and EXECUTE.
LEMMA CurrentControl ==
  ASSUME IInv, core_state \in {"REQUEST", "WAIT", "EXECUTE"}
  PROVE  LET i == rom[warp_pc[current_warp]]
         IN /\ i = instruction /\ i \in Instr
            /\ decoded.rs = i.rs /\ decoded.rt = i.rt
            /\ Decoded("mem_read") <=> i.op = "LDR"
            /\ MemOp <=> i.op \in {"LDR", "STR"}
<1>1. instruction = rom[warp_pc[current_warp]] /\ decoded = Control(instruction) /\ instruction \in Instr
  BY ProgramTyped DEF IInv, Pipeline, Latched
<1>2. PICK op \in Ops : op = instruction.op
  BY <1>1 DEF Instr
<1>3. decoded.strobes = Strobes[op] /\ decoded.rs = instruction.rs /\ decoded.rt = instruction.rt
  BY <1>1, <1>2 DEF Control
<1> QED BY <1>1, <1>2, <1>3, StrobesOf DEF Decoded, MemOp

\* A thread that steps has an LSU at rest, which is idle again afterwards.
LEMMA StepsRest ==
  ASSUME IInv, CurrentLive, NEW d \in [Threads -> Thread], Sim(d), Next, NEW l \in Threads, Steps(l)
  PROVE  /\ lsu[l].state = IF instruction.op \in {"LDR", "STR"} THEN "DONE" ELSE "IDLE"
         /\ lsu'[l].state = "IDLE"
<1>1. /\ core_state \in {"EXECUTE", "UPDATE"} /\ Awake(l) /\ l \in LanesOf(current_warp) /\ WarpActive(l) /\ l \in Lanes
  BY StepsFacts, ThreadsAre DEF Steps
<1>2. MemOp <=> instruction.op \in {"LDR", "STR"}
  BY <1>1, UpdateControl
<1>3. lsu[l].state = IF instruction.op \in {"LDR", "STR"} THEN "DONE" ELSE "IDLE"
  BY <1>1, <1>2 DEF IInv, Pipeline, AccessesComplete
<1>4. instruction.op \in {"LDR", "STR"} => core_state = "UPDATE"
  BY DEF Steps, Moving
<1> QED BY <1>1, <1>3, <1>4, LaneMoves, EveryStep DEF IInv

\* An answered read delivers the byte that the thread reads.
LEMMA AnswerIsRight ==
  ASSUME IInv, NEW d \in [Threads -> Thread], Sim(d), NEW l \in Threads,
         lsu[l].state = "WAIT", lsu[l].is_read, Acked(l)
  PROVE  rarb.rdata = d[l].mem[From(d[l], rom[d[l].pc])]
<1>1. lsu[l].req = "read" /\ l \in ready
  BY ThreadsAre DEF IInv, RequestLines, Acked
<1>2. Serves(l, d[l])
  BY DEF Sim, LsuSim
<1> QED BY <1>1, <1>2 DEF Serves, Sim, ReadSim

\* lsu.sv, REQUEST: the access begins.
LEMMA LsuRequests ==
  ASSUME IInv, CurrentLive, NEW d \in [Threads -> Thread], Sim(d), Next, NEW l \in Threads,
         lsu[l].state = "IDLE", lsu'[l].state # "IDLE", rom' = rom
  PROVE  Serves(l, d[l])'
<1>1. l \in Lanes /\ DataPath /\ lsu[l] \in LsuState /\ lsu'[l] = LsuNext(l)
  BY ThreadsAre, EveryStep DEF IInv, Typed, GridTyped, DataPath, Lsus
<1>2. core_state = "REQUEST" /\ Awake(l) /\ MemOp
  BY <1>1, LaneMoves DEF IInv
<1>3. /\ lsu'[l].state = "ISSUE" /\ lsu'[l].req = lsu[l].req /\ (lsu'[l].is_read <=> Decoded("mem_read"))
      /\ lsu[l].req = "none"
  BY <1>1, <1>2, LaneMoves DEF IInv, RequestLines
<1>4. ~d[l].halted /\ rom[d[l].pc] = rom[warp_pc[current_warp]]
  BY <1>1, <1>2, AwakeStand
<1>5. rom[d[l].pc].op = IF lsu'[l].is_read THEN "LDR" ELSE "STR"
  BY <1>2, <1>3, <1>4, CurrentControl
<1> QED BY <1>3, <1>4, <1>5 DEF Serves

\* lsu.sv, ISSUE: the address and the data are those of the thread.
LEMMA LsuIssues ==
  ASSUME IInv, CurrentLive, PortsRead, NEW d \in [Threads -> Thread], Sim(d), Next, NEW l \in Threads,
         lsu[l].state = "ISSUE", rom' = rom
  PROVE  Serves(l, d[l])'
<1> DEFINE t == d[l]
           i == rom[t.pc]
<1>1. l \in Lanes /\ DataPath /\ lsu[l] \in LsuState /\ lsu'[l] = Issued(l)
  BY ThreadsAre, EveryStep DEF IInv, Typed, GridTyped, DataPath, Lsus, LsuNext
<1>2. core_state = "WAIT" /\ Awake(l)
  BY <1>1, IssuingLane
<1>3. ~t.halted /\ i = rom[warp_pc[current_warp]] /\ t \in Thread
  BY <1>1, <1>2, AwakeStand
<1>4. i \in Instr /\ decoded.rs = i.rs /\ decoded.rt = i.rt
  BY <1>2, <1>3, CurrentControl
<1>5. rs[l] = t.regs[i.rs] /\ rt[l] = t.regs[i.rt] /\ base[l] = t.base /\ wbase[l] = t.wbase
  BY <1>1, <1>2, <1>4 DEF PortsRead, Sim, RegsSim
<1>6. i.op = IF lsu[l].is_read THEN "LDR" ELSE "STR"
  BY DEF Sim, LsuSim, Serves
<1> HIDE DEF t, i
<1>7. CASE lsu[l].is_read
  <2>1. /\ lsu'[l].state = "WAIT" /\ lsu'[l].req = "read" /\ lsu'[l].is_read = lsu[l].is_read
        /\ lsu'[l].addr = (base[l] + rs[l]) % AddrSize
    BY <1>1, <1>7 DEF Issued, LsuState
  <2> QED BY <1>3, <1>5, <1>6, <1>7, <2>1 DEF Serves, From, t, i
<1>8. CASE ~lsu[l].is_read /\ rs[l] = MMIO_TX
  <2>1. /\ lsu'[l].state = "WAIT" /\ lsu'[l].req = "emit" /\ lsu'[l].is_read = lsu[l].is_read
        /\ lsu'[l].data = rt[l] % ByteSize
    BY <1>1, <1>8 DEF Issued, LsuState
  <2> QED BY <1>3, <1>5, <1>6, <1>8, <2>1 DEF Serves, Emits, t, i
<1>9. CASE ~lsu[l].is_read /\ rs[l] # MMIO_TX
  <2>1. /\ lsu'[l].state = "WAIT" /\ lsu'[l].req = "write" /\ lsu'[l].is_read = lsu[l].is_read
        /\ lsu'[l].addr = (wbase[l] + rs[l]) % AddrSize /\ lsu'[l].data = rt[l] % ByteSize
    BY <1>1, <1>9 DEF Issued, LsuState
  <2> QED BY <1>3, <1>5, <1>6, <1>9, <2>1 DEF Serves, Stores, To, t, i
<1> QED BY <1>7, <1>8, <1>9

\* lsu.sv, WAIT: the answer comes, or does not.
LEMMA LsuWaits ==
  ASSUME IInv, NEW d \in [Threads -> Thread], Sim(d), Next, NEW l \in Threads,
         lsu[l].state = "WAIT", rom' = rom
  PROVE  Serves(l, d[l])'
<1>1. l \in Lanes /\ DataPath /\ lsu[l] \in LsuState /\ lsu'[l] = LsuNext(l)
  BY ThreadsAre, EveryStep DEF IInv, Typed, GridTyped, DataPath, Lsus
<1>2. Serves(l, d[l])
  BY DEF Sim, LsuSim
<1>3. CASE ~Acked(l)
  <2>1. lsu'[l] = lsu[l]
    BY <1>1, <1>3, LaneMoves DEF IInv
  <2> QED BY <1>2, <2>1 DEF Serves
<1>4. CASE Acked(l)
  <2>1. /\ lsu'[l].state = "DONE" /\ lsu'[l].req = "none" /\ lsu'[l].is_read = lsu[l].is_read
        /\ lsu'[l].out = IF lsu[l].is_read THEN rarb.rdata ELSE lsu[l].out
    BY <1>1, <1>4 DEF LsuNext, LsuState
  <2>2. lsu[l].is_read => rarb.rdata = d[l].mem[From(d[l], rom[d[l].pc])]
    BY <1>4, AnswerIsRight
  <2> QED BY <1>2, <2>1, <2>2 DEF Serves
<1> QED BY <1>3, <1>4

\* Each LSU goes on serving its thread.
LEMMA LsuSimStep ==
  ASSUME IInv, CurrentLive, PortsRead, NEW d \in [Threads -> Thread], Sim(d), Next, NEW e, e = Moved(d)
  PROVE  LsuSim(e)'
<1>0. rom' = rom /\ DataPath
  BY EveryStep DEF DataPath, FetchAndDecode
<1>1. ASSUME NEW l \in Lanes \ Threads PROVE lsu'[l].state = "IDLE"
  <2>1. lsu[l].state = "IDLE"
    BY DEF Sim, LsuSim
  <2>2. ~(core_state = "REQUEST" /\ Awake(l))
    BY AwakeStand
  <2>3. lsu'[l] = lsu[l]
    BY <1>0, <2>1, <2>2, LaneMoves DEF IInv
  <2> QED BY <2>1, <2>3
<1>2. ASSUME NEW l \in Threads, lsu'[l].state # "IDLE" PROVE Serves(l, e[l])'
  <2>1. ~Steps(l)
    BY <1>2, StepsRest
  <2>2. e[l] = d[l] /\ l \in Lanes
    BY <2>1, ThreadsAre DEF Moved
  <2>3. lsu[l].state \in {"IDLE", "ISSUE", "WAIT", "DONE"}
    BY <1>0, <2>2, LaneMoves DEF IInv
  <2>4. CASE lsu[l].state = "DONE"
    <3>1. lsu'[l] = lsu[l]
      BY <1>0, <1>2, <2>2, <2>4, LaneMoves DEF IInv
    <3>2. Serves(l, d[l])
      BY <2>4 DEF Sim, LsuSim
    <3> QED BY <1>0, <2>2, <3>1, <3>2 DEF Serves
  <2> QED BY <1>0, <1>2, <2>2, <2>3, <2>4, LsuRequests, LsuIssues, LsuWaits
<1> QED BY <1>1, <1>2 DEF LsuSim

-----------------------------------------------------------------------------
(* 6. Memory and the UART.                                                   *)

\* What is settled of a thread in one cycle is the one access that is answered in it.
LEMMA SettledMoves ==
  ASSUME IInv, CurrentLive, PortsRead, NEW d \in [Threads -> Thread], Sim(d), Next, NEW e, e = Moved(d),
         NEW l \in Threads, NEW s, NEW z, s = Settled(l, d[l]),
         z = IF lsu'[l].state = "DONE" THEN After(e[l], rom[e[l].pc]) ELSE e[l]
  PROVE  /\ lsu[l].state = "WAIT" /\ Acked(l) =>
              e[l] = d[l] /\ s = d[l] /\ z = After(d[l], rom[d[l].pc])
         /\ ~(lsu[l].state = "WAIT" /\ Acked(l)) => z.mem = s.mem /\ z.out = s.out
<1>0. rom' = rom /\ DataPath /\ l \in Lanes /\ d[l] \in Thread /\ instruction \in Instr
  BY EveryStep, ThreadsAre, ProgramTyped DEF DataPath, FetchAndDecode, IInv
<1>1. lsu[l].state \in {"IDLE", "ISSUE", "WAIT", "DONE"}
  BY <1>0, LaneMoves DEF IInv
<1>2. CASE Steps(l)
  <2>1. e[l] = After(d[l], instruction) /\ rom[d[l].pc] = instruction
    BY <1>2, StepsFacts DEF Moved
  <2>2. /\ lsu[l].state = IF instruction.op \in {"LDR", "STR"} THEN "DONE" ELSE "IDLE"
        /\ lsu'[l].state = "IDLE"
    BY <1>2, StepsRest
  <2>3. z = After(d[l], instruction)
    BY <2>1, <2>2
  <2>4. CASE instruction.op \in {"LDR", "STR"}
    BY <2>1, <2>2, <2>3, <2>4 DEF Settled
  <2>5. CASE instruction.op \notin {"LDR", "STR"}
    <3>1. s = d[l]
      BY <2>2, <2>5 DEF Settled
    <3>2. z.mem = d[l].mem /\ z.out = d[l].out
      BY <1>0, <2>3, <2>5, AfterKeeps DEF Stores, Emits
    <3> QED BY <2>2, <2>5, <3>1, <3>2
  <2> QED BY <2>4, <2>5
<1>3. CASE ~Steps(l)
  <2>1. e[l] = d[l]
    BY <1>3 DEF Moved
  <2>2. CASE lsu[l].state \in {"IDLE", "ISSUE"}
    <3>1. lsu'[l].state # "DONE"
      BY <1>0, <2>2, LaneMoves DEF IInv
    <3> QED BY <2>1, <2>2, <3>1 DEF Settled
  <2>3. CASE lsu[l].state = "WAIT" /\ Acked(l)
    <3>1. lsu'[l].state = "DONE"
      BY <1>0, <2>3, LaneMoves DEF IInv
    <3> QED BY <2>1, <2>3, <3>1 DEF Settled
  <2>4. CASE lsu[l].state = "WAIT" /\ ~Acked(l)
    <3>1. lsu'[l] = lsu[l]
      BY <1>0, <2>4, LaneMoves DEF IInv
    <3> QED BY <2>1, <2>4, <3>1 DEF Settled
  <2>5. CASE lsu[l].state = "DONE"
    <3>1. ~(core_state = "UPDATE" /\ WarpActive(l))
      <4>1. SUFFICES ASSUME core_state = "UPDATE", WarpActive(l) PROVE FALSE
        OBVIOUS
      <4>2. l \in LanesOf(current_warp)
        BY <4>1, <1>0 DEF LanesOf, WarpActive
      <4>3. MemOp /\ Awake(l)
        BY <2>5, <4>1, <4>2 DEF IInv, Pipeline, AccessesComplete
      <4>4. instruction.op \in {"LDR", "STR"}
        BY <4>1, <4>3, UpdateControl
      <4> QED BY <1>3, <4>1, <4>3, <4>4 DEF Steps, Moving
    <3>2. lsu'[l] = lsu[l]
      BY <1>0, <2>5, <3>1, LaneMoves DEF IInv
    <3> QED BY <2>1, <2>5, <3>2 DEF Settled
  <2> QED BY <1>1, <2>2, <2>3, <2>4, <2>5
<1> QED BY <1>2, <1>3

\* A place that a thread is about to access is one that its run touches.
LEMMA AccessTouched ==
  ASSUME Typed, Kernels, NEW d \in [Threads -> Thread], Runs(d), NEW l \in Threads, ~d[l].halted
  PROVE  LET t == d[l]
             i == rom[t.pc]
         IN /\ i \in Instr
            /\ i.op = "LDR" => From(t, i) \in Touched(l)
            /\ Stores(t, i) => To(t, i) \in Alone(l).written /\ To(t, i) \in Touched(l)
<1> DEFINE t == d[l]
           i == rom[t.pc]
           u == After(t, i)
<1>1. rom \in Programs /\ t \in Thread /\ l \in Lanes /\ OnRun(rom, l, t)
  BY ProgramTyped, ThreadsAre DEF Runs
<1>2. i \in Instr
  BY <1>1, ProgramTyped DEF Thread
<1>3. Alone(l).halted
  BY <1>1 DEF Kernels, Ends, Alone
<1>4. OnRun(rom, l, u)
  BY <1>1, <1>3, RunGoesOn DEF Alone
<1>5. u.read \subseteq Alone(l).read /\ u.written \subseteq Alone(l).written
  BY <1>1, <1>4, RunFacts DEF Alone
<1> HIDE DEF t, i
<1>6. ASSUME i.op = "LDR" PROVE From(t, i) \in u.read
  <2>1. u = [t EXCEPT !.regs = [t.regs EXCEPT ![i.rd] = t.mem[From(t, i)] % WordSize],
                      !.pc = Beyond(t), !.read = t.read \cup {From(t, i)}]
    BY <1>1, <1>2, <1>6, AfterLoad
  <2> HIDE DEF u
  <2>2. u.read = t.read \cup {From(t, i)}
    BY <1>1, <2>1 DEF Thread
  <2> QED BY <2>2
<1>7. ASSUME Stores(t, i) PROVE To(t, i) \in u.written
  <2>1. u = [t EXCEPT !.pc = Beyond(t), !.mem = [t.mem EXCEPT ![To(t, i)] = t.regs[i.rt] % ByteSize],
                      !.written = t.written \cup {To(t, i)}]
    BY <1>1, <1>2, <1>7, AfterStore
  <2> HIDE DEF u
  <2>2. u.written = t.written \cup {To(t, i)}
    BY <1>1, <2>1 DEF Thread
  <2> QED BY <2>2
<1> QED BY <1>2, <1>5, <1>6, <1>7 DEF Touched, t, i

\* The threads do not race, RaceFree of DoneMatchesReference.
NoRace == RaceFree([l \in Threads |-> Alone(l)])

\* main_memory.sv: the store that is committed is the one of a waiting thread, and
\* nobody else touches the place.
LEMMA StoreCommits ==
  ASSUME IInv, CurrentLive, PortsRead, Kernels, NoRace, NEW d \in [Threads -> Thread], Sim(d), Next,
         NEW k \in wgrant
  PROVE  /\ k \in Threads /\ wgrant = {k} /\ mem' = [mem EXCEPT ![mem_waddr] = mem_wdata]
         /\ lsu[k].state = "WAIT" /\ Acked(k)
         /\ After(d[k], rom[d[k].pc]).mem = [d[k].mem EXCEPT ![mem_waddr] = mem_wdata]
         /\ mem_waddr \in Alone(k).written /\ mem_waddr \in Touched(k)
         /\ \A l \in Threads : l # k => mem_waddr \notin Touched(l)
<1> DEFINE t == d[k]
           i == rom[t.pc]
<1>1. /\ wgrant = {k} /\ lsu[k].state = "WAIT" /\ lsu[k].req = "write" /\ mem_we
      /\ mem_waddr = lsu[k].addr /\ mem_wdata = lsu[k].data /\ k \in Lanes
  BY DEF IInv, GrantMatchesStore, Typed, MemoryTyped
<1>2. k \in Threads /\ Acked(k)
  BY <1>1 DEF Sim, LsuSim, Acked
<1>3. mem' = [mem EXCEPT ![mem_waddr] = mem_wdata]
  BY <1>1, EveryStep DEF DataPath, MainMemory
<1>4. ~t.halted /\ Stores(t, i) /\ mem_waddr = To(t, i) /\ mem_wdata = t.regs[i.rt] % ByteSize
  BY <1>1, <1>2 DEF Sim, LsuSim, Serves
<1>5. i \in Instr /\ To(t, i) \in Alone(k).written /\ To(t, i) \in Touched(k)
  BY <1>2, <1>4, AccessTouched DEF Sim, IInv
<1>6. \A l \in Threads : l # k => mem_waddr \notin Touched(l)
  BY <1>2, <1>4, <1>5 DEF NoRace, RaceFree, Touched
<1> HIDE DEF t, i
<1>7. After(t, i).mem = [t.mem EXCEPT ![mem_waddr] = mem_wdata]
  <2>1. t \in Thread
    BY <1>2 DEF t
  <2>2. After(t, i) = [t EXCEPT !.pc = Beyond(t), !.mem = [t.mem EXCEPT ![To(t, i)] = t.regs[i.rt] % ByteSize],
                      !.written = t.written \cup {To(t, i)}]
    BY <1>4, <1>5, <2>1, AfterStore
  <2> QED BY <1>4, <2>1, <2>2 DEF Thread
<1> QED BY <1>1, <1>2, <1>3, <1>4, <1>5, <1>6, <1>7 DEF t, i

\* An answered access that is no store leaves the thread's memory as it was.
LEMMA OtherAnswers ==
  ASSUME IInv, NEW d \in [Threads -> Thread], Sim(d), NEW l \in Threads, lsu[l].state = "WAIT", Acked(l),
         l \notin wgrant
  PROVE  After(d[l], rom[d[l].pc]).mem = d[l].mem
<1> DEFINE t == d[l]
           i == rom[t.pc]
<1>1. Serves(l, t) /\ t \in Thread
  BY DEF Sim, LsuSim
<1>2. i \in Instr
  BY <1>1, ProgramTyped DEF Thread, IInv
<1>3. l \in Lanes /\ lsu[l].req \in {"read", "emit"}
  BY ThreadsAre DEF Acked
<1>4. ~Stores(t, i)
  <2>1. CASE lsu[l].req = "read"
    <3>1. lsu[l].is_read
      BY <1>3, <2>1 DEF IInv, RequestLines
    <3> QED BY <1>1, <3>1 DEF Serves, Stores
  <2>2. CASE lsu[l].req = "emit"
    BY <1>1, <2>2 DEF Serves, Stores, Emits
  <2> QED BY <1>3, <2>1, <2>2
<1> QED BY <1>1, <1>2, <1>4, AfterKeeps

\* main_memory.sv holds what the threads have stored, each of them alone.
LEMMA MemSimStep ==
  ASSUME IInv, CurrentLive, PortsRead, Kernels, NoRace, NEW d \in [Threads -> Thread], Sim(d), Next,
         NEW e, e = Moved(d)
  PROVE  MemSim(e)'
<1>0. rom' = rom /\ DataPath /\ mem \in [Addr -> Byte]
  BY EveryStep DEF DataPath, FetchAndDecode, IInv, Typed, MemoryTyped
<1> DEFINE Z(l) == IF lsu'[l].state = "DONE" THEN After(e[l], rom[e[l].pc]) ELSE e[l]
<1>1. \A l \in Threads : \A a \in Touched(l) : mem[a] = Settled(l, d[l]).mem[a]
  BY DEF Sim, MemSim
<1>2. \A a \in Addr : (\A l \in Threads : a \notin Alone(l).written) => mem[a] = LoadedData[a]
  BY DEF Sim, MemSim
<1>3. CASE wgrant = {}
  <2>1. mem' = mem
    BY <1>0, <1>3 DEF DataPath, MainMemory, IInv, GrantMatchesStore
  <2>2. ASSUME NEW l \in Threads PROVE Z(l).mem = Settled(l, d[l]).mem
    <3>1. CASE lsu[l].state = "WAIT" /\ Acked(l)
      <4>1. Settled(l, d[l]) = d[l] /\ Z(l) = After(d[l], rom[d[l].pc])
        BY <3>1, SettledMoves
      <4>2. After(d[l], rom[d[l].pc]).mem = d[l].mem
        BY <1>3, <3>1, OtherAnswers
      <4> QED BY <4>1, <4>2
    <3>2. CASE ~(lsu[l].state = "WAIT" /\ Acked(l))
      BY <3>2, SettledMoves
    <3> QED BY <3>1, <3>2
  <2> HIDE DEF Z
  <2>3. \A l \in Threads : \A a \in Touched(l) : mem'[a] = Z(l).mem[a]
    BY <1>1, <2>1, <2>2
  <2> QED BY <1>0, <1>2, <2>1, <2>3 DEF MemSim, Settled, Touched, Alone, Z
<1>4. ASSUME NEW k \in wgrant PROVE MemSim(e)'
  <2>1. /\ k \in Threads /\ wgrant = {k} /\ mem' = [mem EXCEPT ![mem_waddr] = mem_wdata]
        /\ lsu[k].state = "WAIT" /\ Acked(k)
        /\ After(d[k], rom[d[k].pc]).mem = [d[k].mem EXCEPT ![mem_waddr] = mem_wdata]
        /\ mem_waddr \in Alone(k).written /\ mem_waddr \in Touched(k)
        /\ \A l \in Threads : l # k => mem_waddr \notin Touched(l)
    BY <1>4, StoreCommits
  <2>2. mem_waddr \in Addr /\ d[k] \in Thread
    BY <2>1 DEF IInv, Typed, MemoryTyped
  <2>3. ASSUME NEW l \in Threads, NEW a \in Touched(l) PROVE mem'[a] = Z(l).mem[a]
    <3>1. mem[a] = Settled(l, d[l]).mem[a]
      BY <1>1
    <3>2. CASE l = k
      <4>1. Settled(k, d[k]) = d[k] /\ Z(k) = After(d[k], rom[d[k].pc])
        BY <2>1, SettledMoves
      <4> HIDE DEF Z
      <4>2. Z(k).mem = [d[k].mem EXCEPT ![mem_waddr] = mem_wdata]
        BY <2>1, <4>1
      <4>3. d[k].mem \in [Addr -> Byte]
        BY <2>2 DEF Thread
      <4>4. CASE a = mem_waddr
        BY <1>0, <2>1, <2>2, <3>2, <4>2, <4>3, <4>4
      <4>5. CASE a # mem_waddr
        <5>1. mem'[a] = mem[a]
          BY <1>0, <2>1, <2>2, <4>5
        <5>2. Z(k).mem[a] = d[k].mem[a]
          BY <2>2, <4>2, <4>3, <4>5
        <5> QED BY <3>1, <3>2, <4>1, <5>1, <5>2
      <4> QED BY <4>4, <4>5
    <3>3. CASE l # k
      <4>1. a # mem_waddr /\ l \notin wgrant
        BY <2>1, <3>3
      <4>2. mem'[a] = mem[a]
        BY <1>0, <2>1, <2>2, <4>1
      <4>3. Z(l).mem = Settled(l, d[l]).mem
        <5>1. CASE lsu[l].state = "WAIT" /\ Acked(l)
          <6>1. Settled(l, d[l]) = d[l] /\ Z(l) = After(d[l], rom[d[l].pc])
            BY <5>1, SettledMoves
          <6>2. After(d[l], rom[d[l].pc]).mem = d[l].mem
            BY <4>1, <5>1, OtherAnswers
          <6> QED BY <6>1, <6>2
        <5>2. CASE ~(lsu[l].state = "WAIT" /\ Acked(l))
          BY <5>2, SettledMoves
        <5> QED BY <5>1, <5>2
      <4> HIDE DEF Z
      <4> QED BY <3>1, <4>2, <4>3
    <3> QED BY <3>2, <3>3
  <2>4. ASSUME NEW a \in Addr, \A l \in Threads : a \notin Alone(l).written PROVE mem'[a] = LoadedData[a]
    <3>1. a # mem_waddr
      BY <2>1, <2>4
    <3> QED BY <1>0, <1>2, <2>1, <2>2, <2>4, <3>1
  <2> HIDE DEF Z
  <2> QED BY <1>0, <2>3, <2>4 DEF MemSim, Settled, Touched, Alone, Z
<1> QED BY <1>3, <1>4

\* A thread whose read is under way has not stepped, and reads what memory holds.
LEMMA ReadsMemory ==
  ASSUME IInv, CurrentLive, PortsRead, Kernels, NEW d \in [Threads -> Thread], Sim(d), Next,
         NEW e, e = Moved(d), NEW l \in Lanes, lsu'[l].req = "read"
  PROVE  /\ l \in Threads /\ e[l] = d[l] /\ lsu'[l].state = "WAIT"
         /\ mem[lsu'[l].addr] = e[l].mem[lsu'[l].addr]
<1>0. rom' = rom /\ DataPath
  BY EveryStep DEF DataPath, FetchAndDecode
<1>1. RequestLines' /\ LsuSim(e)' /\ Runs(e)' /\ Typed' /\ e \in [Threads -> Thread]
  BY <1>0, RequestLinesStep, LsuSimStep, RunsStep, TypedStep DEF IInv
<1>2. lsu'[l].state = "WAIT" /\ lsu'[l].is_read
  BY <1>1 DEF RequestLines
<1>3. l \in Threads
  BY <1>1, <1>2 DEF LsuSim
<1>4. ~Steps(l)
  BY <1>2, <1>3, StepsRest
<1>5. e[l] = d[l]
  BY <1>3, <1>4 DEF Moved
<1>6. lsu[l].state \in {"ISSUE", "WAIT"}
  BY <1>0, <1>2, LaneMoves DEF IInv
<1>7. Settled(l, d[l]) = d[l]
  BY <1>6 DEF Settled
<1>8. /\ ~d[l].halted /\ rom[d[l].pc].op = "LDR"
      /\ lsu'[l].addr = From(d[l], rom[d[l].pc])
  <2>1. Serves(l, e[l])'
    BY <1>1, <1>2, <1>3 DEF LsuSim
  <2> QED BY <1>0, <1>2, <1>5, <2>1 DEF Serves
<1>9. lsu'[l].addr \in Touched(l)
  BY <1>3, <1>8, AccessTouched DEF Sim, IInv
<1>10. mem[lsu'[l].addr] = d[l].mem[lsu'[l].addr]
  BY <1>3, <1>7, <1>9 DEF Sim, MemSim
<1> QED BY <1>2, <1>3, <1>5, <1>10

\* lsu_arbiter.sv: the byte under way is the one that its thread reads.
LEMMA ReadSimStep ==
  ASSUME IInv, CurrentLive, PortsRead, Kernels, NEW d \in [Threads -> Thread], Sim(d), Next, NEW e, e = Moved(d)
  PROVE  ReadSim(e)'
<1>0. DataPath /\ rarb \in ArbState /\ rarb.svc \in Lanes
  BY EveryStep DEF IInv, Typed, MemoryTyped, ArbState
<1>1. /\ mem_rdata' = mem[rarb.raddr]
      /\ ready' = IF rarb.state = "RESP" THEN {rarb.svc} ELSE {}
  BY <1>0 DEF DataPath, MainMemory, ReadArbiter
<1>2. ASSUME rarb'.state = "RESP", lsu'[rarb'.svc].req = "read", lsu'[rarb'.svc].addr = rarb'.raddr
      PROVE  mem_rdata' = e[rarb'.svc].mem[rarb'.raddr]
  <2>1. rarb'.svc = rarb.svc /\ rarb'.raddr = rarb.raddr
    BY <1>0, <1>2 DEF DataPath, ReadArbiter, ArbState
  <2> QED BY <1>0, <1>1, <1>2, <2>1, ReadsMemory
<1>3. ASSUME NEW l \in ready', lsu'[l].req = "read"
      PROVE  rarb'.rdata = e[l].mem[lsu'[l].addr]
  <2>1. rarb.state = "RESP" /\ l = rarb.svc /\ l \in Lanes
    BY <1>0, <1>1, <1>3
  <2>2. rarb'.rdata = mem_rdata
    BY <1>0, <2>1 DEF DataPath, ReadArbiter, ArbState
  <2>3. e[l] = d[l] /\ l \in Threads
    BY <1>3, <2>1, ReadsMemory
  <2>4. Genuine
    <3>1. Genuine \/ Late
      BY <2>1 DEF IInv, Reading
    <3>2. ~Late
      <4>1. SUFFICES ASSUME lsu[l].state = "DONE" PROVE FALSE
        BY <2>1 DEF Late
      <4>2. lsu'[l].state \in {"DONE", "IDLE"}
        BY <1>0, <2>1, <4>1, LaneMoves DEF IInv
      <4>3. lsu'[l].state = "WAIT"
        BY <1>3, <2>1, ReadsMemory
      <4> QED BY <4>2, <4>3
    <3> QED BY <3>1, <3>2
  <2>5. lsu'[l] = lsu[l]
    <3>1. lsu[l].req = "read" /\ lsu[l].state = "WAIT"
      BY <2>1, <2>4 DEF Genuine, IInv, RequestLines
    <3>2. ready = {}
      BY <2>1 DEF IInv, Reading
    <3>3. ~Acked(l)
      BY <3>1, <3>2 DEF Acked
    <3> QED BY <1>0, <2>1, <3>1, <3>3, LaneMoves DEF IInv
  <2>6. mem_rdata = d[l].mem[rarb.raddr] /\ lsu[l].addr = rarb.raddr
    BY <2>1, <2>4 DEF Sim, ReadSim, Genuine
  <2> QED BY <2>2, <2>3, <2>5, <2>6
<1> QED BY <1>2, <1>3 DEF ReadSim, Genuine

\* An answered access that is no emit sends nothing.
LEMMA SilentAnswers ==
  ASSUME IInv, NEW d \in [Threads -> Thread], Sim(d), NEW l \in Threads, lsu[l].state = "WAIT",
         lsu[l].req # "emit"
  PROVE  After(d[l], rom[d[l].pc]).out = d[l].out
<1> DEFINE t == d[l]
           i == rom[t.pc]
<1>1. Serves(l, t) /\ t \in Thread /\ l \in Lanes
  BY ThreadsAre DEF Sim, LsuSim
<1>2. i \in Instr
  BY <1>1, ProgramTyped DEF Thread, IInv
<1>3. lsu[l].req \in {"read", "write"}
  BY <1>1 DEF IInv, RequestLines, Typed, GridTyped, LsuState
<1>4. ~Emits(t, i)
  <2>1. CASE lsu[l].req = "read"
    <3>1. lsu[l].is_read
      BY <1>1, <2>1 DEF IInv, RequestLines
    <3> QED BY <1>1, <3>1 DEF Serves, Emits
  <2>2. CASE lsu[l].req = "write"
    BY <1>1, <2>2 DEF Serves, Stores, Emits
  <2> QED BY <1>3, <2>1, <2>2
<1> QED BY <1>1, <1>2, <1>4, AfterKeeps

\* The UART: the bytes sent of a warp are those of its thread 0.
LEMMA SentSimStep ==
  ASSUME IInv, CurrentLive, PortsRead, NEW d \in [Threads -> Thread], Sim(d), Next, NEW e, e = Moved(d),
         sent \in [Warps -> Seq(Byte)]
  PROVE  SentSim(e)'
<1>0. rom' = rom /\ DataPath /\ Uart /\ emit_owner \in Warps /\ emit_ready \in BOOLEAN
  BY EveryStep DEF DataPath, FetchAndDecode, IInv, Typed, EmitTyped
<1>1. emit_ready => emit_valid
  BY DEF Sim, SentSim
<1>2. /\ emit_ready' => emit_valid /\ ~emit_ready
      /\ sent' = IF emit_ready' THEN [sent EXCEPT ![emit_owner] = Append(@, emit_data)] ELSE sent
  BY <1>0 DEF Uart
<1>3. ASSUME emit_ready'
      PROVE  /\ emit_valid' /\ emit_owner' = emit_owner
             /\ lsu[Thread0(emit_owner)].req = "emit" /\ lsu[Thread0(emit_owner)].state = "WAIT"
             /\ ~Acked(Thread0(emit_owner)) /\ Thread0(emit_owner) \in Threads
             /\ lsu'[Thread0(emit_owner)] = lsu[Thread0(emit_owner)]
  <2> DEFINE k == Thread0(emit_owner)
  <2>1. emit_owned /\ lsu[k].req = "emit" /\ k \in Lanes
    BY <1>0, <1>2, <1>3, WarpsOfLanes DEF emit_valid, WarpEmit
  <2>2. emit_owned' = TRUE /\ emit_owner' = emit_owner
    BY <1>0, <1>2, <1>3, <2>1 DEF DataPath, EmitLatch
  <2>3. lsu[k].state = "WAIT" /\ ~Acked(k)
    BY <1>2, <1>3, <2>1 DEF IInv, RequestLines, Acked
  <2>4. lsu'[k] = lsu[k]
    BY <1>0, <2>1, <2>3, LaneMoves DEF IInv
  <2>5. k \in Threads
    BY <2>1, <2>3 DEF Sim, LsuSim
  <2>6. emit_valid'
    BY <1>0, <2>1, <2>2, <2>4 DEF emit_valid, WarpEmit
  <2> QED BY <2>1, <2>2, <2>3, <2>4, <2>5, <2>6
<1>4. ASSUME NEW w \in Warps, LaunchMask(w) # {}, NEW k, k = Thread0(w), NEW t, t = d[k],
             NEW z, z = IF lsu'[k].state = "DONE" THEN After(e[k], rom[e[k].pc]) ELSE e[k]
      PROVE  sent'[w] = IF emit_ready' /\ emit_owner' = w THEN After(e[k], rom[e[k].pc]).out ELSE z.out
  <2>1. k \in Threads /\ k \in Lanes /\ WarpOf(k) = w /\ t \in Thread
    BY <1>4, ThreadsAre, WarpsOfLanes
  <2>2. sent[w] = (IF Sending(w) THEN After(t, rom[t.pc]) ELSE Settled(k, t)).out
    BY <1>4 DEF Sim, SentSim
  <2>3. CASE emit_ready' /\ emit_owner' = w
    <3>1. /\ lsu[k].req = "emit" /\ lsu[k].state = "WAIT" /\ ~Acked(k) /\ lsu'[k] = lsu[k] /\ emit_owner = w
          /\ ~emit_ready
      BY <1>2, <1>3, <1>4, <2>3
    <3>2. ~Steps(k) /\ e[k] = t
      <4>1. ~Steps(k)
        BY <2>1, <3>1, StepsRest
      <4> QED BY <1>4, <2>1, <4>1 DEF Moved
    <3>3. sent[w] = t.out
      BY <2>2, <3>1 DEF Sending, Settled
    <3>4. sent'[w] = Append(t.out, lsu[k].data)
      BY <1>2, <1>4, <2>3, <3>1, <3>3 DEF emit_data
    <3>5. Emits(t, rom[t.pc]) /\ lsu[k].data = t.regs[rom[t.pc].rt] % ByteSize
      BY <1>4, <2>1, <3>1 DEF Sim, LsuSim, Serves
    <3>6. After(t, rom[t.pc]).out = Append(t.out, t.regs[rom[t.pc].rt] % ByteSize)
      <4> DEFINE i == rom[t.pc]
      <4>1. i \in Instr
        BY <2>1, ProgramTyped DEF Thread, IInv
      <4> HIDE DEF i
      <4>2. After(t, i) = [t EXCEPT !.pc = Beyond(t), !.out = Append(t.out, t.regs[i.rt] % ByteSize)]
        BY <2>1, <3>5, <4>1, AfterEmit DEF i
      <4>3. After(t, i).out = Append(t.out, t.regs[i.rt] % ByteSize)
        BY <2>1, <4>2 DEF Thread
      <4> QED BY <4>3 DEF i
    <3> QED BY <2>3, <3>2, <3>4, <3>5, <3>6
  <2>4. CASE ~(emit_ready' /\ emit_owner' = w)
    <3>1. sent'[w] = sent[w]
      BY <1>2, <1>3, <1>4, <2>4
    <3>2. CASE lsu[k].state = "WAIT" /\ Acked(k)
      <4>1. e[k] = t /\ Settled(k, t) = t /\ z = After(t, rom[t.pc])
        BY <1>4, <2>1, <3>2, SettledMoves
      <4>2. CASE Sending(w)
        BY <2>2, <2>4, <3>1, <4>1, <4>2
      <4>3. CASE ~Sending(w)
        <5>1. lsu[k].req # "emit"
          BY <2>1, <3>2, <4>3 DEF Acked, Sending
        <5>2. After(t, rom[t.pc]).out = t.out
          BY <1>4, <2>1, <3>2, <5>1, SilentAnswers
        <5> QED BY <2>2, <2>4, <3>1, <4>1, <4>3, <5>2
      <4> QED BY <4>2, <4>3
    <3>3. CASE ~(lsu[k].state = "WAIT" /\ Acked(k))
      <4>1. z.out = Settled(k, t).out
        <5>1. PICK s : s = Settled(k, d[k])
          OBVIOUS
        <5>2. z.out = s.out
          BY <1>4, <2>1, <3>3, <5>1, SettledMoves
        <5> QED BY <1>4, <5>1, <5>2
      <4>2. ~Sending(w)
        <5>1. SUFFICES ASSUME emit_ready, emit_owner = w PROVE FALSE
          BY DEF Sending
        <5>2. emit_owned /\ lsu[k].req = "emit"
          BY <1>1, <1>4, <5>1 DEF emit_valid, WarpEmit
        <5>3. lsu[k].state = "WAIT" /\ Acked(k)
          BY <2>1, <5>1, <5>2 DEF IInv, RequestLines, Acked
        <5> QED BY <3>3, <5>3
      <4> QED BY <2>2, <2>4, <3>1, <4>1, <4>2
    <3> QED BY <3>2, <3>3
  <2> QED BY <2>3, <2>4
<1>5. emit_ready' => emit_valid'
  BY <1>3
<1>6. ASSUME NEW w \in Warps, LaunchMask(w) # {}
      PROVE  sent'[w] = (IF emit_ready' /\ emit_owner' = w THEN After(e[Thread0(w)], rom[e[Thread0(w)].pc])
                         ELSE IF lsu'[Thread0(w)].state = "DONE"
                              THEN After(e[Thread0(w)], rom[e[Thread0(w)].pc]) ELSE e[Thread0(w)]).out
  BY <1>4, <1>6
<1> QED BY <1>0, <1>5, <1>6 DEF SentSim, Sending, Settled

-----------------------------------------------------------------------------
(* 7. Where the threads of a warp stand, and whom it has awake.              *)

\* Only the UPDATE of a RET retires a warp.
LEMMA DoneMoves ==
  ASSUME IInv, CurrentLive, Next, NEW w \in Warps
  PROVE  warp_status'[w] = "DONE" <=>
           warp_status[w] = "DONE" \/ (core_state = "UPDATE" /\ w = current_warp /\ Decoded("ret"))
<1>1. warp_status \in [Warps -> {"READY", "WAITING", "DONE"}] /\ current_warp \in Warps
  BY DEF IInv, Typed, SchedTyped
<1>2. CASE Update
  <2>1. core_state = "UPDATE"
    BY <1>2 DEF Update
  <2> QED BY <1>1, <1>2, <2>1 DEF Update, StatusWith, WokenStatus, CurrentLive
<1>3. CASE Park
  <2>1. core_state = "WAIT"
    BY <1>3 DEF Park
  <2> QED BY <1>1, <1>3, <2>1 DEF Park, StatusWith, WokenStatus, CurrentLive
<1>4. CASE ~Update /\ ~Park
  <2>1. core_state # "UPDATE" /\ warp_status' = WokenStatus
    BY <1>4 DEF Next, Idle, SelectWarp, Fetch, Decode, Request, Stall, Proceed, Execute, Finished, GoTo
  <2> QED BY <1>1, <2>1 DEF WokenStatus
<1> QED BY <1>2, <1>3, <1>4

\* A thread halts in the cycle in which its warp retires.
LEMMA HaltedMoves ==
  ASSUME IInv, CurrentLive, NEW d \in [Threads -> Thread], Sim(d), Next, NEW e, e = Moved(d),
         NEW w \in Warps, NEW l \in LaunchMask(w)
  PROVE  e[l].halted <=> warp_status'[w] = "DONE"
<1>1. l \in Threads /\ d[l] \in Thread /\ WarpOf(l) = w /\ instruction \in Instr
  BY ThreadsAre, ProgramTyped DEF IInv
<1>2. d[l].halted <=> warp_status[w] = "DONE"
  BY DEF Sim, WarpSim
<1>3. CASE core_state = "UPDATE" /\ w = current_warp /\ Decoded("ret")
  <2>1. instruction.op = "RET"
    BY <1>3, UpdateControl
  <2>2. Steps(l)
    BY <1>3, <2>1 DEF Sim, UpdateSim, Steps, Awake, Moving
  <2>3. e[l] = After(d[l], instruction)
    BY <1>1, <2>2 DEF Moved
  <2> DEFINE t == d[l]
             i == instruction
  <2>4. After(t, i) = [t EXCEPT !.halted = TRUE]
    BY <1>1, <2>1, AfterRet
  <2> HIDE DEF t, i
  <2>5. After(t, i).halted = TRUE
    BY <1>1, <2>4 DEF Thread, t
  <2> QED BY <1>3, <2>3, <2>5, DoneMoves DEF t, i
<1>4. CASE ~(core_state = "UPDATE" /\ w = current_warp /\ Decoded("ret"))
  <2>1. warp_status'[w] = "DONE" <=> warp_status[w] = "DONE"
    BY <1>4, DoneMoves
  <2>2. e[l].halted = d[l].halted
    <3>1. CASE Steps(l)
      <4>1. l \in LaunchMask(current_warp) /\ current_warp \in Warps
        BY <1>1, <3>1, StepsFacts
      <4>2. w = current_warp
        BY <1>1, <4>1, ThreadsAre
      <4>3. core_state = (IF instruction.op \in Moving THEN "EXECUTE" ELSE "UPDATE")
        BY <3>1 DEF Steps
      <4>4. instruction.op # "RET"
        BY <1>4, <4>2, <4>3, UpdateControl DEF Moving
      <4> QED BY <1>1, <3>1, <4>4, AfterKeeps DEF Moved
    <3>2. CASE ~Steps(l)
      BY <1>1, <3>2 DEF Moved
    <3> QED BY <3>1, <3>2
  <2> QED BY <1>2, <2>1, <2>2
<1> QED BY <1>3, <1>4

\* Only EXECUTE moves a thread with respect to its warp.
LEMMA AtStays ==
  ASSUME IInv, CurrentLive, NEW d \in [Threads -> Thread], Sim(d), Next, NEW e, e = Moved(d),
         NEW w \in Warps, NEW l \in LaunchMask(w), ~(Execute /\ w = current_warp)
  PROVE  At(e, l)' = At(d, l)
<1>1. l \in Threads /\ d[l] \in Thread /\ WarpOf(l) = w
  BY ThreadsAre
<1>2. current_warp \in Warps /\ active_mask[current_warp] \subseteq LanesOf(current_warp)
  BY DEF IInv, Typed, SchedTyped, WarpsTyped
<1>3. CASE Execute
  <2>1. w # current_warp /\ core_state = "EXECUTE" /\ current_warp' = current_warp
    BY <1>3 DEF Execute
  <2>2. ~Awake(l)
    BY <1>1, <1>2, <2>1 DEF Awake, LanesOf
  <2>3. active_mask'[w] = active_mask[w]
    BY <2>1, WarpStays DEF IInv
  <2>4. l \notin active_mask'[current_warp']
    <3>1. Typed'
      BY TypedStep DEF IInv
    <3>2. active_mask'[current_warp'] \subseteq LanesOf(current_warp')
      BY <3>1 DEF Typed, SchedTyped, WarpsTyped, LanesOf
    <3> QED BY <1>1, <2>1, <3>2 DEF LanesOf
  <2>5. e[l] = d[l]
    BY <1>1, <2>2 DEF Moved, Steps
  <2> QED BY <2>1, <2>4, <2>5 DEF At, Pending, Awake
<1>4. CASE ~Execute
  <2>1. core_state # "EXECUTE" /\ core_state' # "UPDATE"
    BY <1>4 DEF Next, Idle, SelectWarp, Fetch, Decode, Request, Stall, Park, Proceed, Update, Finished, GoTo
  <2>2. At(e, l)' = e[l].pc
    BY <2>1 DEF At, Pending
  <2>3. Steps(l) <=> Pending(l)
    BY <2>1 DEF Steps, Pending
  <2> QED BY <1>1, <2>2, <2>3 DEF At, Moved
<1> QED BY <1>3, <1>4

\* A warp that EXECUTE leaves alone.
LEMMA QuietWarp ==
  ASSUME IInv, CurrentLive, Kernels, NEW d \in [Threads -> Thread], Sim(d), Next, NEW e, e = Moved(d),
         NEW w \in Warps, ~(Execute /\ w = current_warp)
  PROVE  WarpSim(e, w)'
<1>1. /\ rom' = rom /\ warp_pc'[w] = warp_pc[w] /\ active_mask'[w] = active_mask[w]
      /\ stack'[w] = stack[w] /\ base_mask'[w] = base_mask[w]
  BY WarpStutters, EveryStep DEF Warp!vars, DataPath, FetchAndDecode
<1>2. \A l \in LaunchMask(w) : At(e, l)' = At(d, l)
  BY AtStays
<1>3. \A l \in LaunchMask(w) : e[l].halted <=> warp_status'[w] = "DONE"
  BY HaltedMoves
<1>4. WarpSim(d, w)
  BY DEF Sim
<1>5. ASSUME ~Retired(w)' PROVE InStep(e, w)'
  <2>1. InStep(d, w)
    BY <1>4, <1>5, RetiredMoves DEF WarpSim
  <2>2. CASE Together(d, w)
    <3>1. Together(e, w)'
      BY <1>1, <1>2, <2>2 DEF Together
    <3> QED BY <1>1, <2>1, <3>1 DEF InStep
  <2>3. ASSUME NEW p \in Pc, IsIf(Code, p), Parted(d, w, p) \/ InBody(d, w, p)
        PROVE  InStep(e, w)'
    <3>1. Code' = Code
      BY <1>1 DEF Code, Skeleton
    <3>2. Skip(p)' = Skip(p) /\ Join(p)' = Join(p) /\ IsIf(Code, p)'
      BY <2>3, <3>1 DEF Skip, Join, IsIf, IsLoopBranch
    <3>3. (Parted(e, w, p) \/ InBody(e, w, p))'
      BY <1>1, <1>2, <2>3, <3>2 DEF Parted, InBody
    <3> QED BY <1>1, <2>1, <3>2, <3>3 DEF InStep
  <2> QED BY <2>1, <2>2, <2>3 DEF InStep
<1> QED BY <1>1, <1>3, <1>4, <1>5 DEF WarpSim

\* The program, and what lies between the branch of an if and its SYNC.
LEMMA LayoutOf ==
  ASSUME Typed, Kernels, NEW p \in Pc, IsIf(Code, p)
  PROVE  /\ Skip(p) \in Pc /\ p < Skip(p) /\ Code[Skip(p)].op = "SYNC"
         /\ p + 1 \in Pc /\ p + 1 = (p + 1) % PcSize
         /\ \A q \in p + 1 .. Skip(p) - 1 :
              /\ q \in Pc /\ q + 1 = (q + 1) % PcSize
              /\ rom[q].op \notin {"ADDB", "WBASE"}
              /\ \/ Code[q].op = "OTHER"
                 \/ IsLoopBranch(Code, q) /\ Code[q].op = "BR" /\ Code[q].imm \in p + 1 .. Skip(p)
<1>1. rom \in Programs /\ PcSize \in Nat \ {0} /\ Disciplined(rom)
  BY Sizes DEF Kernels, Typed, FrontTyped
<1>2. Structured(Code) /\ DOMAIN Code = Pc
  BY <1>1 DEF Disciplined, Code, Skeleton
<1>3. Skip(p) \in Pc /\ p < Skip(p)
  <2>1. rom[p].op = "BR" => rom[p].imm \in Pc
    BY <1>1, CoreAssumption
  <2>2. Code[p].op = "BR" /\ ~(Code[p].imm <= p)
    BY DEF IsIf, IsLoopBranch
  <2>3. Code[p].op = IF rom[p].op \in {"BR", "SYNC", "RET"} THEN rom[p].op ELSE "OTHER"
    BY DEF Code, Skeleton
  <2>4. Code[p].imm = IF rom[p].op = "BR" THEN rom[p].imm ELSE 0
    BY DEF Code, Skeleton
  <2>5. Code[p].imm \in Pc
    BY <2>1, <2>2, <2>3, <2>4
  <2> QED BY <1>1, <2>2, <2>5 DEF Skip, Pc
<1>4. \A q \in Nat : q < PcSize - 1 => q + 1 = (q + 1) % PcSize
  BY <1>1
<1>5. \A q \in p + 1 .. Skip(p) - 1 : rom[q].op \notin {"ADDB", "WBASE"}
  BY <1>1 DEF Disciplined, Code, Skip
<1> QED BY <1>1, <1>2, <1>3, <1>4, <1>5 DEF Structured, Skip, IsLoopBranch, Pc

\* The instruction in EXECUTE and what the program's layout says of it.
LEMMA ExecuteControl ==
  ASSUME IInv, CurrentLive, core_state = "EXECUTE"
  PROVE  LET p == warp_pc[current_warp]
         IN /\ p \in Pc /\ instruction = rom[p] /\ instruction \in Instr
            /\ Code[p].op = IF instruction.op \in {"BR", "SYNC", "RET"} THEN instruction.op ELSE "OTHER"
            /\ Code[p].op = "BR" => Code[p].imm = instruction.imm
            /\ decoded.imm = instruction.imm /\ decoded.nzp = instruction.nzp
            /\ Decoded("pc_mux") <=> instruction.op = "BR"
            /\ Decoded("sync") <=> instruction.op = "SYNC"
            /\ Decoded("ret") <=> instruction.op = "RET"
<1>1. warp_pc[current_warp] \in Pc /\ instruction = rom[warp_pc[current_warp]]
  BY DEF IInv, Typed, SchedTyped, WarpsTyped, Pipeline, Latched
<1>2. PICK p \in Pc : p = warp_pc[current_warp]
  BY <1>1
<1>3. /\ instruction \in Instr
      /\ decoded.imm = instruction.imm /\ decoded.nzp = instruction.nzp
      /\ Decoded("pc_mux") <=> instruction.op = "BR"
      /\ Decoded("sync") <=> instruction.op = "SYNC"
      /\ Decoded("ret") <=> instruction.op = "RET"
  BY UpdateControl
<1>4. /\ Code[p].op = IF rom[p].op \in {"BR", "SYNC", "RET"} THEN rom[p].op ELSE "OTHER"
      /\ Code[p].imm = IF rom[p].op = "BR" THEN rom[p].imm ELSE 0
  BY DEF Code, Skeleton
<1> QED BY <1>1, <1>2, <1>3, <1>4

\* A vote of pc.sv for the branch at which a thread stands is the branch of the thread.
LEMMA VoteIsBranch ==
  ASSUME IInv, NEW d \in [Threads -> Thread], Sim(d), NEW l \in Threads, WarpOf(l) = current_warp,
         core_state = "EXECUTE", rom[d[l].pc] = instruction, instruction.op = "BR"
  PROVE  l \in Votes <=> Ref!FlagBit[d[l].flag] \in instruction.nzp
<1>1. decoded.nzp = instruction.nzp /\ l \in Lanes
  BY UpdateControl, ThreadsAre
<1>2. l \in Votes <=> nzp[l] \cap instruction.nzp # {}
  BY <1>1 DEF Votes, LanesOf
<1> QED BY <1>2 DEF Sim, VoteSim

\* Where a thread stands after EXECUTE of its warp, by the mask of before.
LEMMA AtMoves ==
  ASSUME IInv, CurrentLive, NEW d \in [Threads -> Thread], Sim(d), Execute, NEW e, e = Moved(d),
         NEW w \in Warps, w = current_warp, NEW l \in LaunchMask(w), instruction.op # "RET"
  PROVE  At(e, l)' = IF l \notin active_mask[w] THEN At(d, l)
                     ELSE IF instruction.op = "BR" /\ l \in Votes THEN instruction.imm ELSE NextPc
<1>0. Next /\ core_state = "EXECUTE" /\ core_state' = "UPDATE" /\ current_warp' = w
  BY DEF Next, Execute, GoTo
<1>1. l \in Threads /\ d[l] \in Thread /\ WarpOf(l) = w
  BY ThreadsAre
<1>2. instruction' = instruction /\ instruction \in Instr
  BY <1>0, ExecuteControl, EveryStep DEF DataPath, FetchAndDecode
<1>3. At(d, l) = d[l].pc
  BY <1>0 DEF At, Pending
<1>4. instruction.op \notin Moving => active_mask'[w] = active_mask[w]
  <2>1. instruction.op \notin Moving => ~Decoded("sync") /\ ~Decoded("pc_mux")
    BY <1>0, ExecuteControl DEF Moving
  <2>2. active_mask \in [Warps -> SUBSET Lanes]
    BY DEF IInv, Typed, WarpsTyped
  <2> QED BY <2>1, <2>2 DEF Execute, SetWarp
<1>5. Pending(l)' <=> instruction.op \notin Moving /\ l \in active_mask[w]
  BY <1>0, <1>2, <1>4 DEF Pending, Awake
<1>6. Steps(l) <=> instruction.op \in Moving /\ l \in active_mask[w]
  BY <1>0 DEF Steps, Awake
<1>7. At(e, l)' = IF Pending(l)' THEN After(e[l], instruction).pc ELSE e[l].pc
  <2>1. At(e, l)' = IF Pending(l)' THEN After(e[l], instruction').pc ELSE e[l].pc
    BY DEF At, After, Ref!Stepped
  <2> QED BY <1>2, <2>1
<1>8. At(e, l)' = IF l \in active_mask[w] THEN After(d[l], instruction).pc ELSE d[l].pc
  BY <1>1, <1>5, <1>6, <1>7 DEF Moved
<1>9. ASSUME l \in active_mask[w]
      PROVE  After(d[l], instruction).pc = IF instruction.op = "BR" /\ l \in Votes THEN instruction.imm ELSE NextPc
  <2>1. d[l].pc = warp_pc[w]
    <3>1. InStep(d, w)
      BY <1>0 DEF Sim, WarpSim, Retired, CurrentLive
    <3> QED BY <1>3, <1>9, <3>1 DEF InStep, Together, Parted, InBody
  <2>2. Beyond(d[l]) = NextPc
    BY <2>1 DEF Beyond, NextPc
  <2>3. CASE instruction.op = "BR"
    <3> DEFINE t == d[l]
               i == instruction
    <3>0. rom[t.pc] = i
      BY <1>0, <2>1, ExecuteControl
    <3>1. l \in Votes <=> Ref!FlagBit[t.flag] \in i.nzp
      BY <1>0, <1>1, <2>3, <3>0, VoteIsBranch
    <3>2. After(t, i) = [t EXCEPT !.pc = Target(t, i)]
      BY <1>1, <1>2, <2>3, AfterBranch
    <3>3. Target(t, i) = IF l \in Votes THEN i.imm ELSE NextPc
      BY <2>2, <3>1 DEF Target
    <3> HIDE DEF t, i
    <3>4. After(t, i).pc = Target(t, i)
      BY <1>1, <3>2 DEF Thread, t
    <3> QED BY <2>3, <3>3, <3>4 DEF t, i
  <2>4. CASE instruction.op # "BR"
    BY <1>1, <1>2, <2>2, <2>4, AfterKeeps
  <2> QED BY <2>3, <2>4
<1> QED BY <1>3, <1>8, <1>9

\* What EXECUTE does to the current warp.
LEMMA ExecuteMoves ==
  ASSUME IInv, CurrentLive, Execute, NEW w \in Warps, w = current_warp
  PROVE  LET p == warp_pc[w]
             s == stack[w]
             i == instruction
         IN /\ rom' = rom /\ core_state = "EXECUTE"
            /\ i.op = "SYNC" /\ s # << >> =>
                 /\ warp_pc'[w] = s[Len(s)].pc /\ active_mask'[w] = s[Len(s)].mask
                 /\ stack'[w] = SubSeq(s, 1, Len(s) - 1) /\ base_mask'[w] = base_mask[w]
            /\ i.op = "SYNC" /\ s = << >> =>
                 /\ warp_pc'[w] = NextPc /\ active_mask'[w] = base_mask[w]
                 /\ stack'[w] = << >> /\ base_mask'[w] = base_mask[w]
            /\ i.op = "BR" /\ Branch # {} /\ Stay # {} =>
                 /\ warp_pc'[w] = i.imm /\ active_mask'[w] = Branch
                 /\ stack'[w] = Push(s, [pc |-> NextPc, mask |-> Stay])
                 /\ base_mask'[w] = IF s = << >> THEN active_mask[w] ELSE base_mask[w]
            /\ i.op = "BR" /\ (Branch = {} \/ Stay = {}) =>
                 /\ warp_pc'[w] = IF Branch # {} THEN i.imm ELSE NextPc
                 /\ active_mask'[w] = active_mask[w]
                 /\ stack'[w] = s /\ base_mask'[w] = base_mask[w]
            /\ i.op \notin {"BR", "SYNC"} =>
                 /\ warp_pc'[w] = NextPc /\ active_mask'[w] = active_mask[w]
                 /\ stack'[w] = s /\ base_mask'[w] = base_mask[w]
<1>1. core_state = "EXECUTE" /\ rom' = rom
  BY EveryStep DEF Execute, Next, DataPath, FetchAndDecode
<1>2. /\ Decoded("pc_mux") <=> instruction.op = "BR"
      /\ Decoded("sync") <=> instruction.op = "SYNC"
      /\ decoded.imm = instruction.imm
  BY <1>1, ExecuteControl
<1>3. /\ warp_pc \in [Warps -> Pc] /\ active_mask \in [Warps -> SUBSET Lanes]
      /\ base_mask \in [Warps -> SUBSET Lanes] /\ stack \in [Warps -> Seq(Frame)]
  BY DEF IInv, Typed, WarpsTyped
<1>4. \A pc, mask, frames : SetWarp(pc, mask, frames) =>
        warp_pc'[w] = pc /\ active_mask'[w] = mask /\ stack'[w] = frames
  BY <1>3 DEF SetWarp
<1>5. CASE /\ Decoded("sync") /\ stack[w] # << >>
           /\ SetWarp(stack[w][Len(stack[w])].pc, stack[w][Len(stack[w])].mask, SubSeq(stack[w], 1, Len(stack[w]) - 1))
           /\ UNCHANGED base_mask
  BY <1>1, <1>2, <1>4, <1>5
<1>6. CASE /\ Decoded("sync") /\ stack[w] = << >>
           /\ SetWarp(NextPc, base_mask[w], stack[w]) /\ UNCHANGED base_mask
  BY <1>1, <1>2, <1>4, <1>6
<1>7. CASE /\ Decoded("pc_mux") /\ Branch # {} /\ Stay # {}
           /\ SetWarp(decoded.imm, Branch, Push(stack[w], [pc |-> NextPc, mask |-> Stay]))
           /\ base_mask' = IF stack[w] = << >> THEN [base_mask EXCEPT ![w] = active_mask[w]] ELSE base_mask
  <2>1. base_mask'[w] = IF stack[w] = << >> THEN active_mask[w] ELSE base_mask[w]
    BY <1>3, <1>7
  <2> QED BY <1>1, <1>2, <1>4, <1>7, <2>1
<1>8. CASE /\ Decoded("pc_mux") /\ (Branch = {} \/ Stay = {})
           /\ SetWarp(IF Branch # {} THEN decoded.imm ELSE NextPc, active_mask[w], stack[w])
           /\ UNCHANGED base_mask
  BY <1>1, <1>2, <1>4, <1>8
<1>9. CASE /\ ~Decoded("sync") /\ ~Decoded("pc_mux")
           /\ SetWarp(NextPc, active_mask[w], stack[w]) /\ UNCHANGED base_mask
  BY <1>1, <1>2, <1>4, <1>9
<1> QED BY <1>5, <1>6, <1>7, <1>8, <1>9 DEF Execute

\* A stack of one frame is empty after the pop, and has one frame after the push
\* on the empty one.
LEMMA OneFrame ==
  ASSUME NEW f
  PROVE  /\ Len(<< f >>) = 1 /\ << f >>[1] = f /\ << f >> # << >>
         /\ SubSeq(<< f >>, 1, Len(<< f >>) - 1) = << >>
         /\ SDEPTH > 1 => Push(<< >>, f) = << f >>
<1>1. Len(<< f >>) = 1 /\ << f >>[1] = f /\ << f >> # << >> /\ Append(<< >>, f) = << f >> /\ Len(<< >>) = 0
  OBVIOUS
<1>2. SubSeq(<< f >>, 1, 0) = << >>
  OBVIOUS
<1>3. SDEPTH \in Nat
  BY Sizes
<1> QED BY <1>1, <1>2, <1>3 DEF Push

\* EXECUTE, of a warp whose threads are all together.
LEMMA TogetherMoves ==
  ASSUME IInv, CurrentLive, Kernels, LoopsAgree, NEW d \in [Threads -> Thread], Sim(d), Execute,
         NEW e, e = Moved(d), NEW w \in Warps, w = current_warp, instruction.op # "RET",
         base_mask[w] = LaunchMask(w), Together(d, w)
  PROVE  InStep(e, w)'
<1> DEFINE i == instruction
<1>0. PICK p \in Pc : p = warp_pc[w]
  BY DEF IInv, Typed, WarpsTyped
<1>1. /\ rom' = rom /\ Code' = Code /\ core_state = "EXECUTE" /\ p \in Pc /\ i \in Instr
      /\ Code[p].op = IF i.op \in {"BR", "SYNC", "RET"} THEN i.op ELSE "OTHER"
      /\ Code[p].op = "BR" => Code[p].imm = i.imm
  BY <1>0, ExecuteMoves, ExecuteControl DEF Code, Skeleton
<1>2. stack[w] = << >> /\ active_mask[w] = LaunchMask(w)
  BY DEF Together
<1>3. \A l \in LaunchMask(w) :
        At(e, l)' = IF i.op = "BR" /\ l \in Votes THEN i.imm ELSE NextPc
  BY <1>2, AtMoves
<1>4. Branch = LaunchMask(w) \cap Votes /\ Stay = LaunchMask(w) \ Votes
  BY <1>2 DEF Branch, Stay
<1> HIDE DEF i
<1>5. CASE i.op # "BR"
  <2>1. /\ warp_pc'[w] = NextPc /\ active_mask'[w] = LaunchMask(w) /\ stack'[w] = << >>
        /\ base_mask'[w] = LaunchMask(w)
    BY <1>2, <1>5, ExecuteMoves DEF i
  <2> QED BY <1>3, <1>5, <2>1 DEF InStep, Together
<1>6. CASE i.op = "BR" /\ (Branch = {} \/ Stay = {})
  <2>1. /\ warp_pc'[w] = IF Branch # {} THEN i.imm ELSE NextPc
        /\ active_mask'[w] = LaunchMask(w) /\ stack'[w] = << >> /\ base_mask'[w] = LaunchMask(w)
    BY <1>2, <1>6, ExecuteMoves DEF i
  <2>2. \A l \in LaunchMask(w) : At(e, l)' = warp_pc'[w]
    BY <1>3, <1>4, <1>6, <2>1
  <2> QED BY <2>1, <2>2 DEF InStep, Together
<1>7. CASE i.op = "BR" /\ Branch # {} /\ Stay # {}
  <2>1. /\ warp_pc'[w] = i.imm /\ active_mask'[w] = Branch
        /\ stack'[w] = Push(<< >>, [pc |-> NextPc, mask |-> Stay]) /\ base_mask'[w] = LaunchMask(w)
    BY <1>2, <1>7, ExecuteMoves DEF i
  <2>2. IsIf(Code, p)
    BY <1>0, <1>1, <1>7 DEF IsIf, LoopsAgree, Code
  <2>3. NextPc = p + 1 /\ Skip(p) = i.imm
    BY <1>0, <1>1, <1>7, <2>2, LayoutOf DEF NextPc, Skip, IInv
  <2>4. Stay = LaunchMask(w) \ active_mask'[w]
    BY <1>4, <2>1
  <2>5. stack'[w] = <<[pc |-> p + 1, mask |-> LaunchMask(w) \ active_mask'[w]]>>
    BY <2>1, <2>3, <2>4, OneFrame DEF Kernels
  <2>6. \A l \in LaunchMask(w) : At(e, l)' = IF l \in active_mask'[w] THEN warp_pc'[w] ELSE p + 1
    BY <1>3, <1>4, <1>7, <2>1, <2>3
  <2>7. Skip(p)' = Skip(p) /\ IsIf(Code, p)'
    BY <1>1, <2>2 DEF Skip, IsIf, IsLoopBranch
  <2>8. Parted(e, w, p)'
    BY <2>1, <2>3, <2>5, <2>6, <2>7 DEF Parted
  <2> QED BY <1>1, <2>1, <2>7, <2>8 DEF InStep
<1> QED BY <1>5, <1>6, <1>7

\* EXECUTE, of a warp whose threads are parted over an if.
LEMMA PartedMoves ==
  ASSUME IInv, CurrentLive, Kernels, NEW d \in [Threads -> Thread], Sim(d), Execute,
         NEW e, e = Moved(d), NEW w \in Warps, w = current_warp, instruction.op # "RET",
         base_mask[w] = LaunchMask(w), NEW p \in Pc, IsIf(Code, p), Parted(d, w, p)
  PROVE  InStep(e, w)'
<1>1. /\ rom' = rom /\ Code' = Code /\ Skip(p) \in Nat /\ p \in Nat /\ p < Skip(p)
      /\ warp_pc[w] = Skip(p) /\ Code[Skip(p)].op = "SYNC"
  BY ExecuteMoves, LayoutOf DEF Code, Skeleton, IInv, Parted, Pc
<1>2. instruction.op = "SYNC"
  BY <1>1, ExecuteControl, ExecuteMoves
<1>3. stack[w] = <<[pc |-> p + 1, mask |-> LaunchMask(w) \ active_mask[w]]>>
  BY DEF Parted
<1> DEFINE f == [pc |-> p + 1, mask |-> LaunchMask(w) \ active_mask[w]]
<1>4. /\ stack[w] # << >> /\ stack[w][Len(stack[w])] = f
      /\ SubSeq(stack[w], 1, Len(stack[w]) - 1) = << >>
  <2> HIDE DEF f
  <2> QED BY <1>3, OneFrame DEF f
<1>5. /\ warp_pc'[w] = p + 1 /\ active_mask'[w] = LaunchMask(w) \ active_mask[w]
      /\ stack'[w] = << >> /\ base_mask'[w] = LaunchMask(w)
  <2>1. f.pc = p + 1 /\ f.mask = LaunchMask(w) \ active_mask[w]
    OBVIOUS
  <2> HIDE DEF f
  <2>2. /\ warp_pc'[w] = f.pc /\ active_mask'[w] = f.mask
        /\ stack'[w] = << >> /\ base_mask'[w] = LaunchMask(w)
    BY <1>2, <1>4, ExecuteMoves
  <2> QED BY <2>1, <2>2
<1>6. NextPc = Join(p)
  BY <1>1 DEF NextPc, Join
<1>7. \A l \in LaunchMask(w) : At(e, l)' = IF l \notin active_mask[w] THEN At(d, l) ELSE NextPc
  BY <1>2, AtMoves
<1>8. \A l \in LaunchMask(w) : At(e, l)' = IF l \in active_mask'[w] THEN warp_pc'[w] ELSE Join(p)
  BY <1>5, <1>6, <1>7 DEF Parted
<1>9. p + 1 \in p + 1 .. Skip(p)
  BY <1>1
<1>10. Skip(p)' = Skip(p) /\ Join(p)' = Join(p) /\ IsIf(Code, p)'
  BY <1>1 DEF Skip, Join, IsIf, IsLoopBranch
<1>11. InBody(e, w, p)'
  BY <1>5, <1>8, <1>9, <1>10 DEF InBody
<1> QED BY <1>5, <1>10, <1>11 DEF InStep

\* EXECUTE, of a warp in the body of an if that not all threads entered.
LEMMA InBodyMoves ==
  ASSUME IInv, CurrentLive, Kernels, LoopsAgree, NEW d \in [Threads -> Thread], Sim(d), Execute,
         NEW e, e = Moved(d), NEW w \in Warps, w = current_warp, instruction.op # "RET",
         active_mask[w] \subseteq LaunchMask(w),
         base_mask[w] = LaunchMask(w), NEW p \in Pc, IsIf(Code, p), InBody(d, w, p)
  PROVE  InStep(e, w)'
<1> DEFINE q == warp_pc[w]
           i == instruction
<1>1. /\ rom' = rom /\ Code' = Code /\ core_state = "EXECUTE" /\ q \in Pc /\ i \in Instr
      /\ Code[q].op = IF i.op \in {"BR", "SYNC", "RET"} THEN i.op ELSE "OTHER"
      /\ Code[q].op = "BR" => Code[q].imm = i.imm
  BY ExecuteMoves, ExecuteControl DEF Code, Skeleton
<1>2. /\ Skip(p) \in Nat /\ p \in Nat /\ q \in Nat /\ stack[w] = << >>
      /\ q \in p + 1 .. Skip(p)
  BY <1>1, LayoutOf DEF Pc, InBody, IInv
<1>3. \A l \in LaunchMask(w) :
        At(e, l)' = IF l \notin active_mask[w] THEN At(d, l)
                    ELSE IF i.op = "BR" /\ l \in Votes THEN i.imm ELSE NextPc
  BY AtMoves
<1>4. Skip(p)' = Skip(p) /\ Join(p)' = Join(p) /\ IsIf(Code, p)'
  BY <1>1 DEF Skip, Join, IsIf, IsLoopBranch
<1>5. CASE q = Skip(p)
  <2>1. i.op = "SYNC"
    BY <1>1, <1>5, LayoutOf DEF IInv
  <2>2. /\ warp_pc'[w] = NextPc /\ active_mask'[w] = LaunchMask(w) /\ stack'[w] = << >>
        /\ base_mask'[w] = LaunchMask(w)
    BY <1>2, <2>1, ExecuteMoves
  <2>3. NextPc = Join(p)
    BY <1>5 DEF NextPc, Join
  <2>4. \A l \in LaunchMask(w) : At(e, l)' = warp_pc'[w]
    BY <1>3, <2>1, <2>2, <2>3 DEF InBody
  <2> QED BY <2>2, <2>4 DEF InStep, Together
<1>6. CASE q # Skip(p)
  <2>1. q \in p + 1 .. Skip(p) - 1
    BY <1>2, <1>6
  <2>2. /\ NextPc = q + 1
        /\ Code[q].op = "OTHER" \/ (IsLoopBranch(Code, q) /\ Code[q].op = "BR" /\ i.imm \in p + 1 .. Skip(p))
    BY <1>1, <2>1, LayoutOf DEF NextPc, IInv
  <2>3. NextPc \in p + 1 .. Skip(p)
    BY <1>2, <2>1, <2>2
  <2>4. /\ active_mask'[w] = active_mask[w] /\ stack'[w] = << >> /\ base_mask'[w] = LaunchMask(w)
        /\ warp_pc'[w] \in p + 1 .. Skip(p)
        /\ \A l \in LaunchMask(w) : At(e, l)' = IF l \in active_mask[w] THEN warp_pc'[w] ELSE Join(p)
    <3>1. CASE Code[q].op = "OTHER"
      <4>1. i.op \notin {"BR", "SYNC", "RET"}
        BY <1>1, <3>1
      <4>2. /\ warp_pc'[w] = NextPc /\ active_mask'[w] = active_mask[w]
            /\ stack'[w] = << >> /\ base_mask'[w] = LaunchMask(w)
        BY <1>2, <4>1, ExecuteMoves
      <4> QED BY <1>3, <2>3, <4>1, <4>2 DEF InBody
    <3>2. CASE IsLoopBranch(Code, q) /\ Code[q].op = "BR" /\ i.imm \in p + 1 .. Skip(p)
      <4>1. i.op = "BR"
        BY <1>1, <3>2
      <4>2. Branch = {} \/ Stay = {}
        BY <1>1, <3>2 DEF LoopsAgree, Code
      <4>3. /\ warp_pc'[w] = IF Branch # {} THEN i.imm ELSE NextPc
            /\ active_mask'[w] = active_mask[w] /\ stack'[w] = << >> /\ base_mask'[w] = LaunchMask(w)
        BY <1>2, <4>1, <4>2, ExecuteMoves
      <4>4. Branch = active_mask[w] \cap Votes /\ Stay = active_mask[w] \ Votes
        BY DEF Branch, Stay
      <4>5. \A l \in LaunchMask(w) : At(e, l)' = IF l \in active_mask[w] THEN warp_pc'[w] ELSE Join(p)
        BY <1>3, <4>1, <4>2, <4>3, <4>4 DEF InBody
      <4> QED BY <2>3, <3>2, <4>3, <4>5
    <3> QED BY <2>2, <3>1, <3>2
  <2> HIDE DEF q, i
  <2>5. InBody(e, w, p)'
    BY <1>4, <2>4 DEF InBody
  <2> QED BY <1>4, <2>4, <2>5 DEF InStep
<1> QED BY <1>5, <1>6

\* A warp meets a RET, or what moves the base pointers, with all its
\* threads awake.
LEMMA MeetsTogether ==
  ASSUME IInv, CurrentLive, Kernels, NEW d \in [Threads -> Thread], NEW w \in Warps, w = current_warp,
         core_state = "EXECUTE", InStep(d, w), instruction.op \in {"ADDB", "WBASE", "RET"}
  PROVE  Together(d, w)
<1>1. /\ instruction = rom[warp_pc[w]] /\ warp_pc[w] \in Pc
      /\ Code[warp_pc[w]].op = IF instruction.op = "RET" THEN "RET" ELSE "OTHER"
  BY ExecuteControl
<1>2. ASSUME NEW p \in Pc, IsIf(Code, p), Parted(d, w, p) \/ InBody(d, w, p)
      PROVE  FALSE
  <2>1. /\ Code[Skip(p)].op = "SYNC"
        /\ Skip(p) \in Nat /\ p \in Nat
        /\ \A q \in p + 1 .. Skip(p) - 1 :
             rom[q].op \notin {"ADDB", "WBASE"} /\ Code[q].op \in {"OTHER", "BR"}
    BY <1>2, LayoutOf DEF Pc, IInv
  <2>2. warp_pc[w] = Skip(p) \/ warp_pc[w] \in p + 1 .. Skip(p) - 1
    BY <1>2, <2>1 DEF Parted, InBody
  <2> QED BY <1>1, <2>1, <2>2
<1> QED BY <1>2 DEF InStep

\* EXECUTE, of its own warp.
LEMMA BusyWarp ==
  ASSUME IInv, CurrentLive, Kernels, LoopsAgree, NEW d \in [Threads -> Thread], Sim(d), Execute,
         NEW e, e = Moved(d), NEW w \in Warps, w = current_warp
  PROVE  WarpSim(e, w)' /\ InStep(d, w)
<1>0. Next /\ core_state = "EXECUTE" /\ warp_status[w] = "READY"
  BY DEF Next, Execute, CurrentLive
<1>1. ~Retired(w) /\ WarpSim(d, w)
  BY <1>0 DEF Retired, Sim
<1>2. InStep(d, w) /\ active_mask[w] \subseteq LaunchMask(w) /\ base_mask[w] = LaunchMask(w)
  BY <1>1 DEF WarpSim, InStep
<1>3. active_mask'[w] \subseteq LaunchMask(w)
  <2>1. Branch \subseteq active_mask[w]
    BY DEF Branch
  <2>2. CASE instruction.op = "SYNC" /\ stack[w] # << >>
    <3>1. PICK p \in Pc : Parted(d, w, p)
      BY <1>2, <2>2 DEF InStep, Together, InBody
    <3> DEFINE f == [pc |-> p + 1, mask |-> LaunchMask(w) \ active_mask[w]]
    <3>2. stack[w] = << f >> /\ f.mask \subseteq LaunchMask(w)
      BY <3>1 DEF Parted
    <3> HIDE DEF f
    <3>3. stack[w][Len(stack[w])] = f
      BY <3>2, OneFrame
    <3> QED BY <2>2, <3>2, <3>3, ExecuteMoves
  <2>3. CASE ~(instruction.op = "SYNC" /\ stack[w] # << >>)
    BY <1>2, <2>1, <2>3, ExecuteMoves
  <2> QED BY <2>2, <2>3
<1>4. \A l \in LaunchMask(w) : e[l].halted <=> warp_status'[w] = "DONE"
  BY <1>0, HaltedMoves
<1>5. ASSUME ~Retired(w)' PROVE InStep(e, w)'
  <2>1. instruction.op # "RET"
    BY <1>0, <1>5, RetiredMoves, ExecuteControl
  <2> QED BY <1>2, <2>1, TogetherMoves, PartedMoves, InBodyMoves DEF InStep
<1> QED BY <1>2, <1>3, <1>4, <1>5 DEF WarpSim

\* Every cycle leaves the threads of every warp where its masks say.
LEMMA WarpSimStep ==
  ASSUME IInv, CurrentLive, Kernels, LoopsAgree, NEW d \in [Threads -> Thread], Sim(d), Next,
         NEW e, e = Moved(d), NEW w \in Warps
  PROVE  WarpSim(e, w)'
BY BusyWarp, QuietWarp

\* An instruction comes to UPDATE with the threads whose it is.
LEMMA UpdateSimStep ==
  ASSUME IInv, CurrentLive, Kernels, LoopsAgree, NEW d \in [Threads -> Thread], Sim(d), Next,
         NEW e, e = Moved(d)
  PROVE  UpdateSim(e)'
<1> SUFFICES ASSUME core_state' = "UPDATE"
             PROVE  /\ \A l \in Threads : Pending(l)' => rom'[e[l].pc] = instruction'
                    /\ instruction'.op \in {"ADDB", "WBASE", "RET"} =>
                         active_mask'[current_warp'] = LaunchMask(current_warp')
  BY DEF UpdateSim, LaunchMask
<1>1. Execute
  BY DEF Next, Idle, SelectWarp, Fetch, Decode, Request, Stall, Park, Proceed, Update, Finished, GoTo
<1>2. PICK w \in Warps : w = current_warp
  BY DEF IInv, Typed, SchedTyped
<1>3. current_warp' = w /\ core_state = "EXECUTE" /\ InStep(d, w)
  BY <1>1, <1>2, BusyWarp DEF Execute
<1>4. rom' = rom /\ instruction' = instruction /\ instruction = rom[warp_pc[w]]
  BY <1>2, <1>3, ExecuteControl, EveryStep DEF DataPath, FetchAndDecode
<1>5. instruction.op \notin Moving => active_mask'[w] = active_mask[w]
  BY <1>1, <1>2, ExecuteMoves DEF Moving
<1>6. ASSUME NEW l \in Threads, Pending(l)' PROVE rom'[e[l].pc] = instruction'
  <2>1. instruction.op \notin Moving /\ l \in active_mask[w]
    BY <1>3, <1>4, <1>5, <1>6 DEF Pending, Awake
  <2>2. e[l] = d[l]
    BY <1>3, <2>1 DEF Moved, Steps
  <2>3. l \in LaunchMask(w) /\ At(d, l) = d[l].pc
    BY <1>3, <2>1 DEF Sim, WarpSim, At, Pending
  <2>4. d[l].pc = warp_pc[w]
    BY <1>3, <2>1, <2>3 DEF InStep, Together, Parted, InBody
  <2> QED BY <1>4, <2>2, <2>4
<1>7. ASSUME instruction'.op \in {"ADDB", "WBASE", "RET"}
      PROVE  active_mask'[current_warp'] = LaunchMask(current_warp')
  <2>1. Together(d, w)
    BY <1>2, <1>3, <1>4, <1>7, MeetsTogether
  <2> QED BY <1>3, <1>4, <1>5, <1>7, <2>1 DEF Together, Moving
<1> QED BY <1>6, <1>7

\* The bytes that the UART has sent.
SentTyped == sent \in [Warps -> Seq(Byte)]

\* The UART sends bytes.
LEMMA SentTypedStep ==
  ASSUME IInv, SentTyped, Next
  PROVE  SentTyped'
<1>1. Uart /\ emit_owner \in Warps
  BY EveryStep DEF DataPath, IInv, Typed, EmitTyped
<1>2. emit_data \in Byte
  BY <1>1, WarpsOfLanes DEF emit_data, IInv, Typed, GridTyped, LsuState
<1>3. Append(sent[emit_owner], emit_data) \in Seq(Byte)
  BY <1>1, <1>2 DEF SentTyped
<1> QED BY <1>1, <1>3 DEF Uart, SentTyped

\* The core is done with every warp done.
AllDone ==
  /\ core_state = "DONE" => \A w \in Warps : warp_status[w] = "DONE"
  /\ done => core_state = "DONE"

\* scheduler.sv: done is up from the cycle after DONE on.
LEMMA AllDoneStep ==
  ASSUME IInv, CurrentLive, AllDone, Next
  PROVE  AllDone'
<1>1. ASSUME core_state' = "DONE" PROVE \A w \in Warps : warp_status'[w] = "DONE"
  <2>1. SelectWarp \/ Finished
    BY <1>1 DEF Next, Idle, SelectWarp, Fetch, Decode, Request, Stall, Park, Proceed, Execute, Update,
                Finished, GoTo
  <2>2. \A w \in Warps : warp_status[w] = "DONE"
    BY <1>1, <2>1 DEF SelectWarp, Finished, GoTo, AllDone
  <2> QED BY <2>2, DoneMoves
<1>2. done' => core_state' = "DONE"
  <2>1. done' = (core_state = "DONE")
    BY DEF Next, Idle, SelectWarp, Fetch, Decode, Request, Stall, Park, Proceed, Execute, Update,
                Finished, GoTo
  <2>2. core_state = "DONE" => core_state' = "DONE"
    BY DEF Next, Idle, SelectWarp, Fetch, Decode, Request, Stall, Park, Proceed, Execute, Update,
                Finished, GoTo
  <2> QED BY <2>1, <2>2
<1> QED BY <1>1, <1>2 DEF AllDone

-----------------------------------------------------------------------------
(* 8. The flags: a CMP sets those of the masked lanes too, which is harmless *)
(* because every branch that asks for a flag comes right after its own CMP.   *)

\* A branch that asks for all flags or for none: the first flags decide it.
LEMMA AnyFlag ==
  ASSUME NEW n \in Bits3, NEW z \in Bits3, z \in {{}, 0 .. 2}, NEW f \in {"none", "N", "Z", "P"}, n = {} <=> f = "none"
  PROVE  n \cap z # {} <=> Ref!FlagBit[f] \in z
<1>1. Ref!FlagBit["N"] = 2 /\ Ref!FlagBit["Z"] = 1 /\ Ref!FlagBit["P"] = 0 /\ Ref!FlagBit["none"] = 3
  BY DEF Ref!FlagBit
<1>2. CASE z = {}
  BY <1>2
<1>3. CASE z = 0 .. 2
  <2>1. n \cap z = n
    BY <1>3 DEF Bits3
  <2>2. Ref!FlagBit[f] \in z <=> f # "none"
    BY <1>1, <1>3
  <2> QED BY <2>1, <2>2
<1> QED BY <1>2, <1>3

\* What the layout says of the branches that ask for a flag.
LEMMA ConditionalOf ==
  ASSUME Typed, Kernels, NEW p \in Pc, IsConditional(rom[p])
  PROVE  /\ p > 0 /\ rom[p - 1].op = "CMP"
         /\ \A q \in Pc : rom[q].op = "BR" => rom[q].imm # p
         /\ \A q \in Pc : rom[q].op # "CMP" => (q + 1) % PcSize # p
<1>1. Disciplined(rom) /\ PcSize \in Nat \ {0} /\ p \in Nat
  BY Sizes DEF Kernels, Typed, FrontTyped, Pc
<1>2. /\ p > 0 /\ rom[p - 1].op = "CMP"
      /\ \A q \in Pc : rom[q].op = "BR" => rom[q].imm # p
  BY <1>1 DEF Disciplined
<1>3. ASSUME NEW q \in Pc, (q + 1) % PcSize = p PROVE q = p - 1
  <2>1. q \in Nat /\ q < PcSize
    BY <1>1 DEF Pc
  <2>2. CASE q + 1 < PcSize
    <3>1. \A m \in Nat : m < PcSize => m % PcSize = m
      BY <1>1
    <3> QED BY <1>3, <2>1, <2>2, <3>1
  <2>3. CASE q + 1 = PcSize
    <3>1. PcSize % PcSize = 0
      BY <1>1
    <3> QED BY <1>2, <1>3, <2>3, <3>1
  <2> QED BY <1>1, <2>1, <2>2, <2>3
<1> QED BY <1>2, <1>3

\* A masked lane of a warp that runs has its thread where no branch asks for a flag:
\* behind the branch of the if, or behind its SYNC.
LEMMA SleeperRests ==
  ASSUME IInv, CurrentLive, Kernels, NEW d \in [Threads -> Thread], Sim(d), NEW w \in Warps, ~Retired(w),
         NEW l \in LaunchMask(w), l \notin active_mask[w], ~Pending(l)
  PROVE  ~IsConditional(rom[d[l].pc])
<1>1. PICK p \in Pc : IsIf(Code, p) /\ (Parted(d, w, p) \/ InBody(d, w, p))
  BY DEF Sim, WarpSim, InStep, Together
<1>2. At(d, l) = d[l].pc
  BY DEF At
<1>3. d[l].pc = p + 1 \/ d[l].pc = Join(p)
  BY <1>1, <1>2 DEF Parted, InBody
<1>4. /\ Skip(p) \in Pc /\ Code[Skip(p)].op = "SYNC" /\ p + 1 \in Pc /\ p + 1 = (p + 1) % PcSize
  BY <1>1, LayoutOf DEF IInv
<1>5. Code[p].op = "BR"
  BY <1>1 DEF IsIf
<1>6. rom[p].op # "CMP" /\ rom[Skip(p)].op # "CMP"
  BY <1>4, <1>5 DEF Code, Skeleton
<1>7. d[l].pc = (p + 1) % PcSize \/ d[l].pc = (Skip(p) + 1) % PcSize
  BY <1>3, <1>4 DEF Join
<1>8. d[l].pc \in Pc
  BY ThreadsAre DEF Thread
<1> QED BY <1>4, <1>6, <1>7, <1>8, ConditionalOf DEF IInv

\* pc.sv: a comparison, in any lane of the warp.
LEMMA CompareSets ==
  ASSUME IInv, core_state = "UPDATE", instruction.op = "CMP", NEW l \in Lanes
  PROVE  LowBits(AluOut(l)) # {}
<1>1. AluOut(l) \in {4, 2, 1}
  BY DEF AluOut
<1> QED BY <1>1, VerdictBits

\* What a cycle does to the flags of a lane and of its thread.
LEMMA FlagMoves ==
  ASSUME IInv, CurrentLive, PortsRead, NEW d \in [Threads -> Thread], Sim(d), Next, NEW e, e = Moved(d),
         NEW l \in Threads
  PROVE  IF core_state = "UPDATE" /\ instruction.op = "CMP" /\ WarpActive(l)
         THEN /\ nzp'[l] # {}
              /\ IF Awake(l) THEN nzp'[l] = {Ref!FlagBit[e[l].flag]} /\ e[l].flag # "none"
                 ELSE e[l] = d[l]
         ELSE nzp'[l] = nzp[l] /\ e[l].flag = d[l].flag
<1>1. l \in Lanes /\ d[l] \in Thread /\ instruction \in Instr
  BY ThreadsAre, ProgramTyped DEF IInv
<1>2. CASE core_state = "UPDATE" /\ instruction.op = "CMP" /\ WarpActive(l)
  <2>1. nzp'[l] # {}
    BY <1>1, <1>2, LaneUpdates, CompareSets
  <2>2. CASE Awake(l)
    <3>1. Steps(l)
      BY <1>2, <2>2 DEF Steps, Moving
    <3>2. e[l] = After(d[l], instruction)
      BY <3>1 DEF Moved
    <3> QED BY <1>2, <2>1, <2>2, <3>1, <3>2, ThreadUpdates
  <2>3. CASE ~Awake(l)
    BY <1>2, <2>1, <2>3 DEF Moved, Steps
  <2> QED BY <1>2, <2>2, <2>3
<1>3. CASE ~(core_state = "UPDATE" /\ instruction.op = "CMP" /\ WarpActive(l))
  <2>1. nzp'[l] = nzp[l]
    <3>1. CASE core_state = "UPDATE" /\ WarpActive(l)
      BY <1>1, <1>3, <3>1, LaneUpdates
    <3>2. CASE core_state # "UPDATE" \/ ~WarpActive(l)
      BY <1>1, <3>2, LaneQuiet
    <3> QED BY <3>1, <3>2
  <2>2. e[l].flag = d[l].flag
    <3>1. CASE Steps(l)
      <4>1. WarpActive(l)
        BY <3>1, StepsFacts
      <4>2. instruction.op # "CMP"
        BY <1>3, <3>1, <4>1 DEF Steps, Moving
      <4> QED BY <1>1, <3>1, <4>2, AfterKeeps DEF Moved
    <3>2. CASE ~Steps(l)
      BY <3>2 DEF Moved
    <3> QED BY <3>1, <3>2
  <2> QED BY <1>3, <2>1, <2>2
<1> QED BY <1>2, <1>3

\* A warp does not part before all its threads have compared.
LEMMA FlagsSimStep ==
  ASSUME IInv, CurrentLive, PortsRead, NEW d \in [Threads -> Thread], Sim(d), Next, NEW e, e = Moved(d),
         NEW w \in Warps
  PROVE  FlagsSim(e, w)'
<1>1. \A l \in LaunchMask(w) : l \in Threads /\ WarpOf(l) = w /\ l \in Lanes
  BY ThreadsAre
<1>2. FlagsSim(d, w)
  BY DEF Sim
<1>3. CASE core_state = "UPDATE" /\ instruction.op = "CMP" /\ w = current_warp
  <2>1. \A l \in LaunchMask(w) : WarpActive(l)
    BY <1>1, <1>3 DEF WarpActive
  <2>2. \A l \in LaunchMask(w) : nzp'[l] # {} /\ (IF Awake(l) THEN e[l].flag # "none" ELSE e[l] = d[l])
    BY <1>1, <1>3, <2>1, FlagMoves
  <2>3. \A l \in LaunchMask(w) : Awake(l) \/ d[l].flag # "none"
    BY <1>2, <1>3 DEF FlagsSim, Awake
  <2>4. \A l \in LaunchMask(w) : nzp'[l] # {} /\ e[l].flag # "none"
    BY <2>2, <2>3
  <2> QED BY <2>4 DEF FlagsSim
<1>4. CASE ~(core_state = "UPDATE" /\ instruction.op = "CMP" /\ w = current_warp)
  <2>1. \A l \in LaunchMask(w) : nzp'[l] = nzp[l] /\ e[l].flag = d[l].flag
    BY <1>1, <1>4, FlagMoves DEF WarpActive
  <2>2. CASE \A l \in LaunchMask(w) : nzp[l] # {} /\ d[l].flag # "none"
    BY <2>1, <2>2 DEF FlagsSim
  <2>3. CASE /\ stack[w] = << >> /\ active_mask[w] = LaunchMask(w)
             /\ \A l \in LaunchMask(w) : nzp[l] = {} /\ d[l].flag = "none"
    <3>1. stack'[w] = << >> /\ active_mask'[w] = LaunchMask(w)
      <4>1. CASE Execute /\ w = current_warp
        <5>1. ~Retired(w)
          BY <4>1 DEF Execute, Retired, CurrentLive
        <5>2. base_mask[w] = LaunchMask(w)
          BY <5>1 DEF Sim, WarpSim, InStep
        <5>3. Branch = {}
          BY <2>3, <4>1 DEF Branch, Votes
        <5> QED BY <2>3, <4>1, <5>2, <5>3, ExecuteMoves
      <4>2. CASE ~(Execute /\ w = current_warp)
        BY <2>3, <4>2, WarpStutters DEF Warp!vars
      <4> QED BY <4>1, <4>2
    <3> QED BY <2>1, <2>3, <3>1 DEF FlagsSim
  <2> QED BY <1>2, <2>2, <2>3 DEF FlagsSim
<1> QED BY <1>3, <1>4

\* An instruction other than a CMP takes its thread to no branch that asks for a flag.
LEMMA LandsUnconditional ==
  ASSUME IInv, CurrentLive, Kernels, NEW d \in [Threads -> Thread], Sim(d), NEW l \in Threads, Steps(l),
         instruction.op # "CMP"
  PROVE  ~IsConditional(rom[After(d[l], instruction).pc])
<1> DEFINE t == d[l]
           i == instruction
<1>1. t \in Thread /\ i \in Instr /\ rom[t.pc] = i /\ t.pc \in Pc /\ (i.op = "BR" => i.imm \in Pc)
  BY StepsFacts, ProgramTyped DEF IInv, Thread
<1>2. Beyond(t) = (t.pc + 1) % PcSize
  BY DEF Beyond
<1>3. Beyond(t) \in Pc
  <2>1. PcSize \in Nat \ {0} /\ t.pc \in Nat
    BY <1>1, Sizes DEF Pc
  <2> HIDE DEF t
  <2> QED BY <1>2, <2>1 DEF Pc
<1> HIDE DEF t, i
<1>4. ~IsConditional(rom[Beyond(t)])
  BY <1>1, <1>2, <1>3, ConditionalOf DEF IInv, i
<1>5. CASE i.op = "BR"
  <2>1. After(t, i) = [t EXCEPT !.pc = Target(t, i)]
    BY <1>1, <1>5, AfterBranch
  <2>2. After(t, i).pc = Target(t, i)
    BY <1>1, <2>1 DEF Thread
  <2>3. ~IsConditional(rom[i.imm])
    BY <1>1, <1>5, ConditionalOf DEF IInv
  <2> QED BY <1>4, <2>2, <2>3 DEF Target, t, i
<1>6. CASE i.op = "RET"
  <2>1. After(t, i) = [t EXCEPT !.halted = TRUE]
    BY <1>1, <1>6, AfterRet
  <2>2. After(t, i).pc = t.pc
    BY <1>1, <2>1 DEF Thread
  <2> QED BY <1>1, <1>6, <2>2 DEF IsConditional, t, i
<1>7. CASE i.op \notin {"BR", "RET"}
  <2>1. After(t, i).pc = Beyond(t)
    BY <1>1, <1>7, AfterKeeps
  <2> QED BY <1>4, <2>1 DEF t, i
<1> QED BY <1>5, <1>6, <1>7

\* pc.sv: a thread comes to a branch with the flags that the branch asks for.
LEMMA VoteSimStep ==
  ASSUME IInv, CurrentLive, PortsRead, Kernels, NEW d \in [Threads -> Thread], Sim(d), Next, NEW e, e = Moved(d)
  PROVE  VoteSim(e)'
<1>0. rom' = rom /\ Typed' /\ e \in [Threads -> Thread]
  BY EveryStep, TypedStep, RunsStep DEF DataPath, FetchAndDecode, IInv
<1> SUFFICES ASSUME NEW l \in Threads, NEW i, i = rom[e[l].pc], i.op = "BR"
             PROVE  nzp'[l] \cap i.nzp # {} <=> Ref!FlagBit[e[l].flag] \in i.nzp
  BY <1>0 DEF VoteSim
<1>1. PICK w \in Warps : w = WarpOf(l) /\ l \in LaunchMask(w) /\ l \in Lanes
  BY ThreadsAre
<1>2. /\ d[l] \in Thread /\ e[l] \in Thread /\ e[l].pc \in Pc /\ e[l].flag \in {"none", "N", "Z", "P"}
      /\ nzp'[l] \in Bits3 /\ i \in Instr /\ i.nzp \in Bits3
  <2>1. nzp' \in [Lanes -> Bits3]
    BY <1>0 DEF Typed, GridTyped
  <2>2. e[l] \in Thread /\ e[l].pc \in Pc /\ e[l].flag \in {"none", "N", "Z", "P"}
    BY <1>0 DEF Thread
  <2>3. i \in Instr
    BY <2>2, ProgramTyped DEF IInv
  <2> QED BY <1>1, <2>1, <2>2, <2>3 DEF Instr
<1>3. CASE ~IsConditional(i)
  <2>1. FlagsSim(e, w)'
    BY FlagsSimStep
  <2>2. nzp'[l] = {} <=> e[l].flag = "none"
    BY <1>1, <2>1 DEF FlagsSim, LaunchMask
  <2>3. i.nzp \in {{}, 0 .. 2}
    BY <1>3 DEF IsConditional
  <2> QED BY <1>2, <2>2, <2>3, AnyFlag
<1>4. CASE IsConditional(i) /\ core_state = "UPDATE" /\ instruction.op = "CMP" /\ WarpActive(l)
  <2>1. CASE Awake(l)
    <3>1. nzp'[l] = {Ref!FlagBit[e[l].flag]}
      BY <1>4, <2>1, FlagMoves
    <3> QED BY <3>1
  <2>2. CASE ~Awake(l)
    <3>1. e[l] = d[l]
      BY <1>4, <2>2, FlagMoves
    <3>2. w = current_warp
      BY <1>1, <1>4 DEF WarpActive
    <3>3. ~Decoded("ret")
      BY <1>4, UpdateControl
    <3>4. ~Retired(w)
      BY <1>4, <3>2, <3>3 DEF Retired, CurrentLive
    <3>5. ~IsConditional(rom[d[l].pc])
      BY <1>1, <2>2, <3>2, <3>4, SleeperRests DEF Awake, Pending
    <3> QED BY <1>4, <3>1, <3>5
  <2> QED BY <2>1, <2>2
<1>5. CASE IsConditional(i) /\ ~(core_state = "UPDATE" /\ instruction.op = "CMP" /\ WarpActive(l))
  <2>1. nzp'[l] = nzp[l] /\ e[l].flag = d[l].flag
    BY <1>5, FlagMoves
  <2>2. ~Steps(l)
    <3> SUFFICES ASSUME Steps(l) PROVE FALSE
      OBVIOUS
    <3>1. WarpActive(l)
      BY StepsFacts
    <3>2. instruction.op # "CMP"
      BY <1>5, <3>1 DEF Steps, Moving
    <3>3. e[l] = After(d[l], instruction)
      BY DEF Moved
    <3> QED BY <1>5, <3>2, <3>3, LandsUnconditional
  <2>3. e[l] = d[l]
    BY <2>2 DEF Moved
  <2> QED BY <2>1, <2>3 DEF Sim, VoteSim
<1> QED BY <1>3, <1>4, <1>5

-----------------------------------------------------------------------------
(* 9. The invariant, and what it says of a core that is done.                *)

\* As long as the threads do not race, each of them is on its run.
Simulated == NoRace => \E d \in [Threads -> Thread] : Sim(d)

\* The inductive invariant.
SInv == IInv /\ CurrentLive /\ PortsRead /\ SentTyped /\ AllDone /\ Simulated

\* A cycle moves the threads of the launch as Moved says.
LEMMA SimStep ==
  ASSUME IInv, CurrentLive, PortsRead, SentTyped, Kernels, LoopsAgree, NoRace,
         NEW d \in [Threads -> Thread], Sim(d), Next
  PROVE  \E e \in [Threads -> Thread] : Sim(e)'
<1>1. PICK e : e = Moved(d)
  OBVIOUS
<1>2. e \in [Threads -> Thread] /\ Runs(e)'
  BY <1>1, RunsStep
<1>3. RegsSim(e)'
  BY <1>1, RegsStep
<1>4. LsuSim(e)'
  BY <1>1, LsuSimStep
<1>5. MemSim(e)'
  BY <1>1, MemSimStep
<1>6. ReadSim(e)'
  BY <1>1, ReadSimStep
<1>7. SentSim(e)'
  BY <1>1, SentSimStep DEF SentTyped
<1>8. \A w \in Warps : WarpSim(e, w)'
  BY <1>1, WarpSimStep
<1>9. UpdateSim(e)'
  BY <1>1, UpdateSimStep
<1>10. VoteSim(e)' /\ \A w \in Warps : FlagsSim(e, w)'
  BY <1>1, VoteSimStep, FlagsSimStep
<1>11. Sim(e)'
  BY <1>2, <1>3, <1>4, <1>5, <1>6, <1>7, <1>8, <1>9, <1>10 DEF Sim
<1> QED BY <1>2, <1>11

\* A cycle that changes nothing keeps every thread where it is.
LEMMA SimStutters ==
  ASSUME NEW d \in [Threads -> Thread], Sim(d), UNCHANGED vars
  PROVE  Sim(d)'
<1>1. /\ rom' = rom /\ mem' = mem /\ core_state' = core_state /\ current_warp' = current_warp
      /\ warp_status' = warp_status /\ warp_pc' = warp_pc /\ active_mask' = active_mask /\ stack' = stack
      /\ base_mask' = base_mask /\ instruction' = instruction /\ decoded' = decoded
      /\ registers' = registers /\ nzp' = nzp /\ lsu' = lsu /\ base' = base /\ wbase' = wbase
      /\ rarb' = rarb /\ ready' = ready /\ mem_rdata' = mem_rdata
      /\ emit_owned' = emit_owned /\ emit_owner' = emit_owner /\ emit_ready' = emit_ready /\ sent' = sent
  BY DEF vars, sched, front, grid, memory, emit
<1>2. Runs(d)' /\ RegsSim(d)'
  BY <1>1 DEF Sim, Runs, RegsSim
<1>3. \A l \in Lanes : Serves(l, d[l])' <=> Serves(l, d[l])
  BY <1>1 DEF Serves
<1>4. LsuSim(d)'
  BY <1>1, <1>3, ThreadsAre DEF Sim, LsuSim
<1>5. \A l \in Threads : Settled(l, d[l])' = Settled(l, d[l])
  BY <1>1 DEF Settled, After
<1>6. MemSim(d)'
  BY <1>1, <1>5 DEF Sim, MemSim, Touched, Alone
<1>7. ReadSim(d)'
  BY <1>1 DEF Sim, ReadSim, Genuine
<1>8. SentSim(d)'
  BY <1>1 DEF Sim, SentSim, Sending, Settled, emit_valid, WarpEmit
<1>9. \A l \in Threads : At(d, l)' = At(d, l) /\ (Pending(l)' <=> Pending(l))
  BY <1>1 DEF At, Pending, Awake
<1>10. Code' = Code
  BY <1>1 DEF Code, Skeleton
<1>11. ASSUME NEW w \in Warps PROVE WarpSim(d, w)'
  <2>1. WarpSim(d, w) /\ \A l \in LaunchMask(w) : At(d, l)' = At(d, l)
    BY <1>9, ThreadsAre DEF Sim
  <2>2. Retired(w)' <=> Retired(w)
    BY <1>1 DEF Retired, Decoded
  <2>3. InStep(d, w) => InStep(d, w)'
    <3>1. Together(d, w) => Together(d, w)'
      BY <1>1, <2>1 DEF Together
    <3>2. ASSUME NEW p \in Pc, IsIf(Code, p), Parted(d, w, p) \/ InBody(d, w, p), InStep(d, w)
          PROVE  InStep(d, w)'
      <4>1. Skip(p)' = Skip(p) /\ Join(p)' = Join(p) /\ IsIf(Code, p)'
        BY <1>10, <3>2 DEF Skip, Join, IsIf, IsLoopBranch
      <4>2. (Parted(d, w, p) \/ InBody(d, w, p))'
        BY <1>1, <2>1, <3>2, <4>1 DEF Parted, InBody
      <4> QED BY <1>1, <3>2, <4>1, <4>2 DEF InStep
    <3> QED BY <1>1, <3>1, <3>2 DEF InStep
  <2> QED BY <1>1, <2>1, <2>2, <2>3 DEF WarpSim
<1>12. UpdateSim(d)'
  BY <1>1, <1>9 DEF Sim, UpdateSim
<1>13. VoteSim(d)' /\ \A w \in Warps : FlagsSim(d, w)'
  BY <1>1 DEF Sim, VoteSim, FlagsSim
<1> QED BY <1>2, <1>4, <1>6, <1>7, <1>8, <1>11, <1>12, <1>13 DEF Sim

\* Reset: every thread is before its first instruction.
LEMMA SimInit == Init => SInv
<1> SUFFICES ASSUME Init PROVE SInv
  OBVIOUS
<1>1. IInv /\ CurrentLive /\ PortsRead /\ AllDone
  BY IInvInit DEF Init, CurrentLive, PortsRead, AllDone
<1>2. SentTyped
  BY DEF Init, SentTyped
<1>3. PICK d : d = [l \in Threads |-> Ref!Fresh(l, LoadedData)]
  OBVIOUS
<1>4. \A l \in Threads : d[l] \in Thread /\ d[l] = Ref!Fresh(l, LoadedData) /\ OnRun(rom, l, d[l]) /\ l \in Lanes
  BY <1>3, FreshTyped, RunBegins, ThreadsAre
<1>5. \A l \in Threads :
        /\ d[l].pc = 0 /\ d[l].regs = [r \in Reg |-> 0] /\ d[l].flag = "none" /\ d[l].base = 0 /\ d[l].wbase = 0
        /\ d[l].mem = LoadedData /\ d[l].out = << >> /\ d[l].halted = FALSE
  <2> SUFFICES ASSUME NEW l \in Threads
               PROVE  /\ d[l].pc = 0 /\ d[l].regs = [r \in Reg |-> 0] /\ d[l].flag = "none" /\ d[l].base = 0 /\ d[l].wbase = 0
                      /\ d[l].mem = LoadedData /\ d[l].out = << >> /\ d[l].halted = FALSE
    OBVIOUS
  <2>1. d[l] = Ref!Fresh(l, LoadedData)
    BY <1>4
  <2> DEFINE s == Ref!Fresh(l, LoadedData)
  <2>2. /\ s.pc = 0 /\ s.regs = [r \in 0 .. NumRegs - 1 |-> 0] /\ s.flag = "none" /\ s.base = 0 /\ s.wbase = 0
        /\ s.mem = LoadedData /\ s.out = << >> /\ s.halted = FALSE
    BY DEF Ref!Fresh
  <2> HIDE DEF s
  <2> QED BY <2>1, <2>2 DEF Reg, s
<1>6. d \in [Threads -> Thread]
  BY <1>3, <1>4
<1>7. Runs(d) /\ RegsSim(d)
  BY <1>4, <1>5 DEF Init, Runs, RegsSim
<1>8. \A l \in Lanes : lsu[l].state = "IDLE" /\ lsu[l].req = "none"
  BY DEF Init, LsuIdle
<1>9. LsuSim(d) /\ \A l \in Threads : Settled(l, d[l]) = d[l]
  BY <1>4, <1>8 DEF LsuSim, Settled
<1>10. MemSim(d)
  BY <1>5, <1>9 DEF Init, MemSim
<1>11. ReadSim(d)
  BY DEF Init, ReadSim
<1>12. SentSim(d)
  BY <1>5, <1>9, ThreadsAre DEF Init, SentSim, Sending
<1>13. \A w \in Warps : WarpSim(d, w)
  <2> SUFFICES ASSUME NEW w \in Warps PROVE WarpSim(d, w)
    OBVIOUS
  <2>1. \A l \in LaunchMask(w) : At(d, l) = 0 /\ d[l].halted = FALSE
    BY <1>5, ThreadsAre DEF Init, At, Pending
  <2>2. InStep(d, w)
    BY <2>1 DEF Init, InStep, Together
  <2>3. warp_status[w] = IF LaunchMask(w) = {} THEN "DONE" ELSE "READY"
    BY DEF Init
  <2> QED BY <2>1, <2>2, <2>3 DEF Init, WarpSim
<1>14. UpdateSim(d)
  BY DEF Init, UpdateSim
<1>15. \A w \in Warps : FlagsSim(d, w)
  BY <1>5, ThreadsAre DEF Init, FlagsSim
<1>16. VoteSim(d)
  <2>1. Ref!FlagBit["none"] = 3 /\ \A l \in Threads : nzp[l] = {} /\ d[l].flag = "none"
    BY <1>4, <1>5 DEF Init, Ref!FlagBit
  <2>2. \A l \in Threads : 3 \notin rom[d[l].pc].nzp
    <3>1. \A l \in Threads : rom[d[l].pc].nzp \in Bits3
      BY <1>1, <1>4, ProgramTyped DEF IInv, Thread, Instr
    <3>2. \A z \in Bits3 : 3 \notin z
      BY DEF Bits3
    <3> QED BY <3>1, <3>2
  <2> QED BY <2>1, <2>2 DEF VoteSim
<1> QED BY <1>1, <1>2, <1>6, <1>7, <1>9, <1>10, <1>11, <1>12, <1>13, <1>14, <1>15, <1>16 DEF SInv, Simulated, Sim

\* The inductive step.
LEMMA SInvStep ==
  ASSUME Kernels, LoopsAgree, SInv, [Next]_vars
  PROVE  SInv'
<1>1. IInv' /\ rom' = rom
  <2>1. rom' = rom
    BY EveryStep DEF DataPath, FetchAndDecode, vars, front
  <2> QED BY <2>1, IInvStep DEF SInv
<1>2. NoRace' <=> NoRace
  BY <1>1 DEF NoRace, RaceFree, Alone
<1>3. CASE Next
  <2>1. CurrentLive' /\ PortsRead' /\ SentTyped' /\ AllDone'
    BY <1>3, CurrentLiveStep, PortsStep, SentTypedStep, AllDoneStep DEF SInv, IInv
  <2>2. Simulated'
    BY <1>2, <1>3, SimStep DEF SInv, Simulated
  <2> QED BY <1>1, <2>1, <2>2 DEF SInv
<1>4. CASE UNCHANGED vars
  <2>1. CurrentLive' /\ SentTyped' /\ AllDone'
    BY <1>4 DEF SInv, CurrentLive, SentTyped, AllDone, vars, sched, emit
  <2>2. PortsRead'
    BY <1>4 DEF SInv, PortsRead, vars, sched, grid, front
  <2>3. Simulated'
    BY <1>2, <1>4, SimStutters DEF SInv, Simulated
  <2> QED BY <1>1, <2>1, <2>2, <2>3 DEF SInv
<1> QED BY <1>3, <1>4

\* When the core is done, every thread is at the end of its run.
LEMMA AllThreadsEnded ==
  ASSUME SInv, done, NEW d \in [Threads -> Thread], Sim(d)
  PROVE  /\ \A l \in Threads : d[l] = Alone(l) /\ Settled(l, d[l]) = d[l]
         /\ ~emit_ready
<1>1. \A w \in Warps : warp_status[w] = "DONE"
  BY DEF SInv, AllDone
<1>2. ASSUME NEW l \in Threads PROVE d[l].halted /\ d[l] = Alone(l) /\ lsu[l].state = "IDLE"
  <2>1. l \in Lanes /\ WarpOf(l) \in Warps /\ l \in LaunchMask(WarpOf(l)) /\ OnRun(rom, l, d[l])
    BY ThreadsAre DEF Sim, Runs
  <2>2. d[l].halted
    BY <1>1, <2>1 DEF Sim, WarpSim
  <2>3. lsu[l].state = "IDLE"
    BY <2>2 DEF Sim, LsuSim, Serves
  <2>4. rom \in Programs
    BY DEF SInv, IInv, Typed, FrontTyped
  <2> QED BY <2>1, <2>2, <2>3, <2>4, RunFacts DEF Alone
<1>3. \A l \in Lanes : lsu[l].state = "IDLE"
  BY <1>2 DEF Sim, LsuSim
<1>4. ~emit_ready
  <2>1. SUFFICES ASSUME emit_ready PROVE FALSE
    OBVIOUS
  <2>2. lsu[Thread0(emit_owner)].req = "emit" /\ emit_owner \in Warps
    BY <2>1 DEF Sim, SentSim, emit_valid, WarpEmit
  <2>3. lsu[Thread0(emit_owner)].state = "WAIT"
    BY <2>2, WarpsOfLanes DEF SInv, IInv, RequestLines
  <2> QED BY <1>3, <2>2, <2>3, WarpsOfLanes
<1> QED BY <1>2, <1>4 DEF Settled

\* scheduler.sv, lsu.sv, registers.sv and the rest of the core against the ISA, for
\* every number of lanes, every launch size, every answer of the UART and every
\* program laid out as codegen.rs does, as long as its loops agree: when the core
\* reports done, the registers, the memory and the bytes sent are those of the
\* threads run one at a time.
THEOREM CoreDoesWhatTheIsaSays ==
  ASSUME Kernels
  PROVE  Spec /\ []LoopsAgree => []DoneMatchesReference
<1>1. ASSUME SInv PROVE DoneMatchesReference
  <2> SUFFICES ASSUME done, NoRace
               PROVE  LET run == [l \in Threads |-> Alone(l)]
                      IN /\ \A l \in Threads : registers[l] = run[l].regs
                         /\ \A a \in Addr :
                              \/ mem[a] \in {run[l].mem[a] : l \in {k \in Threads : a \in run[k].written}}
                              \/ (mem[a] = LoadedData[a] /\ \A l \in Threads : a \notin run[l].written)
                         /\ \A w \in Warps : LaunchMask(w) # {} => sent[w] = run[Thread0(w)].out
    BY DEF DoneMatchesReference, NoRace
  <2>1. PICK d \in [Threads -> Thread] : Sim(d)
    BY <1>1 DEF SInv, Simulated
  <2>2. (\A l \in Threads : d[l] = Alone(l) /\ Settled(l, d[l]) = d[l]) /\ ~emit_ready
    BY <1>1, <2>1, AllThreadsEnded
  <2>3. \A l \in Threads : registers[l] = Alone(l).regs
    BY <2>1, <2>2 DEF Sim, RegsSim
  <2>4. \A l \in Threads : \A a \in Alone(l).written : mem[a] = Alone(l).mem[a]
    BY <2>1, <2>2 DEF Sim, MemSim, Touched
  <2>5. \A a \in Addr : (\A l \in Threads : a \notin Alone(l).written) => mem[a] = LoadedData[a]
    BY <2>1 DEF Sim, MemSim
  <2>6. ASSUME NEW w \in Warps, LaunchMask(w) # {} PROVE sent[w] = Alone(Thread0(w)).out /\ Thread0(w) \in Threads
    <3>1. Thread0(w) \in Threads
      BY <2>6, ThreadsAre
    <3>2. sent[w] = Settled(Thread0(w), d[Thread0(w)]).out
      BY <2>1, <2>2, <2>6 DEF Sim, SentSim, Sending
    <3> QED BY <2>2, <3>1, <3>2
  <2> QED BY <2>3, <2>4, <2>5, <2>6
<1>2. SInv /\ LoopsAgree /\ [Next]_vars => SInv'
  BY SInvStep
<1> QED BY <1>1, <1>2, SimInit, PTL DEF Spec
=============================================================================
