# Formal model of gpu_design

TLA+ specifications, TLC runs and TLAPS proofs for the SIMT GPU of this repository (two
cores, each with two warps of lanes, loaded and read over a UART) and for the tools that
make its programs: the J++ compiler, the assembler and the graph compiler. Paths below
are relative to the repository root.

## 1. Inventory

| Part | Source | State | Operations | What makes it correct |
|---|---|---|---|---|
| Warp scheduler | `src/scheduler.sv` | `core_state`, `current_warp`, `warp_status`, `warp_pc` | nine pipeline states, parking and waking of warps | a warp is parked only while an access is open, executes only when it is over, and always comes back |
| Branch divergence | `src/scheduler.sv` (EXECUTE) | `active_mask`, `stack_pc`, `stack_mask`, `stack_ptr`, `base_mask` | diverge, pop, restore, retire | every lane sees exactly its own path through the program |
| Front end | `src/program_memory.sv`, `src/decoder.sv` | instruction register, decoder outputs | read the ROM, latch the strobes | the control signals belong to the current warp's instruction |
| Lanes | `src/registers.sv`, `src/pc.sv`, `src/alu.sv`, `src/lsu.sv` | register files, `rs`/`rt`, `nzp`, LSU FSM, `base`, `wbase` | read, write back, compare, issue, wait, complete | the result is that of the thread run alone |
| Arbiters, memory | `src/lsu_arbiter.sv`, `src/lsu_write_arbiter.sv`, `src/main_memory.sv` | served lane, pulses, write bus, cells | serve reads, commit stores | an answer meets its request; a store commits once |
| Emit ownership | `src/core.sv` | `emit_owned`, `emit_owner` | claim, hold, release the UART | no byte torn or misrouted between warps |
| Emit path | `src/gpu.sv`, `src/top.sv`, `src/uart_tx.sv` | whose turn, handshake, transmitter | forward, launch, acknowledge | each byte once, core 0's first |
| Loader | `src/dma_controller.sv`, `src/data_pipeline.sv` | DMA FSM, sizes, write pointers, `loading` | parse the header, fill memories, start, re-arm | a run finds its frame; the port changes hands between runs |
| Run control | `src/top.sv`, `src/dispatcher.sv` | `armed`, `runrst`, `gpu_reset`, `dispatched` | reset before a run, start both cores | one run per frame |
| Host | `software/send_kernel.py` | frame, reply | write without flow control, read | |
| MAC units | `src/vector_mac.sv`, `src/fc_mac.sv`, `src/core.sv` | operand buffers, accumulator, best index | push, fire, accumulate, requantise | operands of one kernel step are not mixed with another's |
| UART receiver | `src/uart_rx.sv` | bit FSM, tick | sample, deliver | a byte per frame on the line |
| J++ compiler | `software/src/lexer.rs`, `parser.rs`, `codegen.rs`, `bin/jpp.rs` | tokens, tree, variable and scratch registers, label counter, if depth | lex, parse, generate, reject | the code does to every lane what the source says; a program is rejected only for a rule it breaks |
| Assembler | `software/src/main.rs` | labels, the address of each pass, words | scan, emit, exit | both passes agree on addresses; a word is the instruction of its line; a branch reaches its label |
| Graph compiler | `software/src/bin/graph_compiler.rs` | layers, buffers, image, assembly lines, activations | lower, plan, check, generate, evaluate, reject | buffers are apart and clear of the UART; the kernel computes what `eval` says; it fits the ROM |

Interaction. The host's bytes go through the receiver into the DMA controller, which
writes both copies of program and data memory and pulses `gpu_start`. The arming FSM
holds the GPU in reset, then enables the dispatcher, which starts both cores. A core's
scheduler drives the shared decoder and ALUs for one warp at a time; its LSUs talk to
the memory through two arbiters and to the UART through the ownership latch. `gpu.sv`
forwards one core at a time to the handshake of `top.sv` and the transmitter. When both
cores are done the rising edge of `done` makes the DMA listen again. The tools are offline
and meet in files: `jpp` and `graph_compiler` write assembler text, `main.rs` turns it into
the words that the host sends, and `graph_compiler` also writes the data image and the
reply it expects.

Hard behaviour. Everything is one clock domain, so nothing races at the level of
signals; what is hard is *latency*: a request seen a cycle after it was withdrawn, an
acknowledge that meets its own request again, a level mistaken for an edge, a port
released while a registered write is still under way, two warps in different phases
of an access, and lanes of one warp at different places of the program. The tools are
sequential; what is hard there is that many small decisions must agree across programs
in three languages: an address counted in one pass and used in another, a field cut in
Rust and read in SystemVerilog, a register handed back while its value is needed, a branch
layout that only one warp scheduler makes meaningful, a pointer walk over planes that a
window does not divide. `PROJECT.json` lists the hazards with their lines.

## 2. Modules

| Module | What it is |
|---|---|
| `Divergence` | one warp at the grain of an instruction: PC, mask, stack, base mask, for any votes |
| `LaneSemantics` | abstract: each lane runs the program alone |
| `BranchLayout` | how `codegen.rs` lays out an if and a loop, read off a loaded program |
| `LaneView` | `Divergence` with the PC each lane would have alone; implements `LaneSemantics` |
| `Divergence_proofs` | of `Divergence`, the inductive invariant and seven theorems; of `LaneView`, that it implements `LaneSemantics` and loses no lane, for every program of that layout |
| `Core` | one core, clock cycle by clock cycle |
| `Decoder` | the instruction that a 16-bit word is |
| `Coprocessor` | the vector MAC and the FC unit, an operation at a time |
| `LaneReference` | the ISA for one thread, as a recursive function |
| `Warp` | one warp running loaded words, instruction by instruction: `Divergence` with `LaneReference`'s threads |
| `CoreProperties` | what is asked of `Core`; the refinement mapping to `Divergence` |
| `Core_proofs` | its types; the promises of scheduler, LSUs, arbiters and emit latch to one another; that each warp is a `Divergence`; proved for every core. That a core computes what `LaneReference` does, proved for every disciplined program |
| `Loader`, `EmitPath` | the components on the way in and on the way out |
| `Board` | both of them composed with run control, abstract cores and the host |
| `Board_proofs` | its types and the layout of a frame; a run has its frame and the host its reply, proved for every workload |
| `AsmLines`, `Assembler` | a line of assembler; the two passes |
| `AssemblerProperties`, `Assembler_proofs` | what the passes owe each other and the decoder; proved for every text |
| `Lexer`, `Parser`, `Codegen` | the phases of the J++ compiler, as operators |
| `JppLanguage` | the reference: how a tree is written, and what one thread computes from it |
| `Jpp`, `JppProperties` | text to tokens to tree to lines to words to a warp that runs them; what it promises |
| `GraphPlanner` | `plan` and `check`, on their own |
| `GraphKernels` | the kernel generators and `eval`, as operators |
| `GraphCompiler` | the whole of `graph_compiler.rs`; implements `GraphPlanner` |
| `Graph` | a graph through compiler and assembler to a warp that runs it |
| `Graph_proofs` | the plan, its refinement by the compiler and the word count, proved for every graph |
| `GraphSteps_proofs` | how generated code runs: views of a thread, lines in place, loops |
| `GraphKernels_proofs` | that each kernel computes what `eval` says and the epilogue sends the reply |
| `GraphRun_proofs` | from the file to the reply: every graph's run matches `eval` and keeps to the plan |
| `MC*` | constants for TLC |

### Divergence

One step is one instruction's EXECUTE. The flat vectors with the 2-bit `stack_ptr` are a
sequence of frames whose length is the pointer; `Push` wraps at SDEPTH - 1 as the
hardware does. The votes are arbitrary sets of lanes, so the module covers every data
dependence at once; `Core` computes them from the flags.

### LaneSemantics and LaneView

`LaneSemantics` lets any group of lanes at the same PC step together; each goes where its
own vote says. `LaneView` adds the PC a lane would have alone (the `next_pc` that `pc.sv`
still computes and nobody reads) and lets the lanes agree at the two branches of a loop,
its back edge and its exit (`IsLoopBranch`): `software/src/codegen.rs` assumes just that.
`BranchLayout` tells a loop's branch from an if's by where it goes, and says what an if's body may
hold (`Structured`).

### Core

Every disjunct of `Next` is one clock cycle in one scheduler state (WAIT is three:
`Stall`, `Park`, `Proceed`), conjoined with `DataPath`, which gives every other register
its next value from the values of the cycle before, as non-blocking assignments do.
Decoder strobes are sets of names. The three request lines of an LSU, of which one at
most is up, are `req`. `last_grant_oh` always equals `wgrant` and is not a second
variable. The read arbiter's per-lane `rdata` registers are one: only the lane pulsed
in the same cycle reads it. `emit_ready` is the single input. `sent` is a history variable: the
bytes the UART has taken, per warp. Init is the cycle in
which the dispatcher's start pulse is up, after the reset that precedes every run.
Instructions modelled: MOV, LUI, TID, BID, BDIM, ADD, ADDI, SUB, MUL, SHR, SHL, CMP, LDR, STR,
ADDB, WBASE, BR, SYNC, RET. The MAC and FC opcodes are not among them.

`LaneReference` executes the same instructions for one thread without any of that. Its
memory is private, so a comparison makes sense for programs whose threads do not share a
location one of them writes (`RaceFree`); which programs those are is computed by the
reference, not assumed.

### Decoder, Coprocessor, Warp

`Decoder` cuts a word into the fields and names its operation, sub-functions included.
`Coprocessor` is pure: a unit goes in, a unit or a value comes out. It keeps what surprises
in the source: a tenth push is dropped, MAC sums all nine slots, stale ones too, and an
equal score does not replace the best. Accumulators are integers, not the 32 bits of
`fc_mac.sv`: no run reaches 2^31 (TLC would stop), and in the kernels of accepted graphs no sum ever does
(`GraphSumsFit`, proved). `Warp` is the grain at which the tools' output is run: masks
and stack come from `Divergence`, a lane is a `LaneReference` thread, the votes are the
flags. A masked lane's flags and windows move, as finding 3 says. `Core` justifies this
grain: it implements `Divergence` and ends as `LaneReference` does, both proved. Two things are
narrower than the chip: each lane sees a private data memory, so programs may not store
where another lane loads or stores, and the units listen to thread 0 and exist once, as the
documented one-warp builds have it (TO-DO.MD:61).

### Assembler

A line is its label and a mnemonic with operands (R, #, or a name); how `clean` and
`split_label` take text apart is left out. One action per line and pass; `Exit` is
`reg()` ending the program at R8 and above, or an index past the operands. What is not a
number reads as 0, and what is too wide is cut, as in the source.

### J++

The three phases are operators on sequences. `Lexer` goes character by character
through text in which the letters of a keyword are one symbol (`Words` counts as letters).
`Parser` keeps the four precedence levels as recursive descent; the statements, whose
functions each consume a fixed row of tokens, are a table of rows. `Codegen` threads the
generator's fields through the `gen_*` functions: operands are generated first, and an
operator per instruction pattern (`Binary`, `Larger`, `Load`, ...) adds what uses them.
`JppLanguage` is written from the language's meaning and shares only the syntax and
`Coprocessor` with them. `Jpp` is `jpp.rs` followed by the assembler, the load and the warp. A job may enter as a text, as
tokens (damaged ones), or as an assembler file.

### Graph compiler

`GraphPlanner` is `plan` and `check` with the lowering in front of them reduced to what it
guarantees (`Lowering`), so that the proof says nothing about a JSON file. `GraphCompiler`
adds lowering node by node, generation, `eval` and the rejection of each, and implements
`PlannerSpec` (checked by TLC and proved). The generators share the loops (`While`, `Ahead`, `Bump`)
that the source spells out in each. `LaneReference` records the addresses read and written,
for `EveryAccessIsPlanned`. `Graph` loads the whole image, as `--pad 1` makes the real loader do; without it the
last data byte is lost (finding 5), which `Board` has.

### Loader, EmitPath, Board

`Dma` has one disjunct per FSM state; `Sampled` is what the default assignments at the
top of the clocked block do. `Memories` is the port multiplexer followed by the memory.
`Transmit` abstracts ten bit times to one state of any length. In `Board` a core is
abstract: after its start pulse it offers the bytes its kernel emits, stores at the first
or the last address at most once, and ends, at any pace. `Core` justifies that
abstraction (offers are stable by `EmitIsStable`, the end comes by `Terminates`). The host
sends a second frame when the run is over and the DMA listens again, which the LEDs show. A frame
fits the memories (`Frames`): `send_kernel.py` does not check that, and a longer program or payload
would wrap in the memories.

## 3. Runs

| Run | Instance | Shows |
|---|---|---|
| `divergence` | every program of 3 instructions over BR (3 targets), SYNC, RET, other; 4 of 5 lanes launched | `MasksDisjoint`, `NobodyRunsForNobody`, `BaseCovers`, `SleepersAreKept` |
| `stack_wrap` | the same with 5 launched lanes | `SleepersAreKept` is violated (finding 1) |
| `lanes` | every sequence of up to 3 statements out of plain code, if, empty if, loop, loop in an if, if in a loop; 3 lanes | the warp implements `LaneSemantics`; no lane is lost, and all are there at the end |
| `nested_if` | one nested if | `NoLaneLost` is violated (finding 2) |
| `core` | 555 kernels; 2 warps x 2 lanes, 3 threads launched | the pipeline's promises, `DoneMatchesReference`, `WarpsImplementDivergence`, `Terminates` |
| `ghosts` | base-pointer moves and compares inside an if | `GhostsLeaveNoTrace` is violated (finding 3) |
| `emit_in_if` | emits inside an if | `EmitsAreAnswered` is violated (finding 4) |
| `board` | 2 frames in a row, 8 first x 4 second frames | `RunHasItsFrame`, `NoRunWhileLoading`, `ReplyInOrder`, `DoneMeansDelivered`, `FramesServed` |
| `last_byte` | the same | `EveryByteLands` is violated (finding 5) |
| `jpp` | 423 jobs: programs with every statement and operator, every pair and triple of nested operators, texts in three layouts, programs that break each rule, a program with each token dropped or doubled, assembler files with every mnemonic; 3 lanes | lexer, parser, generator, assembler and divergence together compute what the source means (`CompiledMeansSource`), each phase keeps its own promise (`TokensAreTheText`, `TreeIsTheSource`, `WordsSayTheLine`, `PassesAgree`, `BranchesReachTheirLabel`, `NobodyLeftBehind`), verdicts are right (`RightVerdict`), and everything ends |
| `max_overlap` | MAX with every choice of three registers | `MaxIsTheLarger` is violated (finding 6) |
| `graph` | 67 graphs: 22 to run, 45 with one mistake each; 1 lane | `BuffersAreApart`, `EveryAccessIsPlanned`, `KernelMatchesEval`, `WordCountAgrees`, `ImplementsPlanner`, `Ends` |

Bounds and why they are enough.

- *Divergence*: 3 instructions already let the warp diverge, pop, restore and loop, with
  every nesting 4 launched lanes allow (3 frames). The fifth lane is past BLOCK_DIM and votes.
  The proofs remove the bounds.
- *Lanes*: 3 lanes are enough for two frames besides the awake lane; 3 statements for a region
  before and after another.
- *Core*: two warps of two lanes is the smallest grid with contention inside and between
  warps; BLOCK_DIM = 3 leaves one masked lane and a partly filled warp. Words of 3 bits and
  bytes of 2 keep the truncation of a store and of an emit visible; 8 addresses let a moved
  window wrap. Kernels are three free instructions after a TID/MOV prologue, an if around
  one and another after it, or an if around a loop that compares while lanes are masked. `Fuel` = 14
  exceeds the longest run of a thread (13 instructions), and 11 addresses hold the longest kernel. The UART answers after any delay.
- *Board*: bytes of 2 bits make a size above 3 use the header's high byte; 6 data and 8 program
  addresses hold every frame; `RunRst` = 3 stands for 31, longer than any pipeline in front of
  it. Two frames are enough for everything that re-arms. Arrival times of bytes, store and
  emit times of cores and the length of a byte on the line are arbitrary.
- *J++*: all widths are the chip's (16-bit words, 6-bit immediates, 8-bit targets, 256 words,
  8 registers); only the data memory is small, 128 bytes, and 3 lanes vote. Constants lie on both
  sides of 63, one program has labels behind word 64, so a target cut to 6 bits would miss.
  Expressions of depth 2 use both scratch registers, and one program needs a third. `WordsSayTheLine`
  and the two properties on addresses are asked of files with all 39 mnemonics, of all that the
  compiler generated, and of sources with odd operands.
- *Graphs*: widths as above, 512 bytes of memory and budgets of 256 (one of 512). Output buffers end before address 63, end at it,
  begin at it and cover it; planes have rows that a window does not divide, strides of up to 63, and
  one more; constants pass 64; a budget is met and missed by a byte; scores tie, saturate and go
  negative. The limits of `check` are met from both sides: a kernel of 256 words is written and one of 257 refused, a
  reply of 254 scores is sent and one of 255 refused, shifts are 7 and 8. The one limit no run can reach is the
  32-bit sum: it takes a layer of 65794 taps, more weights than the 16-bit addresses of a lane span, let alone
  a model TLC can run. That sum is proved instead (`GraphSumsFit`).

The jobs and graphs of these two runs are a library, not all inputs up to a size: each is one
behaviour, and what the run shows is about those. The properties that are proved (section 4) are
the ones that hold for every input.

Deadlock is checked in `core`, `ghosts`, `emit_in_if` and in the two runs of `Board`, whose
systems are clocked for ever. In `Divergence`, `LaneView`, `Jpp` and `Graph` a warp stops at RET and a
tool at the end of its input, so `CHECK_DEADLOCK FALSE` is given there.

Symmetry: lanes are symmetric in `divergence` and `lanes` (nothing there orders
lanes); it is not used with a liveness property.

Fairness. `Core!FairSpec`: the clock runs (weak fairness of Next), and a byte that stays
offered is acknowledged in the end; `top.sv` and `uart_tx.sv` are a counter that always
expires, and `gpu.sv` forwards core 1 when core 0 is done, which itself follows from
termination of core 0. `Board!FairSpec`: the clock runs, the host goes on sending, the transmitter
finishes its byte, and a core that may go on does (`Terminates` of the core). `Jpp!Spec` is fair to
the assembler and to the warp: a process that has been started runs, and the scheduler of a single
warp issues an instruction whenever it may (`Terminates` again). It assumes nothing of the front
end. `Graph!Spec` is fair to every step, tools included.

## 4. Proofs

### Divergence

`Divergence_proofs`, for every set of lanes, any part of it launched, any set of programs, any
PC width and any SDEPTH (assumptions: both sizes positive, Lanes finite, Launched a subset,
Programs over the instruction type).

`TypeOK /\ MasksDisjoint` alone is not inductive: to preserve the disjointness of masks across
a SYNC on an empty stack one has to know that the restored base mask covers the awake lanes,
and to conclude that the lanes awake after a pop are some, that frames are never empty. Hence

    IInv == TypeOK /\ MasksDisjoint /\ Populated /\ Covered

`Inductive` proves it by one lemma per action. From it follow `TypeCorrect`,
`LanesInOnePlace`, `SomebodyIsAwake` and `SyncOnlyWakes`.

`DepthBound` is a counting argument: frames are non-empty, disjoint and disjoint from the
non-empty active mask, and all inside Launched, so a stack of k frames needs k + 1 launched
lanes (a pigeonhole lemma with an injection into Launched). So with at most SDEPTH launched
lanes per warp the pointer never wraps, and `SleepersKept` follows: no sleeping lane
is dropped. This is the exact condition: `stack_wrap` violates the property with SDEPTH + 1.
The default build has four lanes per warp and is on the safe side; the nine-lane build
(`test/tb_mlp.sv`) is not protected by the hardware, only by the compiler's ban on nesting.

### LaneView

The second part of `Divergence_proofs`, for every set of lanes, any part of it launched, any PC width and all programs under

    Layout == SDEPTH > 1 /\ \A code \in Programs : Structured(code)

so for what `codegen.rs` emits; without it the statements are false (finding 2). `NoLaneLost` says
that every launched lane is awake, on the stack or in `base_mask`, and that at the end of the warp all of them are
awake with an empty stack. The first part alone would let a lane stay behind in `base_mask` for ever, and neither
it nor `LanesInStep` says where such lanes are: those who skipped an if while the others run its body. `InStep` says where everybody is, in three situations:

- `Together`: all launched lanes are awake, at the warp's PC;
- `Parted(p)`: the lanes disagreed at the if at p; those who jumped are at its SYNC, the others are the only frame;
- `InBody(p)`: the others run the body; those who jumped are behind the SYNC, on no stack.

One lemma per situation shows where each instruction leads: only an if parts lanes that are together, only its
SYNC pops, and only at the same SYNC, with the stack empty again, does `base_mask` wake everybody; inside the
body there is no branch but a loop's, which the lanes take together. From `ViewInductive` follow
`NobodyIsLost` (a RET is met together: `EndIsTogether`), `AwakeWhereTheyWouldBe` and `AsleepWhereTheyStopped`, and the refinement `MasksAreLanes`: a
step of the warp is a step of its awake lanes in `LaneSemantics`. No induction over programs is needed: the
layout is a property of addresses.

### Core

`Core_proofs`, for every number of lanes per warp, one or two warps, every launch
size, memory and program (`CoreAssumption`: sizes are positive; a byte, a lane number and the constants the
identity registers deliver fit a word; a branch target fits the PC; an instruction that reads an identity register
names it, as the decoder's cases do). `TypeCorrect` comes first: it needs
that the arbiters' `Min` picks a lane, hence a least element of a non-empty set of numbers
(`LeastOf`), and that every ALU result is cut to the word. The shifts use a table (`Power`), because the
provers have no exponentiation.

None of the promises the runs check on the core is inductive by itself. `PipelineInductive` proves

    IInv == Typed /\ RequestLines /\ Pipeline /\ GrantMatchesStore /\ Reading

with one lemma per unit (scheduler, write arbiter, read arbiter), each over the actions of `Next`.

- `RequestLines`: a lane raises its request exactly in its WAIT state.
- `Pipeline`: what a warp's lanes do follows from where the scheduler has the warp. Parked means off the
  pipeline, at an LDR or STR, each awake lane in WAIT or DONE (`Parked`); not parked and not yet past REQUEST
  means all lanes idle, or all awake ones DONE for a replay (`Rested`); in the scheduler's WAIT all are
  in ISSUE, or none is (`InWait`). The two warps share the strobes, so that a lane whose warp is not
  on the pipeline must be shown not to move on them (`LaneMoves`).
- `Reading`: the read arbiter raises its pulse a cycle after the lane has already had the one it waited for, so it
  selects an answered request again and pulses the lane twice. The late pulse is harmless only because
  the lane is still DONE when it comes: the lane's warp is parked when the request is selected
  (`AnsweredReadIsParked`), needs SELECT_WARP, FETCH, DECODE and REQUEST before it can touch the lane
  again, and the pulse is out within two cycles. `Late` carries this, in the shape "parked
  in WAIT, off the pipeline in RESP".

From it follow `ControlAlwaysCurrent`, `GrantsMatchStores`, `ReadsAnswerRequests`, `AccessesAlwaysComplete`,
`ParkedWarpsWait` and the action property `EmitsAreStable`. The runs show the same on four lanes; the
hazard of the late pulse is one of timing, and the proof removes the doubt that more lanes queueing at the
arbiter could stretch it.

`WarpsAreDivergences` proves the refinement mapping of `CoreProperties`: the EXECUTE of a warp is one step of
its `Divergence`, with the votes that the flags cast; every other cycle, those of the other warp and those
in which it is parked or replays included, leaves its masks alone. It needs that the warp on the pipeline is
launched and not done (`CurrentAlwaysLive`: SELECT_WARP does not pick a retired one, though
`current_warp` keeps its number). That the theorems of `Divergence_proofs` thereby hold of the core's warps is
an argument outside tlapm, which does not instantiate the theorems of a parameterised instance.

### Core against the ISA

The second part of `Core_proofs`, for the same cores, every answer of the UART and every `Fuel`:

    CoreDoesWhatTheIsaSays == ASSUME Kernels PROVE Spec /\ []LoopsAgree => []DoneMatchesReference

When a core reports done, the registers of every thread, the memory and the bytes sent are those of the threads
run one at a time by `LaneReference`, if the threads do not race.

The hypotheses are what the compiler guarantees or assumes. `Kernels`: the programs are laid out as
`Structured` says; an if's body does not move `base` or `wbase` (finding 3 is about those that do);
each conditional branch comes right after a CMP and no branch leads between the two (`codegen.rs:277-290` and 356 emit
them as a pair); each thread comes to its RET alone (`Ends`: `Fuel` exceeds its run); and SDEPTH > 1.
`LoopsAgree`: lanes that are awake at a loop's branch vote alike (`codegen.rs:24` assumes it). That programs
meet the first is not idle: `MCCore` has TLC evaluate `KernelsAreDisciplined` on all 555 kernels. The second
is a hypothesis about what programs do, and no run lists it.

The argument is a simulation: `Sim(d)` says that each thread l has come to a state d[l] of its own run (`OnRun`)
and that the core holds what the run has there. The work is in *when* the core holds it, for the parts of one
instruction take effect in different cycles.

- *Registers, base pointers* (`RegsSim`): in UPDATE, except that BR and SYNC, which change none, count from EXECUTE
  (`Moving`, `Pending`), since the masks they leave already hold in UPDATE.
- *Memory* (`MemSim`): a store is in memory, and a byte loaded is in the LSU, many cycles before the instruction ends;
  an access takes effect when its LSU is DONE (`Settled`). Between the threads it is race freedom that
  keeps one thread's places what its own run has there, and `GrantMatchesStore` that a store is made once.
- *The read port* (`ReadSim`): the byte under way is the one its thread reads; the second, late answer of
  `lsu_arbiter.sv` is excluded by `Reading` of the core's invariant.
- *The UART* (`SentSim`): a byte is sent a cycle before thread 0's LSU learns of it.
- *Where the threads stand* (`WarpSim`): the three situations of `LaneView`, for PCs of the reference.
- *Flags* (`VoteSim`, `FlagsSim`): a CMP in an if's body also sets the flags of the lanes that skip it, so flags
  do not agree with the runs (finding 3). They agree wherever they are asked for: all threads at a
  conditional branch have come from the CMP in front of it, awake. For compiled programs that half of
  finding 3 is thus harmless, which `Looping` kernels let TLC see and this theorem proves. Before the first
  comparison the flags of hardware and reference are both empty; a thread that has compared has exactly one.

`Stepped` of the reference is taken apart instruction by instruction (`AfterStore`, ...), its product by halves of
a word is shown to be the product of `alu.sv` (`Products`), and its recursive `Run` is a chain of `Fuel` states
(`RunIsHistory`, by the least counterexample).

### Board

`Board_proofs`, for every workload of frames that fit the memories, every size of byte,
memories and run-reset counter (`LoaderAssumption`: at least two values each; `BoardAssumption`: the reset
counts at least one cycle, a workload is a non-empty sequence of frames). `TypeCorrect` needs the arithmetic
of the 16-bit fields; `FrameLayout` says which byte of a frame is which.

What the runs check says nothing of the cycles before: that the memories are right when the cores start follows
from every byte taken since the header, and that the reply is whole when done rises follows from where each
byte of the handshake is. `BoardInductive` proves

    IInv == Typed /\ Phases /\ CoresSane /\ OnLine /\ Pulses /\ Parsing /\ Contents /\ Flight /\ Replying

- `Phases`: the board loads, resets or runs. While it loads, the cores are as the last run left them (done, and the
  DMA knows: `gpu_done_d`) or as the reset did; so the old `done`, which stays up through the
  loading and one cycle into the reset, is never taken for an edge. That is why the DMA must test the edge.
- `OnLine`, `Parsing`: the DMA's state and pointer, as a function of the number of bytes taken (`Taken`). A payload
  of exactly 2^13 bytes ends nowhere: `Parsing` keeps its own case for it, in which no run starts.
- `Contents`: the memories as they are once the write in hand is made (`RomAfter`, `MemAfter`) hold what has been
  taken. The last data byte is the exception, since the port is released in the very cycle of its write:
  `RunHasItsFrame` therefore leaves it out, and the run `last_byte` shows that it is lost.
- `Flight`, `Replying`: of the byte a core offers, the transmitter and the handshake are in one of four positions, after
  which the host has it or not yet (`Answered`); the reply followed by what is owed (`Owed`) is the whole reply at
  every cycle of a run.

From it follow `FrameInPlace`, `PortHandedOver`, `ReplyIsPrefix` and the action property `DoneAfterReply`.
`DmaRows` and `LineMoves` are the tables of what the DMA and the host do in a cycle; one lemma per conjunct uses them.

### Assembler

`Assembler_proofs`, for every text (`IsAssembly`: a sequence of lines whose numbers are naturals, as `imm()`
parses a u16 and what is none reads as 0; it is kept by `TextStays`), with `AllKnown`, where it is named, for a text whose mnemonics the
assembler knows. That the passes agree is
no invariant by itself: pass 2's address says nothing of where pass 1 saw the lines to come. `IInv`
keeps the whole chain: the address of each line is that of the line before plus its word count
(`Addressed`), pass 1 stands at the end of the chain, pass 2 stands in it and has written so many words
(`SecondPass`), a label that a line bears alone is that line's address (`LabelsNamed`), and the code of
the lines behind pass 2 is in the file at their addresses (`LinesWritten`). The link between
the passes is the lemma `EncodeLength`: `word_count` is the length of what `encode` emits. From it follow
`PassesAlwaysAgree` and, with the lemma that the decoder reads an 8-bit target back
(`DecodeBranch`), `BranchesAlwaysArrive`: the word of a branch decodes to the address of the line
that bears its label, provided the label is unique and within the 256 words.

`WordsAlwaysSayTheLine` is about all 39 mnemonics: the words `main.rs` puts together, field by field, are taken apart by
`Decoder` into the instruction of the line. The lemmas are one per format of operands, on the arithmetic of fields:
what is cut to its width and shifted to its place is read back whole, and no field touches its neighbour. For
LDI and MAX, which are several words, it says what a thread that runs them has in the register.

### Graph compiler

`Graph_proofs`, for every model, UART address, budget, ROM size and immediate width (assumptions: the numbers
are natural; `FileAssumption`: sizes are naturals and data integers, as the serde types of
`graph_compiler.rs` say, nothing else of what a file may contain).

*The plan.* `BuffersAreApart` is not inductive: that a new output is disjoint from the old ones
needs to be known of the cursor. `PInv` says that the image and every buffer placed end at or
below the cursor and begin at or behind the one before, and that none spans the UART; the
lemma `ClearMisses` is the one place where address 63 matters.

*The compiler is a planner.* `CompilerPlans` proves the refinement: each node that `lower` takes becomes a layer
whose windows fit their planes (`LowerInv`; the rejections of `lower` are what makes it true), each step of
`plan` and `check` is one of the planner's, and generation and `eval` move no buffer. So `GraphBuffersApart` holds of
the whole system, from file to run.

*The word count.* `graph_compiler.rs` compares its own `word_count` of the text with the ROM, and another program
makes the words. `WordCountAlwaysAgrees` needs that every generator writes only mnemonics the assembler knows
(`KnownCode`; an unknown one would be counted and not emitted), through the unrolled loops by induction on
their length, and that the addresses of pass 1 are partial sums of `word_count`, which counts kinds of lines
(`Counted`, `WordsTo`). `GInv` carries both from the compiler to the assembler.

*The kernels and the run.* `GraphSteps_proofs`, `GraphKernels_proofs` and `GraphRun_proofs` prove, for every
graph the compiler accepts, that the lane stores only to the outputs of the plan and reads only what the
loader or itself put there (`GraphAccessesPlanned`), that no partial sum leaves the accumulator's 32 bits
(`GraphSumsFit`), and that the bytes the chip sends are the reply `eval` predicted (`GraphKernelMatchesEval`). The argument:

- *Steps.* What a kernel relies on of a thread is its view: registers, memory, accumulator, what it sent, what
  it stored, and whether a CMP has voted. `Goes(m, c, k, d)` says that a sound thread at line m with view c
  comes, in some number of the ISA's steps, to line k with view d, having read nothing that was not put there.
  It composes; one lemma per mnemonic the generators use gives its links (`Code` says that lines are in the
  text, and the words of pass 2 decode to them by the lemmas of `WordsAlwaysSayTheLine`; a branch comes to its
  label as in `BranchesAlwaysArrive`, if the label is unique). No output meets the UART's address, so each
  store is one to memory.
- *Loops.* The head of a loop leaves when one pointer has reached another, by CMP and BRzp (`Leaves`). Each
  loop has its invariant at a numbered round (`AtNeuron`, `AtTap`, `AtScore`, ...), one lemma for a round and
  one for the induction over rounds, the latter over the least counterexample (`Climb`).
- *Kernels.* `DenseComputes`, `ConvComputes` and `PoolComputes` give each nested loop its invariant: where the
  pointers are, that the accumulator holds a partial sum of `eval`'s, and that the outputs stored so far are
  `eval`'s. That sum stays within 32 bits: a tap adds at most 255 * 128, and `check` refuses a layer with so many
  taps that they could pass 2^31 - 1 (`SumFits`, graph_compiler.rs:318; `AddsBound`). `Sound`, which every step keeps,
  says so of the thread, whence `GraphSumsFit`. The strides, which `check` makes fit an ADDI (`StepsFit`), bring the pointers to the right cell.
  `KernelComputes` joins the three; `EmitStops` does the epilogue, whose running maximum is `Argmax`.
- *Labels.* The labels of a kernel bear its layer's number, the epilogue's the number 0, and each is borne
  once, so in the whole text every label is unique and each kernel stands in one piece (`Owned`, `Entire`).
- *The chain.* Layer n reads where layer n - 1 wrote, and no output is written twice (`Settled`, from the
  planner's invariant), so the outputs of all layers are in memory when the epilogue starts (`Completes`). The
  run of a one-lane warp is the thread's run, and the thread's run is deterministic: a warp that is somewhere
  in a run is on the way to that end (`OnTheWay`, `RunCompletes`).

`RunInductive` proves the invariant that carries this from the file to the run,

    GraphInv == PInv /\ GInv /\ FlowInv /\ StoreInv /\ TextInv /\ ActsInv /\ RunInv

`FlowInv`: each layer takes the shape that the one before gives, and no side of it is 0; `StoreInv`: the image
holds the input and each layer's weights where `plan` put them; `TextInv`: the text is the concatenation of
the kernels of the layers generated so far, later the whole source; `ActsInv`: `eval`'s outputs layer by layer
and the reply; `RunInv`: the program memory decodes to that source, and the lane is on its way to the end.

The hypotheses are three. `Sizes`: the widths of the chip (16-bit words, bytes, eight registers, 256 words of
program, an `IMM_MAX` of 63, a memory of at most 2^16 - 1 bytes, the UART anywhere) and one launched lane,
since the kernels are written for a single thread. `NoEmpty`: no tensor of a file has a side of length 0;
nothing in `lower` refuses one, but a kernel of size 0 has no last tap and an empty row of scores no maximum.
`BudgetsFit`: a file's budget is no larger than the memory; `check` compares addresses with the budget only.
`MCGraph` assumes the last two of its library, and TLC evaluates them; its constants are those of `Sizes`.

Induction here, as for `Run` above, is over the least counterexample, in first-order steps from the library's
well-foundedness theorems; it serves recursive functions with a numeric argument.

### Only model-checked

- `TokensAreTheText`, `TreeIsTheSource`, `CompiledMeansSource`, `NobodyLeftBehind` and `RightVerdict` of J++: the parser,
  the generator and the reference they are compared with (`JppLanguage`) are RECURSIVE operators over tokens and trees,
  and these promises are inductions over that data; tlapm has neither. `NobodyLeftBehind` would follow from `NobodyIsLost` if it were proved that `Codegen` lays
  programs out as `Structured` says; TLC sees it on the library.
- All liveness (`Terminates`, `FramesServed`, `Ends`): liveness under fairness is outside tlapm's reach.
- `LoopsAgree` is a hypothesis: a J++ program can be written whose lanes leave a loop at different times, and the
  compiler does not notice.

## 5. Findings

1. `src/scheduler.sv:196`: four nested divergences wrap the 2-bit `stack_ptr`, though the
   comment at line 43 promises SDEPTH levels. Needs more than four lanes per warp.
2. `src/scheduler.sv:191`: `base_mask` is replaced by any divergence that finds the stack empty,
   also one inside a region; the comment says "only at the outermost divergence". The compiler
   refuses such programs (README.md:143), the assembler does not.
3. `src/lsu.sv:85`, `src/pc.sv:87`: base pointers and flags of masked lanes change; README.md:71
   says ghosts leave no trace. (Registers and memory are gated, and in compiled programs no branch asks for flags
   that a masked lane got from others: `CoreDoesWhatTheIsaSays`.)
4. `src/core.sv:234`: an emit by a warp whose thread 0 is masked is never acknowledged and the
   warp stays parked for ever.
5. `src/dma_controller.sv:169`: the last data byte of a frame is not written. TO-DO.MD:95 works
   around it with `--pad 1`. The model adds that programs are not affected: the
   last program word lands (`RunHasItsFrame`), although `codegen.rs:64` says the loader drops it.
6. `software/src/main.rs:179`: `MAX Rd,Ra,Rb` with Rd = Rb and another Ra leaves Ra in Rd, for it
   copies Ra over Rb first; line 173 says "Rd = max(Ra,Rb)". `gen_pool` writes `MAX R4,R4,R5`, which
   is right, and J++ does not use the pseudo-op.

Observed while reading, without a run: a read is served twice by `lsu_arbiter.sv` (the request is
still up in the cycle of the pulse; harmless by `ReadAnswersRequest`, though line 12 says one
pulse per request); a `data_size` that is a multiple of 8192 never completes
(`dma_controller.sv:165`); README.md:101 says RET halts a thread, it halts the warp;
`scheduler.sv:214` says "Context switch every instruction!", but the lowest READY warp is taken
again; README.md:72 describes a frame that holds the original mask and a PC comparison, the
hardware keeps the staying lanes and pops at SYNC; `data_pipeline.sv:43` says that the copies "start
identical", which holds of a frame's payload and, from the second frame on, of nothing behind it;
`core.sv:286` speaks of eight MAC slots where the code has nine. In the tools: an unknown
mnemonic is counted as a word by pass 1 and emits none, so later labels are one too high
(`main.rs:186`); an undefined label reads as 0, and an immediate too wide is cut (`main.rs:31`,
`main.rs:74`); neither `jpp` nor the assembler refuses a program of more than 256 words, only
`graph_compiler` does; `manifest x = x + 1` reads the new register, not the old one
(`codegen.rs:198`); a hex file cut short stays behind when `reg()` exits (`main.rs:228`).

## 6. Not modelled, and why

- *Coprocessors, cycle by cycle.* The MAC and FC opcodes are not in `Core`: their state is shared by the
  warps of a core without any ownership, and the repository says that builds which use them have one warp
  (TO-DO.MD:61), so there is no promise about the interleaving to check. Their results are in `Jpp` and `Graph`.
- *Bit sampling of the UART.* `uart_rx.sv` and `uart_tx.sv` divide the clock by a constant; whether nine bits stay in
  step is arithmetic on that constant and the two oscillators. The bytes are modelled.
- *Text of the assembler's lines and JSON.* `clean`, `split_label` and serde turn characters into the lines and
  records the models start from. Comments in generated code and messages are left out; `// sacrificial` is not a word.
- *Programs that race.* The reference of `Core` and of `Jpp` is one thread on its own: programs in which
  threads communicate through memory have no meaning in it.
- *Divergent loops.* `codegen.rs:24` assumes that all lanes take a loop's exit together; J++ programs of the
  library keep to it, and keep `advance`, `wbase` and the shared units out of divergent ifs, where finding 3 applies.
- *Tensors with a side of length 0*, which no exporter writes (`NoEmpty`), and variables declared in an if body that some
  lanes skip: neither has a meaning to compare with.
- *Host.* The read time-out and a lossy line are left out: the protocol has no reaction to either.
- `fpu.sv` is not instantiated. The PLL is a vendor primitive. Python scripts other than the sender, testbenches,
  drills, the demo and generated schematics hold no state of the system. The debug outputs and the
  operand-injection port are tied off in `top.sv`.

## 7. Order of work, and what is left

Modelled in this order: `Divergence` with its proofs, `LaneView`, `Core`, `Loader`, `EmitPath`, `Board`; then the
missing ALU operations, `Decoder`, `Coprocessor` and `Warp`; on these the assembler with its proofs, the J++
compiler, and the graph compiler with the planner's proofs. Proved after that: the promises inside the core and of the
board; then that the core's warps are divergences, that masked lanes run as if alone, that words say their lines, that
the graph compiler is a planner and counts its words right, and that the core does what the ISA says; last that
the graph compiler's kernels compute what `eval` says, in every run of every graph.

Left for whoever continues: that `Core` implements the abstract core of `Board` is argued (section 2), not checked;
that `LoopsAgree` follows from the reference's runs, for programs whose loops count alike in every thread, is
not stated.
