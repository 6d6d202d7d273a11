------------------------------- MODULE Board -------------------------------
(***************************************************************************)
(* The whole board, clock cycle by clock cycle, as the host sees it: the   *)
(* loader and the emit path around the two cores, the arming FSM of        *)
(* src/top.sv that resets the GPU before every run, and the dispatcher.    *)
(*                                                                         *)
(* A core is what Core promises: after its start pulse it emits the bytes  *)
(* of its kernel one by one, each held until it is acknowledged, stores    *)
(* into its own memory, and is done for good, at its own pace.  What a     *)
(* kernel emits is part of the frame (job.emits).  The host is             *)
(* software/send_kernel.py run once per frame: it writes the bytes without *)
(* flow control and reads the reply; the next frame follows the end of     *)
(* the run.  uart_rx.sv is the pulse of rx_valid: a byte takes ten bit     *)
(* times, so two pulses are never in adjacent cycles.                      *)
(***************************************************************************)
EXTENDS Loader, EmitPath

CONSTANTS
  RunRst,     \* the last value of the 5-bit runrst: 31
  Workloads   \* sequences of frames a host may send

\* What the host sends as a frame, and the bytes its cores will emit: a program and
\* data that fit the memories and the 16-bit fields of the header.
Frames ==
  {f \in [prog : Seq(Byte \X Byte), data : Seq(Byte), emits : [Cores -> Seq(Byte)]] :
     /\ Len(f.prog) <= ProgSize /\ {Len(f.prog), Len(f.data)} \subseteq 0 .. AddrSize
     /\ {Len(f.prog), Len(f.data)} \subseteq Size}

ASSUME BoardAssumption ==
  /\ RunRst \in Nat \ {0}
  /\ \A w \in Workloads : w \in Seq(Frames) /\ w # << >>

VARIABLES
  armed, runrst, gpu_reset,      \* top.sv
  dispatched, core_start,        \* dispatcher.sv
  core,                          \* the cores, abstractly
  rx_valid, rx_byte,             \* uart_rx.sv
  queue, job, wire, reply        \* the host: frames to send, the current one,
                                 \* its bytes not sent yet, the reply so far

board == <<armed, runrst, gpu_reset, dispatched, core_start, core>>
host  == <<rx_valid, rx_byte, queue, job, wire, reply>>
vars  == <<dma, rom, mem, emitvars, board, host>>

core_done == [c \in Cores |-> core[c].state = "DONE"]
done      == dispatched /\ core_done[0] /\ core_done[1]
Enabled   == armed /\ runrst = RunRst
Port      == [c \in Cores |-> [valid |-> core[c].valid, data |-> core[c].data]]
Store     == [c \in Cores |-> [we |-> core[c].we, addr |-> core[c].addr, data |-> ByteSize - 1]]

-----------------------------------------------------------------------------
\* Mutant: the counter is not stopped at its last value.
ArmingRunsOn ==
  /\ armed' = (dma.gpu_start \/ armed)
  /\ runrst' = IF dma.gpu_start THEN 0 ELSE IF armed THEN runrst + 1 ELSE runrst
  /\ gpu_reset' = (~armed \/ runrst # RunRst)

\* top.sv: gpu_start restarts the count; the GPU is in reset until it is full.
Arming ==
  /\ armed' = (dma.gpu_start \/ armed)
  /\ runrst' = IF dma.gpu_start THEN 0
               ELSE IF armed /\ runrst # RunRst THEN runrst + 1 ELSE runrst
  /\ gpu_reset' = (~armed \/ runrst # RunRst)

\* dispatcher.sv: one start pulse to both cores per reset.
Dispatcher ==
  IF gpu_reset THEN dispatched' = FALSE /\ core_start' = FALSE
  ELSE IF Enabled THEN dispatched' = TRUE /\ core_start' = ~dispatched
  ELSE UNCHANGED <<dispatched, core_start>>

CoreReset ==
  [state |-> "IDLE", left |-> << >>, valid |-> FALSE, data |-> 0, we |-> FALSE, addr |-> 0,
   stored |-> FALSE]

\* A running core idles, stores once per run, offers its next byte, or ends.
Running(c) ==
  LET k == [core[c] EXCEPT !.we = FALSE]
  IN {k}
     \cup {[k EXCEPT !.we = TRUE, !.addr = a, !.stored = TRUE] :
             a \in IF k.stored THEN {} ELSE {0, AddrSize - 1}}
     \cup (IF k.left # << >> THEN {[k EXCEPT !.valid = TRUE, !.data = Head(k.left)]} ELSE {})
     \cup (IF k.left = << >> /\ ~core[c].we THEN {[k EXCEPT !.state = "DONE"]} ELSE {})

CoreNext(c) ==
  LET k == core[c]
  IN CASE gpu_reset -> {CoreReset}
       [] ~gpu_reset /\ k.state = "IDLE" ->
            {IF core_start THEN [k EXCEPT !.state = "RUN", !.left = job.emits[c]] ELSE k}
       [] ~gpu_reset /\ k.state = "RUN" /\ k.valid ->
            {IF CoreReady(c) THEN [k EXCEPT !.valid = FALSE, !.left = Tail(@), !.we = FALSE]
             ELSE [k EXCEPT !.we = FALSE]}
       [] ~gpu_reset /\ k.state = "RUN" /\ ~k.valid -> Running(c)
       [] OTHER -> {k}

TwoCores == \E k0 \in CoreNext(0), k1 \in CoreNext(1) : core' = [c \in Cores |-> IF c = 0 THEN k0 ELSE k1]

Machine ==
  /\ Dma(done, rx_valid, rx_byte) /\ Memories(Store)
  /\ EmitStep(gpu_reset, core_done, Port)
  /\ Arming /\ Dispatcher /\ TwoCores

-----------------------------------------------------------------------------
(* The host beside the machine.                                             *)

Field(n)     == <<n % ByteSize, n \div ByteSize>>
Flat(words)  == [i \in 1 .. 2 * Len(words) |-> words[(i + 1) \div 2][2 - (i % 2)]]
FrameBytes(f) == Field(Len(f.prog)) \o Field(Len(f.data)) \o Flat(f.prog) \o f.data

Receive == reply' = IF Delivers THEN Append(reply, tx.shift) ELSE reply

\* The receiver is between two bytes, or nothing is on the line.
Quiet ==
  /\ Machine
  /\ rx_valid' = FALSE /\ Receive
  /\ UNCHANGED <<rx_byte, queue, job, wire>>

ByteArrives ==
  /\ Machine
  /\ wire # << >> /\ ~rx_valid
  /\ rx_valid' = TRUE /\ rx_byte' = Head(wire) /\ wire' = Tail(wire) /\ Receive
  /\ UNCHANGED <<queue, job>>

\* The next frame, once the run is over and the DMA listens again (the loading and
\* done LEDs are both on).
NextFrame ==
  /\ Machine
  /\ wire = << >> /\ ~rx_valid /\ queue # << >> /\ done /\ dma.state = "HEADER_INSTR_L"
  /\ job' = Head(queue) /\ queue' = Tail(queue) /\ wire' = FrameBytes(Head(queue))
  /\ rx_valid' = FALSE /\ reply' = << >>
  /\ UNCHANGED rx_byte

\* The board after power-on reset.
Init ==
  /\ LoaderInit(<<0, 0>>, 0) /\ EmitInit
  /\ armed = FALSE /\ runrst = 0 /\ gpu_reset = TRUE
  /\ dispatched = FALSE /\ core_start = FALSE
  /\ core = [c \in Cores |-> CoreReset]
  /\ rx_valid = FALSE /\ rx_byte = 0 /\ reply = << >>
  /\ \E w \in Workloads : job = w[1] /\ wire = FrameBytes(w[1]) /\ queue = Tail(w)

Next == Quiet \/ ByteArrives \/ NextFrame
Spec == Init /\ [][Next]_vars

\* The clock runs, the host sends on, a core that can go on does, a byte on the
\* line gets there.
FairSpec ==
  /\ Spec
  /\ WF_vars(Next) /\ WF_vars(ByteArrives) /\ WF_vars(NextFrame)
  /\ WF_vars(Next /\ Delivers)
  /\ \A c \in Cores : WF_vars(Next /\ (core[c].valid # core'[c].valid \/ core[c].state # core'[c].state))

-----------------------------------------------------------------------------
\* Every register has its type.
TypeOK ==
  /\ dma.state \in DmaStates /\ dma.wptr \in 0 .. AddrSize - 1
  /\ dma.instr_size \in Size /\ dma.data_size \in Size
  /\ dma.low \in Byte /\ dma.byte_toggle \in {0, 1}
  /\ dma.mem_waddr \in 0 .. AddrSize - 1 /\ dma.mem_wdata \in Byte
  /\ dma.instr_waddr \in 0 .. ProgSize - 1 /\ dma.instr_wdata \in Byte \X Byte
  /\ rom \in [0 .. ProgSize - 1 -> Byte \X Byte]
  /\ mem \in [Cores -> [0 .. AddrSize - 1 -> Byte]]
  /\ runrst \in 0 .. RunRst
  /\ turn \in {"CORE0", "CORE1", "END"} /\ estate \in {"IDLE", "SEND", "WAIT"}
  /\ tx \in [state : {"IDLE", "SHIFT"}, busy : BOOLEAN, shift : Byte]
  /\ \A c \in Cores : core[c].state \in {"IDLE", "RUN", "DONE"}

\* When the cores start, the program and all but the last data byte of the frame
\* are in place, in both copies, whatever ran before; with no data at all, every
\* program word is (the last one is written after gpu_start).
RunHasItsFrame ==
  core_start =>
    /\ \A i \in DOMAIN job.prog : rom[i - 1] = job.prog[i]
    /\ \A i \in 1 .. Len(job.data) - 1, c \in Cores : mem[c][i - 1] = job.data[i]

\* The write port changes hands between runs only: a core runs with the whole
\* frame in and the DMA off the port, so none of its stores is lost to the DMA.
NoRunWhileLoading ==
  \A c \in Cores :
    core[c].state = "RUN" \/ core[c].we => dma.state = "RUN" /\ ~dma.loading /\ wire = << >>

\* The host reads each emitted byte once, those of core 0 first (gpu.sv: "core 0's
\* bytes go first ... the handoff can't tear a byte").
Expected     == job.emits[0] \o job.emits[1]
ReplyInOrder == Len(reply) <= Len(Expected) /\ reply = SubSeq(Expected, 1, Len(reply))

\* When done rises, which re-arms the DMA, the host has the whole reply.
DoneMeansDelivered == [][done' /\ ~done => reply = Expected]_vars

\* Every frame is run to its end: neither the two cores waiting for one UART,
\* nor the re-arming by the edge of done, stops the board.
FramesServed == <>[](queue = << >> /\ wire = << >> /\ done /\ reply = Expected)

\* dma_controller.sv: "Last byte of the payload just landed" when gpu_start rises.
EveryByteLands ==
  core_start => \A i \in DOMAIN job.data, c \in Cores : mem[c][i - 1] = job.data[i]
=============================================================================
