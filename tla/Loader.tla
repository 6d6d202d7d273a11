------------------------------- MODULE Loader -------------------------------
(***************************************************************************)
(* The host-to-device pipeline of src/data_pipeline.sv: the DMA controller *)
(* that takes a frame apart, byte by byte, and the program and data        *)
(* memories it fills.                                                      *)
(*                                                                         *)
(* A frame is a 4-byte header (program words and data bytes, each a low    *)
(* and a high byte), the program (low byte first) and the data.  Both      *)
(* cores have a copy of each memory and the DMA writes the copies alike;   *)
(* the two program copies are never written by anybody else, so one        *)
(* variable holds them.                                                    *)
(*                                                                         *)
(* The module has no next-state relation of its own: Board clocks it, and  *)
(* passes in what comes from outside (the receiver, the cores).            *)
(***************************************************************************)
EXTENDS Naturals, Sequences

CONSTANTS
  ByteSize,  \* 2^8
  AddrSize,  \* 2^13 data addresses, the width of wptr
  ProgSize   \* 2^8 program addresses

Cores == {0, 1}
Byte  == 0 .. ByteSize - 1
Size  == 0 .. ByteSize * ByteSize - 1      \* 16-bit header fields

ASSUME LoaderAssumption ==
  /\ ByteSize \in Nat \ {0, 1}
  /\ AddrSize \in Nat \ {0, 1} /\ ProgSize \in Nat \ {0, 1}

VARIABLES
  dma,   \* the registers of dma_controller
  rom,   \* both copies of the program memory
  mem    \* main_memory, one copy per core

DmaStates == {"HEADER_INSTR_L", "HEADER_INSTR_H", "HEADER_DATA_L", "HEADER_DATA_H",
              "LOAD_INSTR", "LOAD_DATA", "RUN"}

\* Reset leaves the size and data registers alone; they are written before they
\* are read.
DmaReset ==
  [state |-> "HEADER_INSTR_L", wptr |-> 0, gpu_done_d |-> FALSE,
   instr_size |-> 0, data_size |-> 0, low |-> 0, byte_toggle |-> 0,
   gpu_start |-> FALSE, loading |-> FALSE,
   mem_we |-> FALSE, mem_waddr |-> 0, mem_wdata |-> 0,
   instr_we |-> FALSE, instr_waddr |-> 0, instr_wdata |-> <<0, 0>>]

LoaderInit(word, byte) ==
  /\ dma = DmaReset
  /\ rom = [p \in 0 .. ProgSize - 1 |-> word]
  /\ mem = [c \in Cores |-> [a \in 0 .. AddrSize - 1 |-> byte]]

-----------------------------------------------------------------------------
\* What a cycle does before the state has its say: the pulses go down, and
\* gpu_done is sampled for the edge detector.
Sampled(gpu_done) ==
  [dma EXCEPT !.gpu_done_d = gpu_done,
              !.gpu_start = FALSE, !.mem_we = FALSE, !.instr_we = FALSE]

SetLow(size, b)  == (size \div ByteSize) * ByteSize + b
SetHigh(size, b) == (size % ByteSize) + ByteSize * b

DmaHeader(gpu_done, rx_valid, b) ==
  /\ dma.state \in {"HEADER_INSTR_L", "HEADER_INSTR_H", "HEADER_DATA_L", "HEADER_DATA_H"}
  /\ LET d == [Sampled(gpu_done) EXCEPT !.loading = TRUE]
     IN \/ ~rx_valid /\ dma' = d
        \/ /\ rx_valid /\ dma.state = "HEADER_INSTR_L"
           /\ dma' = [d EXCEPT !.instr_size = SetLow(@, b), !.state = "HEADER_INSTR_H"]
        \/ /\ rx_valid /\ dma.state = "HEADER_INSTR_H"
           /\ dma' = [d EXCEPT !.instr_size = SetHigh(@, b), !.state = "HEADER_DATA_L"]
        \/ /\ rx_valid /\ dma.state = "HEADER_DATA_L"
           /\ dma' = [d EXCEPT !.data_size = SetLow(@, b), !.state = "HEADER_DATA_H"]
        \/ /\ rx_valid /\ dma.state = "HEADER_DATA_H"
           /\ dma' = [d EXCEPT !.data_size = SetHigh(@, b),
                               !.wptr = 0, !.instr_waddr = 0, !.byte_toggle = 0,
                               !.state = IF dma.instr_size = 0 THEN "LOAD_DATA" ELSE "LOAD_INSTR"]

\* Byte pairs become words; the word count is tested on the high byte.  With no
\* data to follow the GPU starts at once, while loading is still up.
DmaLoadInstr(gpu_done, rx_valid, b) ==
  /\ dma.state = "LOAD_INSTR"
  /\ LET d    == [Sampled(gpu_done) EXCEPT !.loading = TRUE]
         last == dma.wptr + 1 = dma.instr_size
     IN \/ ~rx_valid /\ dma' = d
        \/ rx_valid /\ dma.byte_toggle = 0 /\ dma' = [d EXCEPT !.low = b, !.byte_toggle = 1]
        \/ /\ rx_valid /\ dma.byte_toggle = 1
           /\ dma' = [d EXCEPT !.instr_we = TRUE, !.instr_waddr = dma.wptr % ProgSize,
                               !.instr_wdata = <<dma.low, b>>, !.byte_toggle = 0,
                               !.wptr = IF last THEN 0 ELSE (@ + 1) % AddrSize,
                               !.state = IF ~last THEN @
                                         ELSE IF dma.data_size = 0 THEN "RUN" ELSE "LOAD_DATA",
                               !.gpu_start = last /\ dma.data_size = 0]

\* The last byte releases the write port in the cycle its own write needs it.
\* Only the low bits of data_size are compared: a multiple of AddrSize never ends.
DmaLoadData(gpu_done, rx_valid, b) ==
  /\ dma.state = "LOAD_DATA"
  /\ LET d    == Sampled(gpu_done)
         last == dma.wptr + 1 = dma.data_size % AddrSize
     IN \/ /\ dma.data_size = 0
           /\ dma' = [d EXCEPT !.gpu_start = TRUE, !.loading = FALSE, !.state = "RUN"]
        \/ dma.data_size # 0 /\ ~rx_valid /\ dma' = [d EXCEPT !.loading = TRUE]
        \/ /\ dma.data_size # 0 /\ rx_valid
           /\ dma' = [d EXCEPT !.mem_we = TRUE, !.mem_waddr = dma.wptr, !.mem_wdata = b,
                               !.wptr = IF last THEN 0 ELSE (@ + 1) % AddrSize,
                               !.gpu_start = last, !.loading = ~last,
                               !.state = IF last THEN "RUN" ELSE @]

\* Mutant: gpu_done is taken as a level.
DmaRunLevel(gpu_done) ==
  /\ dma.state = "RUN"
  /\ dma' = [Sampled(gpu_done) EXCEPT !.loading = FALSE,
                                      !.state = IF gpu_done THEN "HEADER_INSTR_L" ELSE @]

\* Whatever the host sends now is dropped.  gpu_done stays up from the run
\* before until the reset, hence the edge.
DmaRun(gpu_done) ==
  /\ dma.state = "RUN"
  /\ dma' = [Sampled(gpu_done) EXCEPT
               !.loading = FALSE,
               !.state = IF gpu_done /\ ~dma.gpu_done_d THEN "HEADER_INSTR_L" ELSE @]

Dma(gpu_done, rx_valid, b) ==
  \/ DmaHeader(gpu_done, rx_valid, b)
  \/ DmaLoadInstr(gpu_done, rx_valid, b)
  \/ DmaLoadData(gpu_done, rx_valid, b)
  \/ DmaRun(gpu_done)

\* Mutant: the DMA fills the copy of core 0 only.
MemoriesOneCopy(store) ==
  /\ rom' = IF dma.instr_we THEN [rom EXCEPT ![dma.instr_waddr] = dma.instr_wdata] ELSE rom
  /\ mem' = [c \in Cores |->
               IF dma.loading /\ dma.mem_we /\ c = 0 THEN [mem[c] EXCEPT ![dma.mem_waddr] = dma.mem_wdata]
               ELSE IF ~dma.loading /\ store[c].we
                    THEN [mem[c] EXCEPT ![store[c].addr] = store[c].data] ELSE mem[c]]

\* The write port of each copy belongs to the DMA while it is loading and to the
\* core otherwise; the program memory always takes the DMA's word.
Memories(store) ==
  /\ rom' = IF dma.instr_we THEN [rom EXCEPT ![dma.instr_waddr] = dma.instr_wdata] ELSE rom
  /\ mem' = [c \in Cores |->
               LET port == IF dma.loading
                           THEN [we |-> dma.mem_we, addr |-> dma.mem_waddr, data |-> dma.mem_wdata]
                           ELSE store[c]
               IN IF port.we THEN [mem[c] EXCEPT ![port.addr] = port.data] ELSE mem[c]]
=============================================================================
