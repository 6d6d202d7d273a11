---------------------------- MODULE Board_proofs ----------------------------
(***************************************************************************)
(* For every workload and every size of the memories:                      *)
(* Loading: the registers of the board keep their widths, and what a frame *)
(* is.                                                                     *)
(* Runs: a run has its frame, the DMA and the cores never share the write  *)
(* port, and the host reads exactly what the kernel emits.                 *)
(***************************************************************************)
EXTENDS Board, SequenceTheorems, TLAPS

DmaType ==
  [state : DmaStates, wptr : 0 .. AddrSize - 1, gpu_done_d : BOOLEAN,
   instr_size : Size, data_size : Size, low : Byte, byte_toggle : {0, 1},
   gpu_start : BOOLEAN, loading : BOOLEAN,
   mem_we : BOOLEAN, mem_waddr : 0 .. AddrSize - 1, mem_wdata : Byte,
   instr_we : BOOLEAN, instr_waddr : 0 .. ProgSize - 1, instr_wdata : Byte \X Byte]

CoreType ==
  [state : {"IDLE", "RUN", "DONE"}, left : Seq(Byte), valid : BOOLEAN, data : Byte,
   we : BOOLEAN, addr : 0 .. AddrSize - 1, stored : BOOLEAN]

LoaderTyped ==
  /\ dma \in DmaType
  /\ rom \in [0 .. ProgSize - 1 -> Byte \X Byte]
  /\ mem \in [Cores -> [0 .. AddrSize - 1 -> Byte]]

EmitTyped ==
  /\ turn \in {"CORE0", "CORE1", "END"} /\ estate \in {"IDLE", "SEND", "WAIT"}
  /\ tx_start \in BOOLEAN /\ emit_ready \in BOOLEAN
  /\ tx \in [state : {"IDLE", "SHIFT"}, busy : BOOLEAN, shift : Byte]

RunTyped ==
  /\ armed \in BOOLEAN /\ gpu_reset \in BOOLEAN /\ dispatched \in BOOLEAN /\ core_start \in BOOLEAN
  /\ runrst \in 0 .. RunRst
  /\ core \in [Cores -> CoreType]
  /\ \A c \in Cores : core[c].valid => core[c].state = "RUN" /\ core[c].left # << >>

HostTyped ==
  /\ rx_valid \in BOOLEAN /\ rx_byte \in Byte /\ wire \in Seq(Byte) /\ reply \in Seq(Byte)
  /\ queue \in Seq(Frames) /\ job \in Frames

Typed == LoaderTyped /\ EmitTyped /\ RunTyped /\ HostTyped
-----------------------------------------------------------------------------
(* Arithmetic of the header.                                                *)

\* A number below the modulus is its own residue.
LEMMA ModSmall ==
  ASSUME NEW m \in Nat \ {0}, NEW x \in 0 .. m - 1
  PROVE  x % m = x
OBVIOUS

\* A number is made of its quotient and its remainder.
LEMMA ModDiv ==
  ASSUME NEW m \in Nat \ {0}, NEW x \in Nat
  PROVE  x = (x \div m) * m + (x % m)
OBVIOUS

\* A 16-bit size is two bytes.
LEMMA FieldBytes ==
  ASSUME NEW x \in Size
  PROVE  x % ByteSize \in Byte /\ x \div ByteSize \in Byte
BY LoaderAssumption DEF Size, Byte

\* dma_controller.sv: reading the low byte, then the high one, puts the size together
\* again.
LEMMA FieldIsRead ==
  ASSUME NEW s \in Size, NEW b \in Byte
  PROVE  /\ SetLow(s, b) \in Size /\ SetHigh(s, b) \in Size
         /\ SetLow(s, b) % ByteSize = b
         /\ \A x \in Size : s % ByteSize = x % ByteSize /\ b = x \div ByteSize => SetHigh(s, b) = x
<1>1. s % ByteSize \in Byte /\ s \div ByteSize \in Byte
  BY FieldBytes
<1>2. ASSUME NEW k \in Byte, NEW c \in Byte
      PROVE  k * ByteSize + c \in Size /\ c + ByteSize * k \in Size
  BY LoaderAssumption DEF Size, Byte
<1>3. SetLow(s, b) \in Size /\ SetHigh(s, b) \in Size
  BY <1>1, <1>2 DEF SetLow, SetHigh
<1>4. ASSUME NEW k \in Byte PROVE (k * ByteSize + b) % ByteSize = b
  BY LoaderAssumption DEF Byte
<1>5. SetLow(s, b) % ByteSize = b
  BY <1>1, <1>4 DEF SetLow
<1>6. ASSUME NEW x \in Size, s % ByteSize = x % ByteSize, b = x \div ByteSize
      PROVE  SetHigh(s, b) = x
  <2>1. x = (x \div ByteSize) * ByteSize + (x % ByteSize) /\ x % ByteSize \in Byte /\ x \div ByteSize \in Byte
    <3>1. x \in Nat /\ ByteSize \in Nat \ {0}
      BY LoaderAssumption DEF Size
    <3>2. QED
      BY <3>1, ModDiv, FieldBytes
  <2>2. ASSUME NEW q \in Byte, NEW r \in Byte PROVE q * ByteSize + r = r + ByteSize * q
    BY LoaderAssumption DEF Byte
  <2>3. QED
    BY <1>6, <2>1, <2>2 DEF SetHigh
<1>7. QED
  BY <1>3, <1>5, <1>6

-----------------------------------------------------------------------------
(* The bytes of a frame.                                                    *)

\* A frame of the workload has the types and the lengths that its header can say.
LEMMA FramesOfWorkload ==
  ASSUME NEW f \in Frames
  PROVE  /\ f.prog \in Seq(Byte \X Byte) /\ f.data \in Seq(Byte)
         /\ f.emits \in [Cores -> Seq(Byte)]
         /\ Len(f.prog) \in Size /\ Len(f.prog) \in 0 .. AddrSize /\ Len(f.prog) <= ProgSize
         /\ Len(f.data) \in Size /\ Len(f.data) \in 0 .. AddrSize
BY DEF Frames

\* send_kernel.py: the words of a program on the line, low and high byte in turn.
LEMMA FlatBytes ==
  ASSUME NEW p \in Seq(Byte \X Byte)
  PROVE  /\ Flat(p) \in Seq(Byte) /\ Len(Flat(p)) = 2 * Len(p)
         /\ \A k \in 1 .. Len(p) : Flat(p)[2 * k - 1] = p[k][1] /\ Flat(p)[2 * k] = p[k][2]
<1>1. Len(p) \in Nat /\ \A k \in 1 .. Len(p) : p[k] \in Byte \X Byte
  BY LenProperties
<1>2. \A i \in 1 .. 2 * Len(p) : (i + 1) \div 2 \in 1 .. Len(p) /\ 2 - (i % 2) \in {1, 2}
  BY <1>1
<1>3. \A i \in 1 .. 2 * Len(p) : p[(i + 1) \div 2][2 - (i % 2)] \in Byte
  BY <1>1, <1>2
<1>4. 2 * Len(p) \in Nat /\ Flat(p) \in [1 .. 2 * Len(p) -> Byte]
  BY <1>1, <1>3 DEF Flat
<1>5. Flat(p) \in Seq(Byte) /\ Len(Flat(p)) = 2 * Len(p)
  <2>1. \A i \in 1 .. 2 * Len(p) : Flat(p)[i] \in Byte
    BY <1>4
  <2>2. Flat(p) = [i \in 1 .. 2 * Len(p) |-> Flat(p)[i]]
    BY <1>4
  <2> HIDE DEF Flat
  <2>3. QED
    BY <1>4, <2>1, <2>2, SMT
<1>6. ASSUME NEW k \in 1 .. Len(p)
      PROVE  Flat(p)[2 * k - 1] = p[k][1] /\ Flat(p)[2 * k] = p[k][2]
  <2>1. /\ 2 * k - 1 \in 1 .. 2 * Len(p) /\ 2 * k \in 1 .. 2 * Len(p)
        /\ (2 * k - 1 + 1) \div 2 = k /\ (2 * k + 1) \div 2 = k
        /\ 2 - ((2 * k - 1) % 2) = 1 /\ 2 - ((2 * k) % 2) = 2
    BY <1>1
  <2>2. QED
    BY <2>1 DEF Flat
<1>7. QED
  BY <1>5, <1>6

\* The parts of two byte sequences joined, by index.
LEMMA Joined ==
  ASSUME NEW s \in Seq(Byte), NEW t \in Seq(Byte)
  PROVE  /\ s \o t \in Seq(Byte) /\ Len(s \o t) = Len(s) + Len(t)
         /\ \A i \in 1 .. Len(s) : (s \o t)[i] = s[i]
         /\ \A i \in 1 .. Len(t) : (s \o t)[Len(s) + i] = t[i]
OBVIOUS

\* b is the four sequences one after the other.
Four(p, d, w, x) == ((p \o d) \o w) \o x
FourInOne(b, p, d, w, x) ==
  /\ b \in Seq(Byte) /\ Len(b) = Len(p) + Len(d) + Len(w) + Len(x)
  /\ \A i \in 1 .. Len(p) : b[i] = p[i]
  /\ \A i \in 1 .. Len(d) : b[Len(p) + i] = d[i]
  /\ \A i \in 1 .. Len(w) : b[Len(p) + Len(d) + i] = w[i]
  /\ \A i \in 1 .. Len(x) : b[Len(p) + Len(d) + Len(w) + i] = x[i]

\* The parts of four byte sequences joined, by index.
LEMMA FourParts ==
  ASSUME NEW p \in Seq(Byte), NEW d \in Seq(Byte), NEW w \in Seq(Byte), NEW x \in Seq(Byte)
  PROVE  FourInOne(Four(p, d, w, x), p, d, w, x)
<1> DEFINE h == p \o d
           k == h \o w
           b == k \o x
<1>1. /\ h \in Seq(Byte) /\ Len(h) = Len(p) + Len(d)
      /\ \A i \in 1 .. Len(p) : h[i] = p[i]
      /\ \A i \in 1 .. Len(d) : h[Len(p) + i] = d[i]
  BY Joined
<1> HIDE DEF h
<1>2. /\ k \in Seq(Byte) /\ Len(k) = Len(h) + Len(w)
      /\ \A i \in 1 .. Len(h) : k[i] = h[i]
      /\ \A i \in 1 .. Len(w) : k[Len(h) + i] = w[i]
  <2>1. h \in Seq(Byte)
    BY <1>1
  <2>2. QED
    BY <2>1, Joined, Zenon
<1>3. Four(p, d, w, x) = b
  BY DEF Four, h
<1> HIDE DEF k
<1>4. /\ b \in Seq(Byte) /\ Len(b) = Len(k) + Len(x)
      /\ \A i \in 1 .. Len(k) : b[i] = k[i]
      /\ \A i \in 1 .. Len(x) : b[Len(k) + i] = x[i]
  <2>1. k \in Seq(Byte)
    BY <1>2
  <2>2. QED
    BY <2>1, Joined, Zenon
<1> HIDE DEF b
<1>5. Len(p) \in Nat /\ Len(d) \in Nat /\ Len(w) \in Nat /\ Len(x) \in Nat
  OBVIOUS
<1>6. b \in Seq(Byte) /\ Len(b) = Len(p) + Len(d) + Len(w) + Len(x)
  BY <1>1, <1>2, <1>4
<1>7. \A i \in 1 .. Len(p) : b[i] = p[i]
  BY <1>1, <1>2, <1>4, <1>5
<1>8. \A i \in 1 .. Len(d) : b[Len(p) + i] = d[i]
  <2> SUFFICES ASSUME NEW i \in 1 .. Len(d) PROVE b[Len(p) + i] = d[i]
    OBVIOUS
  <2>1. Len(p) + i \in 1 .. Len(h) /\ Len(p) + i \in 1 .. Len(k)
    BY <1>1, <1>2, <1>5
  <2>2. b[Len(p) + i] = k[Len(p) + i]
    BY <2>1, <1>4
  <2>3. k[Len(p) + i] = h[Len(p) + i]
    BY <2>1, <1>2
  <2>4. QED
    BY <2>2, <2>3, <1>1
<1>9. \A i \in 1 .. Len(w) : b[Len(p) + Len(d) + i] = w[i]
  <2> SUFFICES ASSUME NEW i \in 1 .. Len(w) PROVE b[Len(p) + Len(d) + i] = w[i]
    OBVIOUS
  <2>1. Len(p) + Len(d) + i = Len(h) + i /\ Len(h) + i \in 1 .. Len(k)
    BY <1>1, <1>2, <1>5
  <2>2. QED
    BY <2>1, <1>2, <1>4
<1>10. \A i \in 1 .. Len(x) : b[Len(p) + Len(d) + Len(w) + i] = x[i]
  BY <1>1, <1>2, <1>4, <1>5
<1>11. QED
  BY <1>3, <1>6, <1>7, <1>8, <1>9, <1>10 DEF FourInOne

\* b is a frame with header fields p and d, n words w and data x.
FrameOf(b, p, d, n, w, x) ==
  /\ b \in Seq(Byte) /\ Len(b) = 4 + 2 * n + Len(x)
  /\ b[1] = p[1] /\ b[2] = p[2] /\ b[3] = d[1] /\ b[4] = d[2]
  /\ \A k \in 1 .. n : b[4 + (2 * k - 1)] = w[2 * k - 1] /\ b[4 + 2 * k] = w[2 * k]
  /\ \A k \in 1 .. Len(x) : b[4 + 2 * n + k] = x[k]

\* The same, of two fields of two bytes each, 2 * n bytes of words, and data.
LEMMA FrameParts ==
  ASSUME NEW p \in Seq(Byte), NEW d \in Seq(Byte), NEW w \in Seq(Byte), NEW x \in Seq(Byte),
         NEW n \in Nat
  PROVE  Len(p) = 2 /\ Len(d) = 2 /\ Len(w) = 2 * n => FrameOf(Four(p, d, w, x), p, d, n, w, x)
<1> DEFINE b == Four(p, d, w, x)
<1>1. FourInOne(b, p, d, w, x)
  BY FourParts
<1> HIDE DEF b
<1>2. Len(x) \in Nat
  OBVIOUS
<1>3. ASSUME Len(p) = 2, Len(d) = 2, Len(w) = 2 * n
      PROVE  FrameOf(b, p, d, n, w, x)
  <2>1. b \in Seq(Byte) /\ Len(b) = 4 + 2 * n + Len(x)
    BY <1>1, <1>2, <1>3 DEF FourInOne
  <2>2. \A i \in 1 .. 2 : b[i] = p[i] /\ b[2 + i] = d[i]
    BY <1>1, <1>3 DEF FourInOne
  <2>3. b[1] = p[1] /\ b[2] = p[2] /\ b[2 + 1] = d[1] /\ b[2 + 2] = d[2]
    BY <2>2
  <2>4. \A i \in 1 .. 2 * n : b[4 + i] = w[i]
    BY <1>1, <1>3 DEF FourInOne
  <2>5. \A k \in 1 .. n : b[4 + (2 * k - 1)] = w[2 * k - 1] /\ b[4 + 2 * k] = w[2 * k]
    <3>1. \A k \in 1 .. n : 2 * k - 1 \in 1 .. 2 * n /\ 2 * k \in 1 .. 2 * n
      OBVIOUS
    <3>2. QED
      BY <2>4, <3>1
  <2>6. \A k \in 1 .. Len(x) : b[4 + 2 * n + k] = x[k]
    BY <1>1, <1>2, <1>3 DEF FourInOne
  <2>7. 2 + 1 = 3 /\ 2 + 2 = 4
    OBVIOUS
  <2>8. QED
    BY <2>1, <2>3, <2>5, <2>6, <2>7 DEF FrameOf
<1>4. QED
  BY <1>3 DEF b

\* send_kernel.py: a size goes out low byte first.
LEMMA FieldLayout ==
  ASSUME NEW n \in Size
  PROVE  /\ Field(n) \in Seq(Byte) /\ Len(Field(n)) = 2
         /\ Field(n)[1] = n % ByteSize /\ Field(n)[2] = n \div ByteSize
BY FieldBytes DEF Field

\* Which byte of a frame on the line is which.
LEMMA FrameLayout ==
  ASSUME NEW f \in Frames
  PROVE  /\ FrameBytes(f) \in Seq(Byte) /\ Len(FrameBytes(f)) = 4 + 2 * Len(f.prog) + Len(f.data)
         /\ FrameBytes(f)[1] = Len(f.prog) % ByteSize /\ FrameBytes(f)[2] = Len(f.prog) \div ByteSize
         /\ FrameBytes(f)[3] = Len(f.data) % ByteSize /\ FrameBytes(f)[4] = Len(f.data) \div ByteSize
         /\ \A k \in 1 .. Len(f.prog) : /\ FrameBytes(f)[4 + (2 * k - 1)] = f.prog[k][1]
                                        /\ FrameBytes(f)[4 + 2 * k] = f.prog[k][2]
         /\ \A k \in 1 .. Len(f.data) : FrameBytes(f)[4 + 2 * Len(f.prog) + k] = f.data[k]
<1>a. /\ f.prog \in Seq(Byte \X Byte) /\ f.data \in Seq(Byte) 
      /\ Len(f.prog) \in Nat /\ Len(f.prog) \in Size /\ Len(f.data) \in Size
  BY FramesOfWorkload
<1>b. /\ Flat(f.prog) \in Seq(Byte) /\ Len(Flat(f.prog)) = 2 * Len(f.prog)
      /\ \A k \in 1 .. Len(f.prog) :
           Flat(f.prog)[2 * k - 1] = f.prog[k][1] /\ Flat(f.prog)[2 * k] = f.prog[k][2]
  BY <1>a, FlatBytes
<1>1. PICK p : /\ p = Field(Len(f.prog)) /\ p \in Seq(Byte) /\ Len(p) = 2
               /\ p[1] = Len(f.prog) % ByteSize /\ p[2] = Len(f.prog) \div ByteSize
  BY <1>a, FieldLayout, Zenon
<1>2. PICK d : /\ d = Field(Len(f.data)) /\ d \in Seq(Byte) /\ Len(d) = 2
               /\ d[1] = Len(f.data) % ByteSize /\ d[2] = Len(f.data) \div ByteSize
  BY <1>a, FieldLayout, Zenon
<1>3. PICK w : /\ w = Flat(f.prog) /\ w \in Seq(Byte) /\ Len(w) = 2 * Len(f.prog)
               /\ \A k \in 1 .. Len(f.prog) : w[2 * k - 1] = f.prog[k][1] /\ w[2 * k] = f.prog[k][2]
  BY <1>b
<1>4. PICK x : x = f.data /\ x \in Seq(Byte)
  BY <1>a
<1>5. PICK n \in Nat : n = Len(f.prog)
  BY <1>a
<1>6. FrameBytes(f) = Four(p, d, w, x)
  BY <1>1, <1>2, <1>3, <1>4 DEF FrameBytes, Four
<1>7. Len(w) = 2 * n
  BY <1>3, <1>5
<1>8. FrameOf(FrameBytes(f), p, d, n, w, x)
  <2>1. p \in Seq(Byte) /\ d \in Seq(Byte) /\ w \in Seq(Byte) /\ x \in Seq(Byte)
    BY <1>1, <1>2, <1>3, <1>4
  <2>2. Len(p) = 2 /\ Len(d) = 2
    BY <1>1, <1>2
  <2>3. FrameOf(Four(p, d, w, x), p, d, n, w, x)
    BY <1>7, <2>1, <2>2, FrameParts
  <2>4. QED
    BY <1>6, <2>3
<1>9. QED
  BY <1>1, <1>2, <1>3, <1>4, <1>5, <1>8 DEF FrameOf

-----------------------------------------------------------------------------
(* Types.                                                                   *)

\* The constants of reset are in range, and a pointer cut to the width of a memory
\* addresses it.
LEMMA MachineTypes ==
  /\ 0 \in Byte /\ 1 \in Byte /\ ByteSize - 1 \in Byte
  /\ 0 \in 0 .. AddrSize - 1 /\ AddrSize - 1 \in 0 .. AddrSize - 1 /\ 0 \in 0 .. ProgSize - 1
  /\ 0 \in Size
  /\ \A x \in Nat : x % AddrSize \in 0 .. AddrSize - 1 /\ x % ProgSize \in 0 .. ProgSize - 1
<1>1. ByteSize \in Nat \ {0, 1} /\ AddrSize \in Nat \ {0} /\ ProgSize \in Nat \ {0}
  BY LoaderAssumption
<1>2. 0 \in Byte /\ 1 \in Byte /\ ByteSize - 1 \in Byte
  BY <1>1 DEF Byte
<1>3. 0 \in 0 .. AddrSize - 1 /\ AddrSize - 1 \in 0 .. AddrSize - 1 /\ 0 \in 0 .. ProgSize - 1
  BY <1>1
<1>4. 0 \in Size
  <2>1. ByteSize * ByteSize \in Nat \ {0}
    BY <1>1
  <2>2. QED
    BY <2>1 DEF Size
<1>5. \A x \in Nat : x % AddrSize \in 0 .. AddrSize - 1 /\ x % ProgSize \in 0 .. ProgSize - 1
  BY <1>1
<1>6. QED
  BY <1>2, <1>3, <1>4, <1>5

\* The board begins with every register in range.
LEMMA TypedInit == Init => Typed
<1> SUFFICES ASSUME Init PROVE Typed
  OBVIOUS
<1>1. LoaderTyped
  BY MachineTypes DEF Init, LoaderInit, LoaderTyped, DmaReset, DmaType, DmaStates
<1>2. EmitTyped
  BY MachineTypes DEF Init, EmitInit, EmitTyped
<1>3. RunTyped
  <2>1. << >> \in Seq(Byte) /\ CoreReset \in CoreType /\ ~CoreReset.valid
    BY MachineTypes DEF CoreReset, CoreType
  <2>2. 0 \in 0 .. RunRst
    BY BoardAssumption
  <2>3. QED
    BY <2>1, <2>2 DEF Init, RunTyped
<1>4. HostTyped
  <2>1. PICK w \in Workloads : job = w[1] /\ wire = FrameBytes(w[1]) /\ queue = Tail(w)
    BY DEF Init
  <2>2. w \in Seq(Frames) /\ w # << >>
    BY BoardAssumption
  <2>3. job \in Frames /\ queue \in Seq(Frames)
    BY <2>1, <2>2
  <2>4. wire = FrameBytes(job)
    BY <2>1
  <2>5. wire \in Seq(Byte) /\ << >> \in Seq(Byte)
    <3>1. FrameBytes(job) \in Seq(Byte)
      BY <2>3, FrameLayout, Zenon
    <3>2. QED
      BY <2>4, <3>1
  <2>6. QED
    BY <2>3, <2>5, MachineTypes DEF Init, HostTyped
<1>5. QED
  BY <1>1, <1>2, <1>3, <1>4 DEF Typed

\* What every cycle does, whatever the host does in it.
LEMMA EveryCycle == Next => Machine
BY DEF Next, Quiet, ByteArrives, NextFrame

\* The registers of the DMA and the memories stay in range.
LEMMA LoaderTypedStep ==
  ASSUME Typed, Next
  PROVE  LoaderTyped'
<1>1. /\ Dma(done, rx_valid, rx_byte) /\ Memories(Store)
      /\ dma \in DmaType /\ rx_byte \in Byte /\ dma.wptr \in Nat /\ done \in BOOLEAN
  BY EveryCycle DEF Machine, Typed, LoaderTyped, HostTyped, RunTyped, DmaType, done, core_done
<1>2. Sampled(done) \in DmaType /\ \A b \in BOOLEAN : [Sampled(done) EXCEPT !.loading = b] \in DmaType
  BY <1>1 DEF Sampled, DmaType
<1>3. dma' \in DmaType
  <2> DEFINE d == Sampled(done)
             u == [d EXCEPT !.loading = TRUE]
  <2>a. d \in DmaType /\ u \in DmaType /\ u.instr_size \in Size /\ u.data_size \in Size
    BY <1>2 DEF DmaType
  <2>1. CASE DmaHeader(done, rx_valid, rx_byte)
    <3>1. \/ dma' = u
          \/ dma' = [u EXCEPT !.instr_size = SetLow(@, rx_byte), !.state = "HEADER_INSTR_H"]
          \/ dma' = [u EXCEPT !.instr_size = SetHigh(@, rx_byte), !.state = "HEADER_DATA_L"]
          \/ dma' = [u EXCEPT !.data_size = SetLow(@, rx_byte), !.state = "HEADER_DATA_H"]
          \/ dma' = [u EXCEPT !.data_size = SetHigh(@, rx_byte),
                              !.wptr = 0, !.instr_waddr = 0, !.byte_toggle = 0,
                              !.state = IF dma.instr_size = 0 THEN "LOAD_DATA" ELSE "LOAD_INSTR"]
      BY <2>1 DEF DmaHeader
    <3>2. /\ SetLow(u.instr_size, rx_byte) \in Size /\ SetHigh(u.instr_size, rx_byte) \in Size
          /\ SetLow(u.data_size, rx_byte) \in Size /\ SetHigh(u.data_size, rx_byte) \in Size
      BY <1>1, <2>a, FieldIsRead
    <3> HIDE DEF u, d
    <3>3. /\ [u EXCEPT !.instr_size = SetLow(@, rx_byte), !.state = "HEADER_INSTR_H"] \in DmaType
          /\ [u EXCEPT !.instr_size = SetHigh(@, rx_byte), !.state = "HEADER_DATA_L"] \in DmaType
          /\ [u EXCEPT !.data_size = SetLow(@, rx_byte), !.state = "HEADER_DATA_H"] \in DmaType
      BY <2>a, <3>2 DEF DmaType, DmaStates
    <3>4. \A b \in {"LOAD_DATA", "LOAD_INSTR"} :
            [u EXCEPT !.data_size = SetHigh(@, rx_byte),
                      !.wptr = 0, !.instr_waddr = 0, !.byte_toggle = 0, !.state = b] \in DmaType
      BY <2>a, <3>2, MachineTypes DEF DmaType, DmaStates
    <3>5. QED
      BY <2>a, <3>1, <3>3, <3>4
  <2>2. CASE DmaLoadInstr(done, rx_valid, rx_byte)
    <3> DEFINE last == dma.wptr + 1 = dma.instr_size
    <3>1. \/ dma' = u
          \/ dma' = [u EXCEPT !.low = rx_byte, !.byte_toggle = 1]
          \/ dma' = [u EXCEPT !.instr_we = TRUE, !.instr_waddr = dma.wptr % ProgSize,
                              !.instr_wdata = <<dma.low, rx_byte>>, !.byte_toggle = 0,
                              !.wptr = IF last THEN 0 ELSE (@ + 1) % AddrSize,
                              !.state = IF ~last THEN @
                                        ELSE IF dma.data_size = 0 THEN "RUN" ELSE "LOAD_DATA",
                              !.gpu_start = last /\ dma.data_size = 0]
      BY <2>2 DEF DmaLoadInstr
    <3>2. /\ dma.wptr % ProgSize \in 0 .. ProgSize - 1 /\ (u.wptr + 1) % AddrSize \in 0 .. AddrSize - 1
          /\ <<dma.low, rx_byte>> \in Byte \X Byte
      <4>1. u.wptr + 1 \in Nat /\ dma.low \in Byte
        BY <1>1, <2>a DEF DmaType
      <4>2. QED
        BY <1>1, <4>1, MachineTypes
    <3> HIDE DEF u, d, last
    <3>3. [u EXCEPT !.low = rx_byte, !.byte_toggle = 1] \in DmaType
      BY <1>1, <2>a DEF DmaType
    <3>4. \A p \in {0, (u.wptr + 1) % AddrSize}, b \in {u.state, "RUN", "LOAD_DATA"}, g \in BOOLEAN :
            [u EXCEPT !.instr_we = TRUE, !.instr_waddr = dma.wptr % ProgSize,
                      !.instr_wdata = <<dma.low, rx_byte>>, !.byte_toggle = 0,
                      !.wptr = p, !.state = b, !.gpu_start = g] \in DmaType
      BY <2>a, <3>2, MachineTypes DEF DmaType, DmaStates
    <3>5. QED
      BY <2>a, <3>1, <3>3, <3>4
  <2>3. CASE DmaLoadData(done, rx_valid, rx_byte)
    <3> DEFINE last == dma.wptr + 1 = dma.data_size % AddrSize
    <3>1. \/ dma' = [d EXCEPT !.gpu_start = TRUE, !.loading = FALSE, !.state = "RUN"]
          \/ dma' = u
          \/ dma' = [d EXCEPT !.mem_we = TRUE, !.mem_waddr = dma.wptr, !.mem_wdata = rx_byte,
                              !.wptr = IF last THEN 0 ELSE (@ + 1) % AddrSize,
                              !.gpu_start = last, !.loading = ~last,
                              !.state = IF last THEN "RUN" ELSE @]
      BY <2>3 DEF DmaLoadData
    <3>2. (d.wptr + 1) % AddrSize \in 0 .. AddrSize - 1 /\ dma.wptr \in 0 .. AddrSize - 1
      <4>1. d.wptr + 1 \in Nat
        BY <2>a DEF DmaType
      <4>2. QED
        BY <1>1, <4>1, MachineTypes DEF DmaType
    <3>3. [d EXCEPT !.gpu_start = TRUE, !.loading = FALSE, !.state = "RUN"] \in DmaType
      BY <2>a DEF DmaType, DmaStates
    <3>4. PICK p \in 0 .. AddrSize - 1, w \in 0 .. AddrSize - 1 :
            p = dma.wptr /\ w = (d.wptr + 1) % AddrSize
      BY <3>2
    <3>5. (last = TRUE) \/ (last = FALSE)
      OBVIOUS
    <3> HIDE DEF u, d, last
    <3>6. \A q \in {0, w}, b \in {d.state, "RUN"}, g \in BOOLEAN, h \in BOOLEAN :
            [d EXCEPT !.mem_we = TRUE, !.mem_waddr = p, !.mem_wdata = rx_byte, !.wptr = q,
                      !.gpu_start = g, !.loading = h, !.state = b] \in DmaType
      <4>1. rx_byte \in Byte /\ 0 \in 0 .. AddrSize - 1
        BY <1>1, MachineTypes
      <4>2. [d EXCEPT !.mem_we = TRUE, !.mem_waddr = p, !.mem_wdata = rx_byte] \in DmaType
        BY <2>a, <4>1 DEF DmaType
      <4>3. PICK e \in DmaType : e = [d EXCEPT !.mem_we = TRUE, !.mem_waddr = p, !.mem_wdata = rx_byte]
        BY <4>2
      <4>4. \A q \in 0 .. AddrSize - 1, b \in DmaStates, g \in BOOLEAN, h \in BOOLEAN :
              [e EXCEPT !.wptr = q, !.gpu_start = g, !.loading = h, !.state = b] \in DmaType
        BY DEF DmaType
      <4>5. \A q \in {0, w}, b \in {d.state, "RUN"} : q \in 0 .. AddrSize - 1 /\ b \in DmaStates
        BY <2>a, <4>1 DEF DmaType, DmaStates
      <4>6. QED
        BY <4>3, <4>4, <4>5
    <3>7. CASE last = TRUE
      BY <2>a, <3>1, <3>3, <3>4, <3>6, <3>7
    <3>8. CASE last = FALSE
      BY <2>a, <3>1, <3>3, <3>4, <3>6, <3>8
    <3>9. QED
      BY <3>5, <3>7, <3>8
  <2>4. CASE DmaRun(done)
    <3>1. \E b \in {"HEADER_INSTR_L", d.state} : dma' = [d EXCEPT !.loading = FALSE, !.state = b]
      BY <2>4 DEF DmaRun
    <3> HIDE DEF u, d
    <3>2. QED
      BY <2>a, <3>1 DEF DmaType, DmaStates
  <2>5. QED
    BY <1>1, <2>1, <2>2, <2>3, <2>4 DEF Dma
<1>4. rom' \in [0 .. ProgSize - 1 -> Byte \X Byte]
  BY <1>1 DEF Memories, Typed, LoaderTyped, DmaType
<1>5. mem' \in [Cores -> [0 .. AddrSize - 1 -> Byte]]
  <2>1. \A c \in Cores : Store[c].addr \in 0 .. AddrSize - 1 /\ Store[c].data \in Byte
    BY MachineTypes DEF Store, Typed, RunTyped, CoreType
  <2>2. QED
    BY <1>1, <2>1 DEF Memories, Typed, LoaderTyped, DmaType
<1>6. QED
  BY <1>3, <1>4, <1>5 DEF LoaderTyped

\* The registers of the emit path stay in range.
LEMMA EmitTypedStep ==
  ASSUME Typed, Next
  PROVE  EmitTyped'
<1>1. EmitStep(gpu_reset, core_done, Port)
  BY EveryCycle DEF Machine
<1>2. EmitData(Port) \in Byte
  BY DEF EmitData, Port, Typed, RunTyped, CoreType, Cores
<1>a. tx \in [state : {"IDLE", "SHIFT"}, busy : BOOLEAN, shift : Byte]
  BY DEF Typed, EmitTyped
<1>3. turn' \in {"CORE0", "CORE1", "END"}
  BY <1>1 DEF EmitStep, Turn, Typed, EmitTyped
<1>4. /\ estate' \in {"IDLE", "SEND", "WAIT"} /\ tx_start' \in BOOLEAN /\ emit_ready' \in BOOLEAN
  BY <1>1 DEF EmitStep, Handshake, Typed, EmitTyped
<1>5. tx' \in [state : {"IDLE", "SHIFT"}, busy : BOOLEAN, shift : Byte]
  <2>1. [state |-> "SHIFT", busy |-> TRUE, shift |-> EmitData(Port)]
          \in [state : {"IDLE", "SHIFT"}, busy : BOOLEAN, shift : Byte]
    BY <1>2
  <2>2. /\ [tx EXCEPT !.busy = FALSE] \in [state : {"IDLE", "SHIFT"}, busy : BOOLEAN, shift : Byte]
        /\ [tx EXCEPT !.state = "IDLE"] \in [state : {"IDLE", "SHIFT"}, busy : BOOLEAN, shift : Byte]
    BY <1>a
  <2>3. QED
    BY <1>1, <1>a, <2>1, <2>2 DEF EmitStep, Transmit
<1>6. QED
  BY <1>3, <1>4, <1>5 DEF EmitTyped

\* A core that runs stays one.
LEMMA RunningTypes ==
  ASSUME Typed, NEW c \in Cores, core[c].state = "RUN", NEW r \in Running(c)
  PROVE  r \in CoreType /\ (r.valid => r.state = "RUN" /\ r.left # << >>)
<1>1. core[c] \in CoreType /\ (core[c].left # << >> => Head(core[c].left) \in Byte)
  BY DEF Typed, RunTyped, CoreType
<1> DEFINE k == [core[c] EXCEPT !.we = FALSE]
<1>2. k \in CoreType /\ k.state = "RUN" /\ k.left = core[c].left /\ k.valid = core[c].valid
  BY <1>1 DEF CoreType
<1>3. k.valid => k.left # << >>
  BY <1>2 DEF Typed, RunTyped
<1>4. \/ r = k
      \/ \E a \in {0, AddrSize - 1} : r = [k EXCEPT !.we = TRUE, !.addr = a, !.stored = TRUE]
      \/ k.left # << >> /\ r = [k EXCEPT !.valid = TRUE, !.data = Head(k.left)]
      \/ k.left = << >> /\ r = [k EXCEPT !.state = "DONE"]
  BY <1>2 DEF Running
<1> HIDE DEF k
<1>5. CASE r = k
  BY <1>2, <1>3, <1>5
<1>6. ASSUME NEW a \in {0, AddrSize - 1}, r = [k EXCEPT !.we = TRUE, !.addr = a, !.stored = TRUE]
      PROVE  r \in CoreType /\ (r.valid => r.state = "RUN" /\ r.left # << >>)
  BY <1>2, <1>3, <1>6, MachineTypes DEF CoreType
<1>7. CASE k.left # << >> /\ r = [k EXCEPT !.valid = TRUE, !.data = Head(k.left)]
  BY <1>1, <1>2, <1>7 DEF CoreType
<1>8. CASE k.left = << >> /\ r = [k EXCEPT !.state = "DONE"]
  BY <1>2, <1>3, <1>8 DEF CoreType
<1>9. QED
  BY <1>4, <1>5, <1>6, <1>7, <1>8

\* Every core takes the step of its state.
LEMMA CoreMoves ==
  ASSUME Typed, Next
  PROVE  core' \in [Cores -> CoreType] /\ \A c \in Cores : core'[c] \in CoreNext(c)
<1>1. PICK k0 \in CoreNext(0), k1 \in CoreNext(1) : core' = [c \in Cores |-> IF c = 0 THEN k0 ELSE k1]
  BY EveryCycle DEF Machine, TwoCores
<1>2. \A c \in Cores : core'[c] \in CoreNext(c)
  BY <1>1 DEF Cores
<1>3. ASSUME NEW c \in Cores PROVE CoreNext(c) \subseteq CoreType
  <2>1. /\ core[c] \in CoreType /\ job.emits[c] \in Seq(Byte) /\ core[c].left \in Seq(Byte)
        /\ core[c].state \in {"IDLE", "RUN", "DONE"}
        /\ core[c].valid => core[c].left # << >>
    <3>1. job.emits \in [Cores -> Seq(Byte)]
      BY FramesOfWorkload DEF Typed, HostTyped
    <3>2. QED
      BY <3>1 DEF Typed, RunTyped, CoreType
  <2>2. CoreReset \in CoreType
    BY MachineTypes DEF CoreReset, CoreType
  <2>3. [core[c] EXCEPT !.state = "RUN", !.left = job.emits[c]] \in CoreType
    BY <2>1 DEF CoreType
  <2>4. [core[c] EXCEPT !.we = FALSE] \in CoreType
    BY <2>1 DEF CoreType
  <2>5. core[c].left # << >> =>
          [core[c] EXCEPT !.valid = FALSE, !.left = Tail(@), !.we = FALSE] \in CoreType
    <3>1. core[c].left # << >> => Tail(core[c].left) \in Seq(Byte)
      BY <2>1
    <3>2. \A t \in Seq(Byte) : [core[c] EXCEPT !.valid = FALSE, !.left = t, !.we = FALSE] \in CoreType
      BY <2>1 DEF CoreType
    <3>3. QED
      BY <3>1, <3>2
  <2>6. core[c].state = "RUN" => Running(c) \subseteq CoreType
    BY RunningTypes
  <2>7. ASSUME NEW k \in CoreNext(c)
        PROVE  \/ k \in {CoreReset, core[c], [core[c] EXCEPT !.state = "RUN", !.left = job.emits[c]],
                         [core[c] EXCEPT !.we = FALSE]}
               \/ core[c].valid /\ k = [core[c] EXCEPT !.valid = FALSE, !.left = Tail(@), !.we = FALSE]
               \/ core[c].state = "RUN" /\ k \in Running(c)
    BY <2>1 DEF CoreNext
  <2>8. QED
    BY <2>1, <2>2, <2>3, <2>4, <2>5, <2>6, <2>7
<1>4. QED
  BY <1>1, <1>2, <1>3

\* The four things a core does in a cycle.
LEMMA CoreCases ==
  ASSUME Typed, Next, NEW c \in Cores
  PROVE  /\ gpu_reset => core'[c] = CoreReset
         /\ ~gpu_reset /\ core[c].state = "IDLE" =>
              core'[c] = IF core_start THEN [core[c] EXCEPT !.state = "RUN", !.left = job.emits[c]]
                         ELSE core[c]
         /\ ~gpu_reset /\ core[c].state = "RUN" /\ core[c].valid =>
              core'[c] = IF CoreReady(c)
                         THEN [core[c] EXCEPT !.valid = FALSE, !.left = Tail(@), !.we = FALSE]
                         ELSE [core[c] EXCEPT !.we = FALSE]
         /\ ~gpu_reset /\ core[c].state = "RUN" /\ ~core[c].valid => core'[c] \in Running(c)
         /\ ~gpu_reset /\ core[c].state = "DONE" => core'[c] = core[c]
<1>1. core'[c] \in CoreNext(c) /\ core[c].state \in {"IDLE", "RUN", "DONE"}
  BY CoreMoves DEF Typed, RunTyped, CoreType
<1>2. QED
  BY <1>1 DEF CoreNext

\* The registers of run control and the cores stay in range.
LEMMA RunTypedStep ==
  ASSUME Typed, Next
  PROVE  RunTyped'
<1>1. /\ armed' \in BOOLEAN /\ gpu_reset' \in BOOLEAN /\ dispatched' \in BOOLEAN /\ core_start' \in BOOLEAN
  BY EveryCycle DEF Machine, Arming, Dispatcher, Typed, RunTyped, LoaderTyped, DmaType
<1>2. runrst' \in 0 .. RunRst
  BY EveryCycle, BoardAssumption DEF Machine, Arming, Typed, RunTyped
<1>3. ASSUME NEW c \in Cores, core'[c].valid
      PROVE  core'[c].state = "RUN" /\ core'[c].left # << >>
  <2>1. core[c] \in CoreType /\ (core[c].valid => core[c].state = "RUN" /\ core[c].left # << >>)
    BY DEF Typed, RunTyped
  <2>2. ~CoreReset.valid
    BY DEF CoreReset
  <2>3. ~gpu_reset
    BY <1>3, <2>2, CoreCases
  <2>4. CASE core[c].state = "RUN" /\ core[c].valid
    BY <1>3, <2>1, <2>3, <2>4, CoreCases DEF CoreType
  <2>5. CASE core[c].state = "RUN" /\ ~core[c].valid
    BY <1>3, <2>3, <2>5, CoreCases, RunningTypes
  <2>6. CASE core[c].state # "RUN"
    BY <1>3, <2>1, <2>3, <2>6, CoreCases DEF CoreType
  <2>7. QED
    BY <2>4, <2>5, <2>6
<1>4. QED
  BY <1>1, <1>2, <1>3, CoreMoves DEF RunTyped

\* The host's frame, line and reply stay in range.
LEMMA HostTypedStep ==
  ASSUME Typed, Next
  PROVE  HostTyped'
<1>1. /\ rx_byte \in Byte /\ wire \in Seq(Byte) /\ reply \in Seq(Byte) /\ tx.shift \in Byte
      /\ queue \in Seq(Frames) /\ job \in Frames
  BY DEF Typed, HostTyped, EmitTyped
<1>2. Receive => reply' \in Seq(Byte)
  BY <1>1 DEF Receive
<1>3. CASE Quiet
  BY <1>1, <1>2, <1>3 DEF Quiet, HostTyped
<1>4. CASE ByteArrives
  <2>1. wire # << >> => Head(wire) \in Byte /\ Tail(wire) \in Seq(Byte)
    BY <1>1
  <2>2. QED
    BY <1>1, <1>2, <1>4, <2>1 DEF ByteArrives, HostTyped
<1>5. CASE NextFrame
  <2>1. queue # << >> => Head(queue) \in Frames /\ Tail(queue) \in Seq(Frames)
    BY <1>1
  <2>2. job' \in Frames /\ queue' \in Seq(Frames) /\ wire' = FrameBytes(job')
    BY <1>5, <2>1 DEF NextFrame
  <2>3. FrameBytes(job') \in Seq(Byte)
    BY <2>2, FrameLayout, Zenon
  <2>4. << >> \in Seq(Byte)
    OBVIOUS
  <2>5. QED
    BY <1>1, <1>5, <2>2, <2>3, <2>4 DEF NextFrame, HostTyped
<1>6. QED
  BY <1>3, <1>4, <1>5 DEF Next

\* A cycle of the board keeps every register in range.
LEMMA TypedStep ==
  ASSUME Typed, [Next]_vars
  PROVE  Typed'
<1>1. CASE Next
  BY <1>1, LoaderTypedStep, EmitTypedStep, RunTypedStep, HostTypedStep DEF Typed
<1>2. CASE UNCHANGED vars
  BY <1>2 DEF vars, board, host, emitvars, Typed, LoaderTyped, EmitTyped, RunTyped, HostTyped
<1>3. QED
  BY <1>1, <1>2

\* Every register of the board is in range in every cycle.
LEMMA TypedAlways == Spec => []Typed
BY TypedInit, TypedStep, PTL DEF Spec

\* The registers of the DMA, the arming FSM, the emit path and the receiver keep
\* their widths, and every address they hold is within its memory.
THEOREM TypeCorrect == Spec => []TypeOK
<1>1. Typed => TypeOK
  <2> SUFFICES ASSUME Typed PROVE TypeOK
    OBVIOUS
  <2>1. \A c \in Cores : core[c].state \in {"IDLE", "RUN", "DONE"}
    BY DEF Typed, RunTyped, CoreType
  <2>2. QED
    BY <2>1 DEF Typed, LoaderTyped, DmaType, EmitTyped, RunTyped, TypeOK
<1>2. QED
  BY <1>1, TypedAlways, PTL

-----------------------------------------------------------------------------
(***************************************************************************)
(* A run of the board, from its frame to the reply.                        *)
(***************************************************************************)

-----------------------------------------------------------------------------
(* The phases of the board: it waits for a frame or loads one, it is being *)
(* reset, or its cores run.                                                *)

Loading   == dma.state # "RUN" \/ dma.gpu_start
Resetting == ~Loading /\ (gpu_reset \/ runrst # RunRst)
Going     == ~Loading /\ ~gpu_reset /\ runrst = RunRst

\* The cores are as the run before left them, or as a reset leaves them.
OldRun == /\ dispatched /\ ~core_start /\ dma.gpu_done_d
          /\ \A c \in Cores : core[c].state = "DONE"
Fresh  == /\ ~dispatched /\ ~core_start
          /\ \A c \in Cores : core[c].state = "IDLE"

Phases ==
  /\ Loading => IF armed THEN OldRun /\ runrst = RunRst /\ ~gpu_reset ELSE Fresh /\ gpu_reset
  /\ ~Loading => armed
  /\ Resetting => (OldRun \/ Fresh) /\ (~gpu_reset => OldRun /\ runrst = 0)
  /\ Going => /\ ~(done /\ dma.gpu_done_d)
              /\ IF dispatched THEN \A c \in Cores : core[c].state = "IDLE" <=> core_start
                 ELSE Fresh

\* A byte is offered, and a store made, in a run only; the end is the end.
CoresSane ==
  \A c \in Cores :
    /\ core[c].valid => /\ core[c].state = "RUN" /\ core[c].left # << >>
                        /\ core[c].data = Head(core[c].left)
    /\ core[c].we => core[c].state = "RUN"
    /\ core[c].state = "DONE" => core[c].left = << >>

-----------------------------------------------------------------------------
(* Loading, by what the DMA has taken of the frame.                         *)

Words == Len(job.prog)
Bytes == Len(job.data)
Total == 4 + 2 * Words + Bytes
Sent  == Total - Len(wire)
Taken == IF rx_valid THEN Sent - 1 ELSE Sent

OnLine ==
  /\ Len(wire) <= Total
  /\ \A i \in 1 .. Len(wire) : wire[i] = FrameBytes(job)[Sent + i]
  /\ rx_valid => Sent >= 1 /\ rx_byte = FrameBytes(job)[Sent]

Pulses ==
  /\ dma.gpu_start => dma.state = "RUN"
  /\ dma.state = "RUN" /\ ~dma.gpu_start => ~dma.instr_we /\ ~dma.mem_we /\ ~dma.loading
  /\ dma.mem_we => (dma.loading <=> dma.state = "LOAD_DATA")

Parsing ==
  /\ dma.state = "HEADER_INSTR_L" => (Taken = 0 /\ reply = << >>) \/ (Taken = Total /\ reply = Expected)
  /\ dma.state = "HEADER_INSTR_H" => Taken = 1 /\ dma.instr_size % ByteSize = Words % ByteSize
  /\ dma.state = "HEADER_DATA_L" => Taken = 2 /\ dma.instr_size = Words
  /\ dma.state = "HEADER_DATA_H" =>
       Taken = 3 /\ dma.instr_size = Words /\ dma.data_size % ByteSize = Bytes % ByteSize
  /\ dma.state = "LOAD_INSTR" =>
       /\ Taken = 4 + 2 * dma.wptr + dma.byte_toggle /\ dma.wptr < Words
       /\ dma.instr_size = Words /\ dma.data_size = Bytes
       /\ dma.byte_toggle = 1 => dma.low = job.prog[dma.wptr + 1][1]
  /\ dma.state = "LOAD_DATA" =>
       /\ dma.data_size = Bytes
       /\ \/ Taken = 4 + 2 * Words + dma.wptr /\ dma.wptr < Bytes
          \/ Taken = Total /\ dma.wptr = 0 /\ Bytes \in {0, AddrSize}
  /\ dma.state = "RUN" => Taken = Total

\* The memories as they are once the write in hand is made.
RomAfter    == IF dma.instr_we THEN [rom EXCEPT ![dma.instr_waddr] = dma.instr_wdata] ELSE rom
MemAfter(c) == IF dma.loading /\ dma.mem_we THEN [mem[c] EXCEPT ![dma.mem_waddr] = dma.mem_wdata] ELSE mem[c]

HasWords(r, n) == \A i \in 1 .. n : r[i - 1] = job.prog[i]
HasBytes(m, n) == \A i \in 1 .. n : m[i - 1] = job.data[i]

Contents ==
  /\ dma.state = "LOAD_INSTR" => HasWords(RomAfter, dma.wptr)
  /\ dma.state \in {"LOAD_DATA", "RUN"} => HasWords(RomAfter, Words)
  /\ dma.state = "LOAD_DATA" => \A c \in Cores : HasBytes(MemAfter(c), dma.wptr)
  /\ dma.state = "RUN" /\ (Going => \A c \in Cores : core[c].state = "IDLE") =>
       \A c \in Cores : HasBytes(mem[c], Bytes - 1)

-----------------------------------------------------------------------------
(* The way out.                                                             *)

Name(c) == IF c = 0 THEN "CORE0" ELSE "CORE1"

Flight ==
  /\ \/ estate = "IDLE" /\ ~tx_start /\ tx.state = "IDLE"
     \/ estate = "SEND" /\ tx_start /\ ~emit_ready /\ tx.state = "IDLE" /\ ~tx.busy
     \/ estate = "SEND" /\ ~tx_start /\ ~emit_ready /\ tx.state = "SHIFT" /\ tx.busy
     \/ estate = "WAIT" /\ ~tx_start /\ ~emit_ready /\ (tx.state = "SHIFT" => tx.busy)
  /\ estate # "IDLE" \/ emit_ready => EmitValid(Port)
  /\ tx.state = "SHIFT" => tx.shift = EmitData(Port)

\* The byte a core offers is with the host already.
Answered == emit_ready \/ (estate = "WAIT" /\ tx.state = "IDLE")

\* What the host does not have yet of a core's bytes.
Owed(c) == IF core[c].state = "IDLE" THEN job.emits[c]
           ELSE IF Answered /\ turn = Name(c) THEN Tail(core[c].left) ELSE core[c].left

Replying ==
  /\ Loading /\ dma.state # "HEADER_INSTR_L" => reply = << >>
  /\ Resetting => reply = << >>
  /\ Going => /\ reply \o (Owed(0) \o Owed(1)) = Expected
              /\ turn = "CORE0" \/ core_done[0]
              /\ turn = "END" => core_done[1]

IInv == Typed /\ Phases /\ CoresSane /\ OnLine /\ Pulses /\ Parsing /\ Contents /\ Flight /\ Replying

-----------------------------------------------------------------------------
(* A cycle of the DMA, row by row.                                          *)

Headers == {"HEADER_INSTR_L", "HEADER_INSTR_H", "HEADER_DATA_L", "HEADER_DATA_H"}

\* No write, no start; the sizes and the pointer stay.
Calm  == ~dma'.gpu_start /\ ~dma'.mem_we /\ ~dma'.instr_we
Sizes == dma'.instr_size = dma.instr_size /\ dma'.data_size = dma.data_size
Place == dma'.wptr = dma.wptr /\ dma'.byte_toggle = dma.byte_toggle /\ dma'.low = dma.low

Waits ==
  /\ dma.state # "RUN" /\ ~rx_valid /\ (dma.state = "LOAD_DATA" => dma.data_size # 0)
  /\ dma'.state = dma.state /\ dma'.loading /\ Calm /\ Sizes /\ Place

TakesHeader ==
  /\ dma.state \in Headers /\ rx_valid /\ dma'.loading /\ Calm
  /\ dma.state = "HEADER_INSTR_L" =>
       dma'.state = "HEADER_INSTR_H" /\ dma'.instr_size = SetLow(dma.instr_size, rx_byte)
  /\ dma.state = "HEADER_INSTR_H" =>
       dma'.state = "HEADER_DATA_L" /\ dma'.instr_size = SetHigh(dma.instr_size, rx_byte)
  /\ dma.state = "HEADER_DATA_L" =>
       /\ dma'.state = "HEADER_DATA_H" /\ dma'.data_size = SetLow(dma.data_size, rx_byte)
       /\ dma'.instr_size = dma.instr_size
  /\ dma.state = "HEADER_DATA_H" =>
       /\ dma'.state = (IF dma.instr_size = 0 THEN "LOAD_DATA" ELSE "LOAD_INSTR")
       /\ dma'.data_size = SetHigh(dma.data_size, rx_byte) /\ dma'.instr_size = dma.instr_size
       /\ dma'.wptr = 0 /\ dma'.byte_toggle = 0

TakesLow ==
  /\ dma.state = "LOAD_INSTR" /\ rx_valid /\ dma.byte_toggle = 0
  /\ dma'.state = "LOAD_INSTR" /\ dma'.loading /\ Calm /\ Sizes
  /\ dma'.wptr = dma.wptr /\ dma'.byte_toggle = 1 /\ dma'.low = rx_byte

TakesHigh ==
  /\ dma.state = "LOAD_INSTR" /\ rx_valid /\ dma.byte_toggle = 1
  /\ Sizes /\ dma'.loading /\ ~dma'.mem_we /\ dma'.byte_toggle = 0
  /\ dma'.instr_we /\ dma'.instr_waddr = dma.wptr % ProgSize /\ dma'.instr_wdata = <<dma.low, rx_byte>>
  /\ dma.wptr + 1 # dma.instr_size =>
       dma'.state = "LOAD_INSTR" /\ dma'.wptr = (dma.wptr + 1) % AddrSize /\ ~dma'.gpu_start
  /\ dma.wptr + 1 = dma.instr_size =>
       /\ dma'.wptr = 0 /\ (dma'.gpu_start <=> dma.data_size = 0)
       /\ dma'.state = (IF dma.data_size = 0 THEN "RUN" ELSE "LOAD_DATA")

NoData ==
  /\ dma.state = "LOAD_DATA" /\ dma.data_size = 0
  /\ dma'.state = "RUN" /\ dma'.gpu_start /\ ~dma'.loading /\ ~dma'.mem_we /\ ~dma'.instr_we
  /\ Sizes

TakesData ==
  /\ dma.state = "LOAD_DATA" /\ dma.data_size # 0 /\ rx_valid
  /\ Sizes /\ ~dma'.instr_we
  /\ dma'.mem_we /\ dma'.mem_waddr = dma.wptr /\ dma'.mem_wdata = rx_byte
  /\ dma.wptr + 1 # dma.data_size % AddrSize =>
       /\ dma'.state = "LOAD_DATA" /\ dma'.wptr = (dma.wptr + 1) % AddrSize
       /\ dma'.loading /\ ~dma'.gpu_start
  /\ dma.wptr + 1 = dma.data_size % AddrSize =>
       dma'.state = "RUN" /\ dma'.gpu_start /\ ~dma'.loading

Runs ==
  /\ dma.state = "RUN" /\ ~dma'.loading /\ Calm
  /\ dma'.state = IF done /\ ~dma.gpu_done_d THEN "HEADER_INSTR_L" ELSE "RUN"

\* dma_controller.sv, always_ff: what a cycle does to the DMA is one of seven rows.
LEMMA DmaRows ==
  ASSUME Typed, Next
  PROVE  /\ dma'.gpu_done_d = done
         /\ Waits \/ TakesHeader \/ TakesLow \/ TakesHigh \/ NoData \/ TakesData \/ Runs
<1>1. Dma(done, rx_valid, rx_byte) /\ dma \in DmaType /\ done \in BOOLEAN
  BY EveryCycle DEF Machine, Typed, LoaderTyped, RunTyped, done, core_done
<1> DEFINE d == Sampled(done)
           u == [d EXCEPT !.loading = TRUE]
<1>2. /\ d \in DmaType /\ u \in DmaType /\ u.loading
      /\ d.gpu_done_d = done /\ ~d.gpu_start /\ ~d.mem_we /\ ~d.instr_we
      /\ u.gpu_done_d = done /\ ~u.gpu_start /\ ~u.mem_we /\ ~u.instr_we
      /\ d.state = dma.state /\ d.wptr = dma.wptr /\ d.byte_toggle = dma.byte_toggle /\ d.low = dma.low
      /\ d.instr_size = dma.instr_size /\ d.data_size = dma.data_size
      /\ u.state = dma.state /\ u.wptr = dma.wptr /\ u.byte_toggle = dma.byte_toggle /\ u.low = dma.low
      /\ u.instr_size = dma.instr_size /\ u.data_size = dma.data_size
  BY <1>1 DEF Sampled, DmaType
<1>3. CASE DmaHeader(done, rx_valid, rx_byte)
  <2>1. dma.state \in Headers
    BY <1>3 DEF DmaHeader, Headers
  <2>2. \/ ~rx_valid /\ dma' = u
        \/ /\ rx_valid /\ dma.state = "HEADER_INSTR_L"
           /\ dma' = [u EXCEPT !.instr_size = SetLow(dma.instr_size, rx_byte), !.state = "HEADER_INSTR_H"]
        \/ /\ rx_valid /\ dma.state = "HEADER_INSTR_H"
           /\ dma' = [u EXCEPT !.instr_size = SetHigh(dma.instr_size, rx_byte), !.state = "HEADER_DATA_L"]
        \/ /\ rx_valid /\ dma.state = "HEADER_DATA_L"
           /\ dma' = [u EXCEPT !.data_size = SetLow(dma.data_size, rx_byte), !.state = "HEADER_DATA_H"]
        \/ /\ rx_valid /\ dma.state = "HEADER_DATA_H"
           /\ dma' = [u EXCEPT !.data_size = SetHigh(dma.data_size, rx_byte),
                               !.wptr = 0, !.instr_waddr = 0, !.byte_toggle = 0,
                               !.state = IF dma.instr_size = 0 THEN "LOAD_DATA" ELSE "LOAD_INSTR"]
    BY <1>2, <1>3 DEF DmaHeader
  <2> HIDE DEF u, d
  <2>3. CASE ~rx_valid /\ dma' = u
    BY <1>2, <2>1, <2>3 DEF Waits, Headers, Calm, Sizes, Place
  <2>4. CASE ~(~rx_valid /\ dma' = u)
    <3>1. CASE dma.state = "HEADER_INSTR_L"
      BY <1>2, <2>1, <2>2, <2>4, <3>1 DEF TakesHeader, Calm, DmaType
    <3>2. CASE dma.state = "HEADER_INSTR_H"
      BY <1>2, <2>1, <2>2, <2>4, <3>2 DEF TakesHeader, Calm, DmaType
    <3>3. CASE dma.state = "HEADER_DATA_L"
      BY <1>2, <2>1, <2>2, <2>4, <3>3 DEF TakesHeader, Calm, DmaType
    <3>4. CASE dma.state = "HEADER_DATA_H"
      BY <1>2, <2>1, <2>2, <2>4, <3>4 DEF TakesHeader, Calm, DmaType
    <3>5. QED
      BY <2>1, <3>1, <3>2, <3>3, <3>4 DEF Headers
  <2>5. QED
    BY <2>3, <2>4
<1>4. CASE DmaLoadInstr(done, rx_valid, rx_byte)
  <2> DEFINE last == dma.wptr + 1 = dma.instr_size
             none == dma.data_size = 0
  <2>1. /\ dma.state = "LOAD_INSTR"
        /\ \/ ~rx_valid /\ dma' = u
           \/ rx_valid /\ dma.byte_toggle = 0 /\ dma' = [u EXCEPT !.low = rx_byte, !.byte_toggle = 1]
           \/ /\ rx_valid /\ dma.byte_toggle = 1
              /\ dma' = [u EXCEPT !.instr_we = TRUE, !.instr_waddr = dma.wptr % ProgSize,
                                  !.instr_wdata = <<dma.low, rx_byte>>, !.byte_toggle = 0,
                                  !.wptr = IF last THEN 0 ELSE (@ + 1) % AddrSize,
                                  !.state = IF ~last THEN @ ELSE IF none THEN "RUN" ELSE "LOAD_DATA",
                                  !.gpu_start = last /\ none]
    BY <1>4 DEF DmaLoadInstr
  <2>2. (last <=> dma.wptr + 1 = dma.instr_size) /\ (none <=> dma.data_size = 0)
    OBVIOUS
  <2> HIDE DEF u, d, last, none
  <2>3. CASE ~rx_valid /\ dma' = u
    BY <1>2, <2>1, <2>3 DEF Waits, Calm, Sizes, Place
  <2>4. CASE rx_valid /\ dma.byte_toggle = 0 /\ dma' = [u EXCEPT !.low = rx_byte, !.byte_toggle = 1]
    BY <1>2, <2>1, <2>4 DEF TakesLow, Calm, Sizes, DmaType
  <2>5. CASE /\ rx_valid /\ dma.byte_toggle = 1
             /\ dma' = [u EXCEPT !.instr_we = TRUE, !.instr_waddr = dma.wptr % ProgSize,
                                 !.instr_wdata = <<dma.low, rx_byte>>, !.byte_toggle = 0,
                                 !.wptr = IF last THEN 0 ELSE (@ + 1) % AddrSize,
                                 !.state = IF ~last THEN @ ELSE IF none THEN "RUN" ELSE "LOAD_DATA",
                                 !.gpu_start = last /\ none]
    BY <1>2, <2>1, <2>2, <2>5 DEF TakesHigh, Sizes, DmaType
  <2>6. QED
    BY <1>2, <2>1, <2>3, <2>4, <2>5 DEF DmaType
<1>5. CASE DmaLoadData(done, rx_valid, rx_byte)
  <2> DEFINE last == dma.wptr + 1 = dma.data_size % AddrSize
  <2>1. /\ dma.state = "LOAD_DATA"
        /\ \/ /\ dma.data_size = 0
              /\ dma' = [d EXCEPT !.gpu_start = TRUE, !.loading = FALSE, !.state = "RUN"]
           \/ dma.data_size # 0 /\ ~rx_valid /\ dma' = u
           \/ /\ dma.data_size # 0 /\ rx_valid
              /\ dma' = [d EXCEPT !.mem_we = TRUE, !.mem_waddr = dma.wptr, !.mem_wdata = rx_byte,
                                  !.wptr = IF last THEN 0 ELSE (@ + 1) % AddrSize,
                                  !.gpu_start = last, !.loading = ~last,
                                  !.state = IF last THEN "RUN" ELSE @]
    BY <1>5 DEF DmaLoadData
  <2>2. (last <=> dma.wptr + 1 = dma.data_size % AddrSize) /\ (last = TRUE \/ last = FALSE)
    OBVIOUS
  <2> HIDE DEF u, d, last
  <2>3. CASE dma.data_size = 0 /\ dma' = [d EXCEPT !.gpu_start = TRUE, !.loading = FALSE, !.state = "RUN"]
    BY <1>2, <2>1, <2>3 DEF NoData, Sizes, DmaType
  <2>4. CASE dma.data_size # 0 /\ ~rx_valid /\ dma' = u
    BY <1>2, <2>1, <2>4 DEF Waits, Calm, Sizes, Place
  <2>5. CASE /\ dma.data_size # 0 /\ rx_valid
             /\ dma' = [d EXCEPT !.mem_we = TRUE, !.mem_waddr = dma.wptr, !.mem_wdata = rx_byte,
                                 !.wptr = IF last THEN 0 ELSE (@ + 1) % AddrSize,
                                 !.gpu_start = last, !.loading = ~last,
                                 !.state = IF last THEN "RUN" ELSE @]
    <3>1. CASE last = TRUE
      BY <1>2, <2>1, <2>2, <2>5, <3>1 DEF TakesData, Sizes, DmaType
    <3>2. CASE last = FALSE
      BY <1>2, <2>1, <2>2, <2>5, <3>2 DEF TakesData, Sizes, DmaType
    <3>3. QED
      BY <2>2, <3>1, <3>2
  <2>6. QED
    BY <2>1, <2>3, <2>4, <2>5
<1>6. CASE DmaRun(done)
  <2>1. dma.state = "RUN" /\ dma' = [d EXCEPT !.loading = FALSE,
                               !.state = IF done /\ ~dma.gpu_done_d THEN "HEADER_INSTR_L" ELSE @]
    BY <1>6 DEF DmaRun
  <2> HIDE DEF u, d
  <2>2. QED
    BY <1>2, <2>1 DEF Runs, Calm, DmaType
<1>7. QED
  BY <1>1, <1>3, <1>4, <1>5, <1>6 DEF Dma

\* The phase: the DMA leaves RUN on the edge of done only, and comes back to it
\* with a start pulse.
LEMMA DmaPhase ==
  ASSUME Typed, Next
  PROVE  /\ dma'.gpu_done_d = done
         /\ dma.state # "RUN" => Loading'
         /\ dma.state = "RUN" => Runs
BY DmaRows DEF Loading, Waits, TakesHeader, Headers, TakesLow, TakesHigh, NoData, TakesData, Runs

\* A write pulse of the DMA comes only from the byte just taken, and is down the cycle
\* after.
LEMMA PulsesStep ==
  ASSUME Typed, Pulses, Next
  PROVE  Pulses'
BY DmaRows DEF Pulses, Waits, TakesHeader, Headers, TakesLow, TakesHigh, NoData, TakesData, Runs, Calm

-----------------------------------------------------------------------------
(* The run control.                                                         *)

\* What a core that runs and has no byte on offer may do: offer the next, store, or end
\* when none is left.
LEMMA RunningMoves ==
  ASSUME Typed, NEW c \in Cores, core[c].state = "RUN", ~core[c].valid, NEW r \in Running(c)
  PROVE  /\ r.left = core[c].left /\ r.state \in {"RUN", "DONE"}
         /\ r.state = "DONE" => core[c].left = << >> /\ ~r.valid /\ ~r.we
         /\ r.valid => r.left # << >> /\ r.data = Head(r.left)
<1>1. core[c] \in CoreType
  BY DEF Typed, RunTyped
<1> DEFINE k == [core[c] EXCEPT !.we = FALSE]
<1>2. k \in CoreType /\ k.state = "RUN" /\ k.left = core[c].left /\ ~k.valid /\ ~k.we
  BY <1>1 DEF CoreType
<1>3. \/ r = k
      \/ \E a \in {0, AddrSize - 1} : r = [k EXCEPT !.we = TRUE, !.addr = a, !.stored = TRUE]
      \/ k.left # << >> /\ r = [k EXCEPT !.valid = TRUE, !.data = Head(k.left)]
      \/ k.left = << >> /\ r = [k EXCEPT !.state = "DONE"]
  BY <1>2 DEF Running
<1> HIDE DEF k
<1>4. QED
  BY <1>2, <1>3 DEF CoreType

\* A core offers the head of what it still has to emit, and is done only with nothing
\* left.
LEMMA CoresSaneStep ==
  ASSUME Typed, CoresSane, Next
  PROVE  CoresSane'
<1> SUFFICES ASSUME NEW c \in Cores
             PROVE  /\ core'[c].valid => /\ core'[c].state = "RUN" /\ core'[c].left # << >>
                                         /\ core'[c].data = Head(core'[c].left)
                    /\ core'[c].we => core'[c].state = "RUN"
                    /\ core'[c].state = "DONE" => core'[c].left = << >>
  BY DEF CoresSane
<1>1. core[c] \in CoreType /\ core[c].state \in {"IDLE", "RUN", "DONE"}
  BY DEF Typed, RunTyped, CoreType
<1>2. /\ core[c].valid => /\ core[c].state = "RUN" /\ core[c].left # << >>
                          /\ core[c].data = Head(core[c].left)
      /\ core[c].we => core[c].state = "RUN"
      /\ core[c].state = "DONE" => core[c].left = << >>
  BY DEF CoresSane
<1>3. CASE gpu_reset
  BY <1>3, CoreCases DEF CoreReset
<1>4. CASE ~gpu_reset /\ core[c].state = "IDLE"
  BY <1>1, <1>2, <1>4, CoreCases DEF CoreType
<1>5. CASE ~gpu_reset /\ core[c].state = "RUN" /\ core[c].valid
  BY <1>1, <1>2, <1>5, CoreCases DEF CoreType
<1>6. CASE ~gpu_reset /\ core[c].state = "RUN" /\ ~core[c].valid
  BY <1>1, <1>6, CoreCases, RunningMoves
<1>7. CASE ~gpu_reset /\ core[c].state = "DONE"
  BY <1>1, <1>2, <1>7, CoreCases
<1>8. QED
  BY <1>1, <1>3, <1>4, <1>5, <1>6, <1>7

\* Where a core may go.
LEMMA CoreStates ==
  ASSUME Typed, Next, NEW c \in Cores
  PROVE  /\ core[c].state \in {"IDLE", "RUN", "DONE"}
         /\ gpu_reset => core'[c].state = "IDLE"
         /\ ~gpu_reset /\ core[c].state = "IDLE" =>
              core'[c].state = IF core_start THEN "RUN" ELSE "IDLE"
         /\ ~gpu_reset /\ core[c].state = "RUN" => core'[c].state \in {"RUN", "DONE"}
         /\ ~gpu_reset /\ core[c].state = "DONE" => core'[c].state = "DONE"
<1>1. core[c] \in CoreType /\ core[c].state \in {"IDLE", "RUN", "DONE"}
  BY DEF Typed, RunTyped, CoreType
<1>2. gpu_reset => core'[c].state = "IDLE"
  BY CoreCases DEF CoreReset
<1>3. ~gpu_reset /\ core[c].state = "IDLE" => core'[c].state = IF core_start THEN "RUN" ELSE "IDLE"
  BY <1>1, CoreCases DEF CoreType
<1>4. ~gpu_reset /\ core[c].state = "RUN" /\ core[c].valid => core'[c].state = "RUN"
  BY <1>1, CoreCases DEF CoreType
<1>5. ~gpu_reset /\ core[c].state = "RUN" /\ ~core[c].valid => core'[c].state \in {"RUN", "DONE"}
  BY CoreCases, RunningMoves
<1>6. QED
  BY <1>1, <1>2, <1>3, <1>4, <1>5, CoreCases

\* The arming FSM and the dispatcher, in a cycle of the board.
LEMMA ControlMoves ==
  ASSUME Typed, Next
  PROVE  /\ armed' = (dma.gpu_start \/ armed) /\ gpu_reset' = (~armed \/ runrst # RunRst)
         /\ runrst' = (IF dma.gpu_start THEN 0
                       ELSE IF armed /\ runrst # RunRst THEN runrst + 1 ELSE runrst)
         /\ gpu_reset => ~dispatched' /\ ~core_start'
         /\ ~gpu_reset /\ armed /\ runrst = RunRst => dispatched' /\ core_start' = ~dispatched
         /\ ~gpu_reset /\ ~(armed /\ runrst = RunRst) =>
              dispatched' = dispatched /\ core_start' = core_start
BY EveryCycle DEF Machine, Arming, Dispatcher, Enabled

\* dispatcher.sv: done is up when both cores, once started, are done.
LEMMA DoneIs == done <=> dispatched /\ \A c \in Cores : core[c].state = "DONE"
BY DEF done, core_done, Cores

\* The same, one cycle later.
LEMMA DoneIsNext == done' <=> dispatched' /\ \A c \in Cores : core'[c].state = "DONE"
BY DEF done, core_done, Cores

\* The board goes from loading to reset to running and back, and the old done is no
\* edge.
LEMMA PhasesStep ==
  ASSUME Typed, Phases, Pulses, Next
  PROVE  Phases'
<1> USE DoneIs, DoneIsNext
<1>1. /\ armed \in BOOLEAN /\ gpu_reset \in BOOLEAN /\ dispatched \in BOOLEAN /\ core_start \in BOOLEAN
      /\ runrst \in 0 .. RunRst /\ RunRst \in Nat \ {0} /\ 0 \in Cores
  BY BoardAssumption DEF Typed, RunTyped, Cores
<1>2. CASE dma.state # "RUN"
  <2>1. Loading /\ ~dma.gpu_start /\ Loading'
    BY <1>2, DmaPhase DEF Loading, Pulses
  <2>2. CASE armed
    <3>1. OldRun /\ runrst = RunRst /\ ~gpu_reset
      BY <2>1, <2>2 DEF Phases
    <3>2. OldRun' /\ armed' /\ runrst' = RunRst /\ ~gpu_reset'
      BY <1>1, <2>1, <2>2, <3>1, ControlMoves, CoreStates, DmaPhase DEF OldRun
    <3>3. QED
      BY <2>1, <3>2 DEF Phases, Resetting, Going
  <2>3. CASE ~armed
    <3>1. Fresh /\ gpu_reset
      BY <2>1, <2>3 DEF Phases
    <3>2. Fresh' /\ ~armed' /\ gpu_reset'
      BY <1>1, <2>1, <2>3, <3>1, ControlMoves, CoreStates DEF Fresh
    <3>3. QED
      BY <2>1, <3>2 DEF Phases, Resetting, Going
  <2>4. QED
    BY <2>2, <2>3
<1>3. CASE dma.state = "RUN" /\ dma.gpu_start
  <2>1. Loading /\ ~(done /\ ~dma.gpu_done_d)
    BY <1>3 DEF Loading, Phases, OldRun, Fresh
  <2>2. ~Loading' /\ armed' /\ runrst' = 0 /\ runrst' # RunRst
    BY <1>1, <1>3, <2>1, DmaPhase, ControlMoves DEF Loading, Runs, Calm
  <2>3. CASE armed
    <3>1. OldRun /\ runrst = RunRst /\ ~gpu_reset
      BY <2>1, <2>3 DEF Phases
    <3>2. OldRun'
      BY <1>1, <2>3, <3>1, ControlMoves, CoreStates, DmaPhase DEF OldRun
    <3>3. QED
      BY <2>2, <3>2 DEF Phases, Resetting, Going
  <2>4. CASE ~armed
    <3>1. Fresh /\ gpu_reset
      BY <2>1, <2>4 DEF Phases
    <3>2. Fresh' /\ gpu_reset'
      BY <1>1, <2>4, <3>1, ControlMoves, CoreStates DEF Fresh
    <3>3. QED
      BY <2>2, <3>2 DEF Phases, Resetting, Going
  <2>5. QED
    BY <2>3, <2>4
<1>4. CASE Resetting
  <2>1. /\ dma.state = "RUN" /\ ~dma.gpu_start /\ armed /\ (gpu_reset \/ runrst # RunRst)
        /\ (OldRun \/ Fresh) /\ (~gpu_reset => OldRun /\ runrst = 0)
    BY <1>4 DEF Resetting, Loading, Phases
  <2>2. ~Loading' /\ armed'
    BY <2>1, DmaPhase, ControlMoves DEF Loading, Runs, Calm, OldRun, Fresh
  <2>3. CASE gpu_reset
    <3>1. Fresh'
      BY <2>3, ControlMoves, CoreStates DEF Fresh
    <3>2. gpu_reset' \/ runrst' = RunRst
      BY <1>1, <2>1, ControlMoves
    <3>3. ~done'
      BY <3>1 DEF Fresh
    <3>4. QED
      BY <2>2, <3>1, <3>2, <3>3 DEF Phases, Resetting, Going, Fresh
  <2>4. CASE ~gpu_reset
    <3>1. OldRun /\ runrst = 0 /\ runrst # RunRst
      BY <1>1, <1>4, <2>4 DEF Phases
    <3>2. OldRun' /\ gpu_reset'
      <4>1. gpu_reset' /\ dispatched' /\ ~core_start' /\ done /\ dma'.gpu_done_d
        <5>1. done
          BY <3>1 DEF OldRun
        <5>2. dma'.gpu_done_d
          BY <5>1, DmaPhase
        <5>3. gpu_reset' = (~armed \/ runrst # RunRst)
          BY ControlMoves
        <5>4. ~(armed /\ runrst = RunRst)
          BY <3>1
        <5>5. dispatched' = dispatched /\ core_start' = core_start
          BY <2>4, <5>4, ControlMoves
        <5>6. QED
          BY <1>1, <3>1, <5>1, <5>2, <5>3, <5>4, <5>5 DEF OldRun
      <4>2. \A c \in Cores : core'[c].state = "DONE"
        BY <2>4, <3>1, CoreStates DEF OldRun
      <4>3. QED
        BY <4>1, <4>2 DEF OldRun
    <3>3. QED
      BY <2>2, <3>2 DEF Phases, Resetting, Going
  <2>5. QED
    BY <2>3, <2>4
<1>5. CASE Going
  <2>1. /\ dma.state = "RUN" /\ ~dma.gpu_start /\ armed /\ runrst = RunRst /\ ~gpu_reset
        /\ ~(done /\ dma.gpu_done_d)
        /\ IF dispatched THEN \A c \in Cores : core[c].state = "IDLE" <=> core_start ELSE Fresh
    BY <1>5 DEF Going, Loading, Phases
  <2>2. /\ armed' /\ runrst' = RunRst /\ ~gpu_reset' /\ dispatched' /\ core_start' = ~dispatched
        /\ dma'.gpu_done_d = done
    BY <1>1, <2>1, ControlMoves, DmaPhase
  <2>3. CASE done
    <3>1. Loading'
      BY <2>1, <2>3, DmaPhase DEF Runs, Loading
    <3>2. OldRun'
      BY <1>1, <2>1, <2>2, <2>3, CoreStates DEF OldRun
    <3>3. QED
      BY <2>2, <3>1, <3>2 DEF Phases, Resetting, Going
  <2>4. CASE ~done
    <3>1. ~Loading'
      BY <2>1, <2>4, DmaPhase DEF Runs, Loading, Calm
    <3>2. \A c \in Cores : core'[c].state = "IDLE" <=> core_start'
      BY <1>1, <2>1, <2>2, CoreStates DEF Fresh
    <3>3. QED
      BY <2>2, <2>4, <3>1, <3>2 DEF Phases, Resetting, Going
  <2>5. QED
    BY <2>3, <2>4
<1>6. QED
  BY <1>2, <1>3, <1>4, <1>5 DEF Loading, Resetting, Going

-----------------------------------------------------------------------------
(* The line.                                                                *)

\* The two counts of the header, and the lengths made of them, are numbers of the right
\* width.
LEMMA Counts ==
  ASSUME Typed
  PROVE  /\ Words \in Nat /\ Bytes \in Nat /\ Total \in Nat /\ Len(wire) \in Nat
         /\ Words \in Size /\ Bytes \in Size /\ Words <= AddrSize /\ Words <= ProgSize /\ Bytes <= AddrSize
         /\ job \in Frames /\ job.prog \in Seq(Byte \X Byte) /\ job.data \in Seq(Byte)
         /\ Sent \in Int /\ Taken \in Int
<1>1. job \in Frames /\ wire \in Seq(Byte)
  BY DEF Typed, HostTyped
<1>2. /\ job.prog \in Seq(Byte \X Byte) /\ job.data \in Seq(Byte)
      /\ Len(job.prog) \in Size /\ Len(job.prog) \in 0 .. AddrSize /\ Len(job.prog) <= ProgSize
      /\ Len(job.data) \in Size /\ Len(job.data) \in 0 .. AddrSize
  BY <1>1, FramesOfWorkload
<1>3. Words \in Nat /\ Bytes \in Nat /\ Words <= AddrSize /\ Bytes <= AddrSize
  BY <1>2, LoaderAssumption DEF Words, Bytes
<1>4. Len(wire) \in Nat
  BY <1>1
<1>5. Total \in Nat
  BY <1>3 DEF Total
<1>6. Sent \in Int /\ Taken \in Int
  BY <1>4, <1>5 DEF Sent, Taken
<1>7. QED
  BY <1>1, <1>2, <1>3, <1>4, <1>5, <1>6 DEF Words, Bytes

\* A byte taken off the line is the next of the frame.
LEMMA ByteTaken ==
  ASSUME Typed, OnLine
  PROVE  /\ Taken <= Total
         /\ rx_valid => Taken \in 0 .. Total - 1 /\ rx_byte = FrameBytes(job)[Taken + 1]
         /\ Taken = Total => ~rx_valid /\ wire = << >>
<1>1. Total \in Nat /\ Len(wire) \in Nat /\ wire \in Seq(Byte) /\ rx_valid \in BOOLEAN
  BY Counts DEF Typed, HostTyped
<1>2. Len(wire) = 0 => wire = << >>
  BY <1>1
<1>3. QED
  BY <1>1, <1>2 DEF OnLine, Sent, Taken

\* uart_rx.sv and the host: a cycle either begins a frame or hands the next byte of the
\* one under way to the DMA.
LEMMA LineMoves ==
  ASSUME Typed, OnLine, Next
  PROVE  \/ NextFrame /\ Taken' = 0 /\ OnLine'
         \/ /\ job' = job /\ Receive /\ Taken' = (IF rx_valid THEN Taken + 1 ELSE Taken)
            /\ OnLine'
<1>1. Total \in Nat /\ Len(wire) \in Nat /\ wire \in Seq(Byte) /\ rx_valid \in BOOLEAN
  BY Counts DEF Typed, HostTyped
<1>2. CASE Quiet
  <2>1. job' = job /\ Receive /\ wire' = wire /\ ~rx_valid' /\ rx_valid' \in BOOLEAN
    BY <1>2 DEF Quiet
  <2>2. Total' = Total /\ Sent' = Sent /\ Taken' = Sent
    BY <2>1 DEF Total, Words, Bytes, Sent, Taken
  <2>3. OnLine'
    BY <1>1, <2>1, <2>2 DEF OnLine
  <2>4. QED
    BY <1>1, <2>1, <2>2, <2>3 DEF Taken, Sent
<1>3. CASE ByteArrives
  <2>1. /\ job' = job /\ Receive /\ wire # << >> /\ ~rx_valid
        /\ wire' = Tail(wire) /\ rx_valid' /\ rx_byte' = Head(wire)
    BY <1>3 DEF ByteArrives
  <2>2. /\ Len(wire) >= 1 /\ Len(wire') = Len(wire) - 1 /\ rx_byte' = wire[1]
        /\ \A i \in 1 .. Len(wire') : wire'[i] = wire[i + 1]
    BY <1>1, <2>1
  <2>3. Total' = Total /\ Sent' = Sent + 1 /\ Taken' = Sent
    <3>1. Total' = Total
      BY <2>1 DEF Total, Words, Bytes
    <3>2. Sent = Total - Len(wire) /\ Sent' = Total' - Len(wire') /\ Taken' = Sent' - 1
      BY <2>1 DEF Sent, Taken
    <3>3. QED
      BY <1>1, <2>2, <3>1, <3>2
  <2>4. OnLine'
    <3>1. \A i \in 1 .. Len(wire) : wire[i] = FrameBytes(job)[Sent + i]
      BY DEF OnLine
    <3>2. Sent \in Int /\ Len(wire) <= Total
      BY Counts DEF OnLine
    <3>3. Sent >= 0
      BY <1>1, <3>2 DEF Sent
    <3>4. \A i \in 1 .. Len(wire') : wire'[i] = FrameBytes(job')[Sent' + i]
      <4>1. ASSUME NEW i \in 1 .. Len(wire') PROVE wire'[i] = FrameBytes(job')[Sent' + i]
        <5>1. i + 1 \in 1 .. Len(wire) /\ wire'[i] = wire[i + 1] /\ Sent + (i + 1) = Sent' + i
          BY <1>1, <2>2, <2>3, <3>2
        <5>2. QED
          BY <2>1, <3>1, <5>1
      <4>2. QED
        BY <4>1
    <3>5. rx_byte' = FrameBytes(job')[Sent']
      BY <1>1, <2>1, <2>2, <2>3, <3>1
    <3>6. QED
      BY <1>1, <2>2, <2>3, <3>2, <3>3, <3>4, <3>5 DEF OnLine
  <2>5. QED
    BY <2>1, <2>3, <2>4 DEF Taken
<1>4. CASE NextFrame
  <2>1. wire' = FrameBytes(job') /\ ~rx_valid'
    BY <1>4 DEF NextFrame
  <2>2. job' \in Frames
    BY HostTypedStep DEF HostTyped
  <2>3. Len(wire') = Total' /\ Total' \in Nat
    <3>1. /\ FrameBytes(job') \in Seq(Byte)
          /\ Len(FrameBytes(job')) = 4 + 2 * Len(job'.prog) + Len(job'.data)
      <4>1. PICK f \in Frames : f = job'
        BY <2>2
      <4>2. FrameBytes(f) \in Seq(Byte) /\ Len(FrameBytes(f)) = 4 + 2 * Len(f.prog) + Len(f.data)
        BY FrameLayout
      <4>3. QED
        BY <4>1, <4>2
    <3>2. Len(wire') = Total'
      BY <2>1, <3>1 DEF Total, Words, Bytes
    <3>3. Len(wire') \in Nat
      <4>1. wire' \in Seq(Byte)
        BY HostTypedStep DEF HostTyped
      <4>2. QED
        BY <4>1
    <3>4. QED
      BY <3>2, <3>3
  <2>4. Sent' = 0 /\ Taken' = 0
    <3>1. Sent' = Total' - Len(wire') /\ Taken' = Sent'
      BY <2>1 DEF Sent, Taken
    <3>2. PICK n \in Nat : n = Total'
      BY <2>3
    <3>3. Sent' = n - n
      BY <2>3, <3>1, <3>2
    <3>4. n - n = 0
      OBVIOUS
    <3>5. Sent' = 0
      BY <3>3, <3>4
    <3>6. QED
      BY <3>1, <3>5, Zenon
  <2>5. OnLine'
    BY <2>1, <2>3, <2>4 DEF OnLine
  <2>6. QED
    BY <1>4, <2>4, <2>5
<1>5. QED
  BY <1>2, <1>3, <1>4 DEF Next

-----------------------------------------------------------------------------
(* The handshake.                                                           *)

\* Out of a run no core offers a byte or stores.
LEMMA OutOfRun ==
  ASSUME Typed, Phases, CoresSane, ~Going
  PROVE  /\ \A c \in Cores : core[c].state # "RUN" /\ ~core[c].valid /\ ~core[c].we
         /\ ~EmitValid(Port)
<1>1. Loading \/ Resetting
  BY DEF Loading, Resetting, Going
<1>2. \A c \in Cores : core[c].state \in {"IDLE", "DONE"}
  BY <1>1 DEF Phases, OldRun, Fresh
<1>3. \A c \in Cores : core[c].state # "RUN" /\ ~core[c].valid /\ ~core[c].we
  BY <1>2 DEF CoresSane
<1>4. QED
  BY <1>3 DEF EmitValid, Port, Cores

\* Without a byte on offer the way out is empty.
LEMMA Silent ==
  ASSUME Typed, Flight, ~EmitValid(Port)
  PROVE  estate = "IDLE" /\ ~emit_ready /\ ~tx_start /\ tx.state = "IDLE" /\ ~Delivers
BY DEF Flight, Delivers

\* The three parts of the emit path take their step in every cycle.
LEMMA EmitMoves ==
  ASSUME Typed, Next
  PROVE  Turn(gpu_reset, core_done, Port) /\ Handshake(Port) /\ Transmit(Port)
BY EveryCycle DEF Machine, EmitStep

\* A byte on offer stays so until it is acknowledged.
LEMMA OfferStands ==
  ASSUME Typed, Phases, CoresSane, Next, EmitValid(Port), ~emit_ready
  PROVE  EmitValid(Port)' /\ EmitData(Port)' = EmitData(Port) /\ turn' = turn
<1>1. Going /\ ~gpu_reset
  BY OutOfRun DEF Going
<1>2. PICK c \in Cores : turn = Name(c) /\ core[c].valid
  BY DEF EmitValid, Port, Cores, Name
<1>3. turn' = turn
  BY <1>1, <1>2, EmitMoves DEF Turn, Port, Cores, Name
<1>4. core[c] \in CoreType /\ core[c].state = "RUN"
  BY <1>2 DEF Typed, RunTyped
<1>5. core'[c] = [core[c] EXCEPT !.we = FALSE]
  BY <1>1, <1>2, <1>4, CoreCases DEF CoreReady
<1>6. core'[c].valid /\ core'[c].data = core[c].data
  BY <1>2, <1>4, <1>5 DEF CoreType
<1>7. QED
  BY <1>2, <1>3, <1>6 DEF EmitValid, EmitData, Port, Cores, Name

\* What becomes of the byte in hand.
LEMMA AnsweredStep ==
  ASSUME Typed, Flight, Next
  PROVE  Answered' <=> Delivers \/ (Answered /\ ~emit_ready)
<1>1. /\ tx \in [state : {"IDLE", "SHIFT"}, busy : BOOLEAN, shift : Byte]
      /\ tx_start \in BOOLEAN /\ emit_ready \in BOOLEAN /\ estate \in {"IDLE", "SEND", "WAIT"}
  BY DEF Typed, EmitTyped
<1>2. Handshake(Port) /\ Transmit(Port)
  BY EmitMoves
<1>3. CASE estate = "IDLE"
  BY <1>1, <1>2, <1>3 DEF Flight, Handshake, Transmit, Answered, Delivers
<1>4. CASE estate = "SEND" /\ tx_start
  BY <1>1, <1>2, <1>4 DEF Flight, Handshake, Transmit, Answered, Delivers
<1>5. CASE estate = "SEND" /\ ~tx_start
  BY <1>1, <1>2, <1>5 DEF Flight, Handshake, Transmit, Answered, Delivers
<1>6. CASE estate = "WAIT"
  BY <1>1, <1>2, <1>6 DEF Flight, Handshake, Transmit, Answered, Delivers
<1>7. QED
  BY <1>1, <1>3, <1>4, <1>5, <1>6

\* A byte on its way to the host is in one of four positions, and goes from each only to
\* the next.
LEMMA FlightStep ==
  ASSUME Typed, Phases, CoresSane, Flight, Next
  PROVE  Flight'
<1>1. /\ tx \in [state : {"IDLE", "SHIFT"}, busy : BOOLEAN, shift : Byte]
      /\ tx_start \in BOOLEAN /\ emit_ready \in BOOLEAN /\ estate \in {"IDLE", "SEND", "WAIT"}
  BY DEF Typed, EmitTyped
<1>2. Handshake(Port) /\ Transmit(Port)
  BY EmitMoves
<1>3. CASE estate = "IDLE" /\ (emit_ready \/ ~EmitValid(Port) \/ tx.busy)
  <2>1. ~tx_start /\ tx.state = "IDLE"
    BY <1>3 DEF Flight
  <2>2. estate' = "IDLE" /\ ~tx_start' /\ ~emit_ready' /\ tx'.state = "IDLE"
    BY <1>1, <1>2, <1>3, <2>1 DEF Handshake, Transmit
  <2>3. QED
    BY <2>2 DEF Flight
<1>4. CASE ~(estate = "IDLE" /\ (emit_ready \/ ~EmitValid(Port) \/ tx.busy))
  <2>1. EmitValid(Port) /\ ~emit_ready
    BY <1>1, <1>4 DEF Flight
  <2>2. EmitValid(Port)' /\ EmitData(Port)' = EmitData(Port)
    BY <2>1, OfferStands
  <2>3. CASE estate = "IDLE"
    <3>1. ~tx_start /\ tx.state = "IDLE" /\ ~tx.busy
      BY <1>4, <2>3 DEF Flight
    <3>2. estate' = "SEND" /\ tx_start' /\ ~emit_ready' /\ tx'.state = "IDLE" /\ ~tx'.busy
      BY <1>1, <1>2, <2>1, <2>3, <3>1 DEF Handshake, Transmit
    <3>3. QED
      BY <2>2, <3>2 DEF Flight
  <2>4. CASE estate = "SEND" /\ tx_start
    <3>1. tx.state = "IDLE" /\ ~tx.busy
      BY <2>4 DEF Flight
    <3>2. /\ estate' = "SEND" /\ ~tx_start' /\ ~emit_ready'
          /\ tx'.state = "SHIFT" /\ tx'.busy /\ tx'.shift = EmitData(Port)
      BY <1>1, <1>2, <2>4, <3>1 DEF Handshake, Transmit
    <3>3. QED
      BY <2>2, <3>2 DEF Flight
  <2>5. CASE estate = "SEND" /\ ~tx_start
    <3>1. tx.state = "SHIFT" /\ tx.busy /\ tx.shift = EmitData(Port)
      BY <2>5 DEF Flight
    <3>2. /\ estate' = "WAIT" /\ ~tx_start' /\ ~emit_ready'
          /\ tx'.busy /\ tx'.shift = EmitData(Port)
      BY <1>1, <1>2, <2>5, <3>1 DEF Handshake, Transmit
    <3>3. QED
      BY <2>2, <3>2 DEF Flight
  <2>6. CASE estate = "WAIT" /\ tx.busy
    <3>1. ~tx_start /\ (tx.state = "SHIFT" => tx.shift = EmitData(Port))
      BY <2>6 DEF Flight
    <3>2. /\ estate' = "WAIT" /\ ~tx_start' /\ ~emit_ready'
          /\ tx'.state = "SHIFT" => tx'.busy /\ tx'.shift = EmitData(Port)
      BY <1>1, <1>2, <2>6, <3>1 DEF Handshake, Transmit
    <3>3. QED
      BY <2>2, <3>2 DEF Flight
  <2>7. CASE estate = "WAIT" /\ ~tx.busy
    <3>1. ~tx_start /\ tx.state = "IDLE"
      BY <1>1, <2>7 DEF Flight
    <3>2. estate' = "IDLE" /\ ~tx_start' /\ emit_ready' /\ tx'.state = "IDLE"
      BY <1>1, <1>2, <2>7, <3>1 DEF Handshake, Transmit
    <3>3. QED
      BY <2>2, <3>2 DEF Flight
  <2>8. QED
    BY <1>1, <2>3, <2>4, <2>5, <2>6, <2>7
<1>5. QED
  BY <1>3, <1>4

-----------------------------------------------------------------------------
(* Loading.                                                                 *)

\* When no core has a byte left, the host has them all.
LEMMA AllDelivered ==
  ASSUME Typed, Flight, Replying, Going, ~EmitValid(Port),
         \A c \in Cores : core[c].state # "IDLE" /\ core[c].left = << >>
  PROVE  reply = Expected
<1>1. ~Answered
  BY Silent DEF Answered
<1>2. Owed(0) = << >> /\ Owed(1) = << >>
  BY <1>1 DEF Owed, Cores
<1>3. reply \o (<< >> \o << >>) = Expected
  BY <1>2 DEF Replying
<1>4. reply \in Seq(Byte)
  BY DEF Typed, HostTyped
<1>5. reply \o (<< >> \o << >>) = reply
  BY <1>4
<1>6. QED
  BY <1>3, <1>5

\* The host's side of a cycle that is not the start of a frame, out of a run.
LEMMA ReplyStands ==
  ASSUME Typed, Phases, CoresSane, Flight, ~EmitValid(Port), Receive
  PROVE  reply' = reply
BY Silent DEF Receive

\* In a header state the byte at the DMA is that byte of the header.
LEMMA HeaderRead ==
  ASSUME Typed, OnLine, Parsing, rx_valid, dma.state \in Headers
  PROVE  /\ dma.state = "HEADER_INSTR_L" => Taken = 0 /\ rx_byte = Words % ByteSize
         /\ dma.state = "HEADER_INSTR_H" => rx_byte = Words \div ByteSize
         /\ dma.state = "HEADER_DATA_L" => rx_byte = Bytes % ByteSize
         /\ dma.state = "HEADER_DATA_H" => rx_byte = Bytes \div ByteSize
<1>1. Taken \in 0 .. Total - 1 /\ rx_byte = FrameBytes(job)[Taken + 1] /\ Total \in Nat
  BY ByteTaken, Counts
<1>2. PICK f \in Frames : f = job
  BY Counts
<1>3. /\ FrameBytes(f)[1] = Len(f.prog) % ByteSize /\ FrameBytes(f)[2] = Len(f.prog) \div ByteSize
      /\ FrameBytes(f)[3] = Len(f.data) % ByteSize /\ FrameBytes(f)[4] = Len(f.data) \div ByteSize
  BY FrameLayout
<1>4. /\ FrameBytes(job)[1] = Words % ByteSize /\ FrameBytes(job)[2] = Words \div ByteSize
      /\ FrameBytes(job)[3] = Bytes % ByteSize /\ FrameBytes(job)[4] = Bytes \div ByteSize
  BY <1>2, <1>3 DEF Words, Bytes
<1>5. CASE dma.state = "HEADER_INSTR_L"
  <2>1. Taken = 0
    BY <1>1, <1>5 DEF Parsing
  <2>2. QED
    BY <1>1, <1>4, <1>5, <2>1
<1>6. CASE dma.state = "HEADER_INSTR_H"
  <2>1. Taken = 1
    BY <1>6 DEF Parsing
  <2>2. QED
    BY <1>1, <1>4, <1>6, <2>1
<1>7. CASE dma.state = "HEADER_DATA_L"
  <2>1. Taken = 2
    BY <1>7 DEF Parsing
  <2>2. QED
    BY <1>1, <1>4, <1>7, <2>1
<1>8. CASE dma.state = "HEADER_DATA_H"
  <2>1. Taken = 3
    BY <1>8 DEF Parsing
  <2>2. QED
    BY <1>1, <1>4, <1>8, <2>1
<1>9. QED
  BY <1>5, <1>6, <1>7, <1>8 DEF Headers

\* In LOAD_INSTR the byte at the DMA is the half word that the pointer and the toggle
\* name.
LEMMA WordRead ==
  ASSUME Typed, OnLine, Parsing, rx_valid, dma.state = "LOAD_INSTR"
  PROVE  /\ dma.byte_toggle = 0 => rx_byte = job.prog[dma.wptr + 1][1]
         /\ dma.byte_toggle = 1 => <<dma.low, rx_byte>> = job.prog[dma.wptr + 1]
<1>1. rx_byte = FrameBytes(job)[Taken + 1] /\ Words \in Nat
  BY ByteTaken, Counts
<1>2. PICK f \in Frames : f = job
  BY Counts
<1>3. \A k \in 1 .. Len(f.prog) : /\ FrameBytes(f)[4 + (2 * k - 1)] = f.prog[k][1]
                                  /\ FrameBytes(f)[4 + 2 * k] = f.prog[k][2]
  BY FrameLayout
<1>4. /\ dma.wptr \in Nat /\ dma.wptr < Words /\ Taken = 4 + 2 * dma.wptr + dma.byte_toggle
      /\ (dma.byte_toggle = 1 => dma.low = job.prog[dma.wptr + 1][1])
  <2>1. dma.wptr \in Nat
    BY LoaderAssumption DEF Typed, LoaderTyped, DmaType
  <2>2. QED
    BY <2>1 DEF Parsing
<1>5. PICK k \in 1 .. Words : k = dma.wptr + 1
  BY <1>1, <1>4
<1>6. FrameBytes(job)[4 + (2 * k - 1)] = job.prog[k][1] /\ FrameBytes(job)[4 + 2 * k] = job.prog[k][2]
  BY <1>2, <1>3, <1>5 DEF Words
<1>7. job.prog[k] \in Byte \X Byte
  BY <1>5, Counts DEF Words
<1>8. dma.byte_toggle = 0 => Taken + 1 = 4 + (2 * k - 1)
  BY <1>1, <1>4, <1>5
<1>9. dma.byte_toggle = 1 => Taken + 1 = 4 + 2 * k
  BY <1>1, <1>4, <1>5
<1>10. QED
  BY <1>1, <1>4, <1>5, <1>6, <1>7, <1>8, <1>9

\* In LOAD_DATA the byte at the DMA is the one the pointer names.
LEMMA DataRead ==
  ASSUME Typed, OnLine, Parsing, rx_valid, dma.state = "LOAD_DATA"
  PROVE  /\ dma.wptr \in Nat /\ dma.wptr < Bytes /\ Taken = 4 + 2 * Words + dma.wptr
         /\ rx_byte = job.data[dma.wptr + 1]
<1>1. rx_byte = FrameBytes(job)[Taken + 1] /\ Words \in Nat /\ Bytes \in Nat /\ Taken # Total
  BY ByteTaken, Counts
<1>2. PICK f \in Frames : f = job
  BY Counts
<1>3. \A k \in 1 .. Len(f.data) : FrameBytes(f)[4 + 2 * Len(f.prog) + k] = f.data[k]
  BY FrameLayout
<1>4. dma.wptr \in Nat /\ dma.wptr < Bytes /\ Taken = 4 + 2 * Words + dma.wptr
  <2>1. dma.wptr \in Nat
    BY LoaderAssumption DEF Typed, LoaderTyped, DmaType
  <2>2. QED
    BY <1>1, <2>1 DEF Parsing
<1>5. PICK k \in 1 .. Bytes : k = dma.wptr + 1
  BY <1>1, <1>4
<1>6. FrameBytes(job)[4 + 2 * Words + k] = job.data[k]
  BY <1>2, <1>3, <1>5 DEF Words, Bytes
<1>7. Taken + 1 = 4 + 2 * Words + k
  BY <1>1, <1>4, <1>5
<1>8. QED
  BY <1>1, <1>4, <1>5, <1>6, <1>7

\* The state and the pointer of the DMA remain a function of the number of bytes taken.
LEMMA ParsingStep ==
  ASSUME Typed, Phases, CoresSane, OnLine, Parsing, Flight, Replying, Next
  PROVE  Parsing'
<1>1. /\ Words \in Nat /\ Bytes \in Nat /\ Total \in Nat /\ Taken \in Int
      /\ Words \in Size /\ Bytes \in Size /\ Words <= AddrSize /\ Bytes <= AddrSize
      /\ Total = 4 + 2 * Words + Bytes
  BY Counts DEF Total
<1>2. /\ dma.instr_size \in Size /\ dma.data_size \in Size /\ rx_byte \in Byte
      /\ dma.wptr \in 0 .. AddrSize - 1 /\ AddrSize \in Nat \ {0, 1} /\ dma.byte_toggle \in {0, 1}
      /\ dma.state \in DmaStates /\ rx_valid \in BOOLEAN
  BY LoaderAssumption DEF Typed, LoaderTyped, HostTyped, DmaType
<1>3. /\ Taken <= Total
      /\ rx_valid => Taken \in 0 .. Total - 1
  BY ByteTaken
<1>4. CASE NextFrame /\ Taken' = 0
  <2>1. ~rx_valid /\ dma.state = "HEADER_INSTR_L" /\ reply' = << >>
    BY <1>4 DEF NextFrame
  <2>2. dma'.state = "HEADER_INSTR_L"
    BY <2>1, DmaRows DEF Waits, TakesHeader, Headers, TakesLow, TakesHigh, NoData, TakesData, Runs
  <2>3. QED
    BY <1>4, <2>1, <2>2 DEF Parsing
<1>5. CASE job' = job /\ Receive /\ Taken' = (IF rx_valid THEN Taken + 1 ELSE Taken)
  <2>1. Words' = Words /\ Bytes' = Bytes /\ Total' = Total /\ Expected' = Expected
    BY <1>5 DEF Words, Bytes, Total, Expected
  <2>2. dma.state # "RUN" => reply' = reply
    <3>1. dma.state # "RUN" => ~Going
      BY DEF Going, Loading
    <3>2. QED
      BY <1>5, <3>1, OutOfRun, ReplyStands
  <2>3. CASE Waits
    <3>1. Taken' = Taken
      BY <1>5, <2>3 DEF Waits
    <3>2. dma'.state = dma.state /\ dma.state # "RUN" /\ Sizes /\ Place /\ reply' = reply
      BY <2>2, <2>3 DEF Waits
    <3>3. QED
      BY <1>1, <1>5, <2>1, <3>1, <3>2 DEF Parsing, Sizes, Place
  <2>4. CASE TakesHeader
    <3>1. rx_valid /\ dma.state \in Headers /\ Taken' = Taken + 1
      BY <1>5, <2>4 DEF TakesHeader
    <3>2. CASE dma.state = "HEADER_INSTR_L"
      <4>1. dma'.instr_size % ByteSize = Words % ByteSize
        BY <1>2, <2>4, <3>1, <3>2, HeaderRead, FieldIsRead DEF TakesHeader
      <4>2. dma'.state = "HEADER_INSTR_H" /\ Taken' = 1
        BY <2>4, <3>1, <3>2, HeaderRead DEF TakesHeader
      <4>3. QED
        BY <2>1, <4>1, <4>2 DEF Parsing
    <3>3. CASE dma.state = "HEADER_INSTR_H"
      <4>1. dma'.instr_size = Words
        <5>1. dma.instr_size % ByteSize = Words % ByteSize /\ rx_byte = Words \div ByteSize
          BY <3>1, <3>3, HeaderRead DEF Parsing
        <5>2. SetHigh(dma.instr_size, rx_byte) = Words
          BY <1>1, <1>2, <5>1, FieldIsRead
        <5>3. QED
          BY <2>4, <3>3, <5>2 DEF TakesHeader
      <4>2. dma'.state = "HEADER_DATA_L" /\ Taken' = 2
        BY <2>4, <3>1, <3>3 DEF TakesHeader, Parsing
      <4>3. QED
        BY <2>1, <4>1, <4>2 DEF Parsing
    <3>4. CASE dma.state = "HEADER_DATA_L"
      <4>1. dma'.data_size % ByteSize = Bytes % ByteSize /\ dma'.instr_size = Words
        BY <1>2, <2>4, <3>1, <3>4, HeaderRead, FieldIsRead DEF TakesHeader, Parsing
      <4>2. dma'.state = "HEADER_DATA_H" /\ Taken' = 3
        BY <2>4, <3>1, <3>4 DEF TakesHeader, Parsing
      <4>3. QED
        BY <2>1, <4>1, <4>2 DEF Parsing
    <3>5. CASE dma.state = "HEADER_DATA_H"
      <4>1. dma'.data_size = Bytes /\ dma'.instr_size = Words /\ dma.instr_size = Words
        BY <1>1, <1>2, <2>4, <3>1, <3>5, HeaderRead, FieldIsRead DEF TakesHeader, Parsing
      <4>2. /\ dma'.state = (IF Words = 0 THEN "LOAD_DATA" ELSE "LOAD_INSTR")
            /\ dma'.wptr = 0 /\ dma'.byte_toggle = 0 /\ Taken' = 4
        BY <2>4, <3>1, <3>5, <4>1 DEF TakesHeader, Parsing
      <4>3. CASE Words = 0
        <5>1. Total' = 4 + Bytes /\ (Bytes = 0 \/ 0 < Bytes)
          BY <1>1, <2>1, <4>3
        <5>2. QED
          BY <1>1, <2>1, <4>1, <4>2, <4>3, <5>1 DEF Parsing
      <4>4. CASE Words # 0
        <5>1. 0 < Words
          BY <1>1, <4>4
        <5>2. QED
          BY <1>1, <2>1, <4>1, <4>2, <4>4, <5>1 DEF Parsing
      <4>5. QED
        BY <4>3, <4>4
    <3>6. QED
      BY <3>1, <3>2, <3>3, <3>4, <3>5 DEF Headers
  <2>5. CASE TakesLow
    <3>1. /\ dma.state = "LOAD_INSTR" /\ rx_valid /\ dma.byte_toggle = 0 /\ Taken' = Taken + 1
          /\ dma'.state = "LOAD_INSTR" /\ Sizes
          /\ dma'.wptr = dma.wptr /\ dma'.byte_toggle = 1 /\ dma'.low = rx_byte
      BY <1>5, <2>5 DEF TakesLow
    <3>2. /\ Taken = 4 + 2 * dma.wptr + 0 /\ dma.wptr < Words
          /\ dma.instr_size = Words /\ dma.data_size = Bytes
      BY <3>1 DEF Parsing
    <3>3. Taken' = 4 + 2 * dma.wptr + 1
      BY <1>1, <1>2, <3>1, <3>2
    <3>4. dma'.low = job'.prog[dma.wptr + 1][1]
      BY <1>5, <3>1, WordRead
    <3>5. QED
      BY <2>1, <3>1, <3>2, <3>3, <3>4 DEF Parsing, Sizes
  <2>6. CASE TakesHigh
    <3>1. dma.state = "LOAD_INSTR" /\ rx_valid /\ dma.byte_toggle = 1 /\ Taken' = Taken + 1 /\ Sizes
      BY <1>5, <2>6 DEF TakesHigh
    <3>2. /\ Taken = 4 + 2 * dma.wptr + 1 /\ dma.wptr < Words
          /\ dma.instr_size = Words /\ dma.data_size = Bytes
      BY <3>1 DEF Parsing
    <3>3. Taken' = 4 + 2 * (dma.wptr + 1)
      BY <1>1, <1>2, <3>1, <3>2
    <3>4. CASE dma.wptr + 1 # Words
      <4>1. dma.wptr + 1 < Words /\ (dma.wptr + 1) % AddrSize = dma.wptr + 1
        <5>1. dma.wptr + 1 < Words /\ dma.wptr + 1 \in 0 .. AddrSize - 1
          BY <1>1, <1>2, <3>2, <3>4
        <5>2. QED
          BY <1>2, <5>1, ModSmall
      <4>2. dma'.state = "LOAD_INSTR" /\ dma'.wptr = dma.wptr + 1 /\ dma'.byte_toggle = 0
        BY <2>6, <3>2, <3>4, <4>1 DEF TakesHigh
      <4>3. Taken' = 4 + 2 * dma'.wptr + 0
        BY <1>1, <1>2, <3>3, <4>2
      <4>4. QED
        BY <2>1, <3>1, <3>2, <4>1, <4>2, <4>3 DEF Parsing, Sizes
    <3>5. CASE dma.wptr + 1 = Words
      <4>1. Taken' = 4 + 2 * Words
        BY <3>3, <3>5
      <4>2. dma'.state = (IF Bytes = 0 THEN "RUN" ELSE "LOAD_DATA") /\ dma'.wptr = 0
        BY <2>6, <3>2, <3>5 DEF TakesHigh
      <4>3. CASE Bytes = 0
        <5>1. Taken' = Total'
          BY <1>1, <2>1, <4>1, <4>3
        <5>2. QED
          BY <4>2, <4>3, <5>1 DEF Parsing
      <4>4. CASE Bytes # 0
        <5>1. 0 < Bytes /\ Taken' = 4 + 2 * Words + 0
          BY <1>1, <4>1, <4>4
        <5>2. QED
          BY <2>1, <3>1, <3>2, <4>2, <4>4, <5>1 DEF Parsing, Sizes
      <4>5. QED
        BY <4>3, <4>4
    <3>6. QED
      BY <3>4, <3>5
  <2>7. CASE NoData
    <3>1. dma.data_size = Bytes /\ Bytes = 0 /\ dma'.state = "RUN"
      BY <2>7 DEF NoData, Parsing
    <3>2. Taken = Total
      BY <1>1, <1>2, <2>7, <3>1 DEF NoData, Parsing
    <3>3. Taken' = Total'
      BY <1>1, <1>2, <1>3, <1>5, <2>1, <3>2
    <3>4. QED
      BY <3>1, <3>3 DEF Parsing
  <2>8. CASE TakesData
    <3>1. dma.state = "LOAD_DATA" /\ rx_valid /\ Taken' = Taken + 1 /\ Sizes /\ dma.data_size = Bytes
      BY <1>5, <2>8 DEF TakesData, Parsing
    <3>2. dma.wptr < Bytes /\ Taken = 4 + 2 * Words + dma.wptr
      BY <3>1, DataRead
    <3>3. Taken' = 4 + 2 * Words + (dma.wptr + 1)
      BY <1>1, <1>2, <3>1, <3>2
    <3>4. CASE dma.wptr + 1 = Bytes % AddrSize
      <4>1. dma'.state = "RUN"
        BY <2>8, <3>1, <3>4 DEF TakesData
      <4>2. Bytes % AddrSize = Bytes
        <5>1. CASE Bytes = AddrSize
          <6>1. AddrSize % AddrSize = 0
            BY <1>2
          <6>2. dma.wptr + 1 # 0
            BY <1>2
          <6>3. QED
            BY <3>4, <5>1, <6>1, <6>2
        <5>2. CASE Bytes # AddrSize
          BY <1>1, <1>2, <5>2
        <5>3. QED
          BY <5>1, <5>2
      <4>3. Taken' = Total'
        BY <1>1, <2>1, <3>3, <3>4, <4>2
      <4>4. QED
        BY <4>1, <4>3 DEF Parsing
    <3>5. CASE dma.wptr + 1 # Bytes % AddrSize
      <4>1. dma'.state = "LOAD_DATA" /\ dma'.wptr = (dma.wptr + 1) % AddrSize
        BY <2>8, <3>1, <3>5 DEF TakesData
      <4>2. CASE dma.wptr + 1 = AddrSize
        <5>1. Bytes = AddrSize
          BY <1>1, <1>2, <3>2, <4>2
        <5>2. dma'.wptr = 0
          BY <1>2, <4>1, <4>2
        <5>3. Taken' = Total'
          BY <1>1, <2>1, <3>3, <4>2, <5>1
        <5>4. QED
          BY <2>1, <3>1, <4>1, <5>1, <5>2, <5>3 DEF Parsing, Sizes
      <4>3. CASE dma.wptr + 1 # AddrSize
        <5>1. (dma.wptr + 1) % AddrSize = dma.wptr + 1
          BY <1>2, <4>3
        <5>2. dma.wptr + 1 # Bytes
          <6>1. Bytes # AddrSize => Bytes % AddrSize = Bytes
            BY <1>1, <1>2
          <6>2. QED
            BY <3>5, <4>3, <6>1
        <5>3. dma.wptr + 1 < Bytes
          BY <1>1, <1>2, <3>2, <5>2
        <5>4. QED
          BY <2>1, <3>1, <3>3, <4>1, <5>1, <5>3 DEF Parsing, Sizes
      <4>4. QED
        BY <4>2, <4>3
    <3>6. QED
      BY <3>4, <3>5
  <2>9. CASE Runs
    <3>1. dma.state = "RUN" /\ Taken = Total
      BY <2>9 DEF Runs, Parsing
    <3>2. Taken' = Total'
      BY <1>1, <1>3, <1>5, <2>1, <3>1
    <3>3. CASE done /\ ~dma.gpu_done_d
      <4>1. \A c \in Cores : core[c].state = "DONE"
        BY <3>3, DoneIs
      <4>2. Going
        BY <3>1, <3>3, <4>1, DoneIs DEF Phases, Loading, Resetting, Going, OldRun, Fresh
      <4>3. \A c \in Cores : ~core[c].valid /\ core[c].left = << >>
        BY <4>1 DEF CoresSane
      <4>4. ~EmitValid(Port)
        BY <4>3 DEF EmitValid, Port, Cores
      <4>5. reply = Expected
        <5>1. \A c \in Cores : core[c].state # "IDLE" /\ core[c].left = << >>
          BY <4>1, <4>3
        <5>2. QED
          BY <4>2, <4>4, <5>1, AllDelivered
      <4>6. reply' = Expected'
        BY <1>5, <2>1, <4>4, <4>5, ReplyStands
      <4>7. QED
        BY <2>9, <3>2, <3>3, <4>6 DEF Parsing, Runs
    <3>4. CASE ~(done /\ ~dma.gpu_done_d)
      BY <2>9, <3>2, <3>4 DEF Parsing, Runs
    <3>5. QED
      BY <3>3, <3>4
  <2>10. QED
    BY <2>3, <2>4, <2>5, <2>6, <2>7, <2>8, <2>9, DmaRows
<1>6. QED
  BY <1>4, <1>5, LineMoves

\* data_pipeline.sv: the memories take the write in hand; data memory only while the
\* port is the loader's, or a core's own.
LEMMA MemoryMoves ==
  ASSUME Typed, Next
  PROVE  /\ rom' = RomAfter
         /\ \A c \in Cores : /\ dma.loading => mem'[c] = MemAfter(c)
                             /\ ~dma.loading /\ ~core[c].we => mem'[c] = mem[c]
BY EveryCycle DEF Machine, Memories, RomAfter, MemAfter, Store, Cores

\* Program words that have landed stay.
LEMMA WordsStand ==
  ASSUME Typed, Next, job' = job, ~dma'.instr_we, NEW n, HasWords(RomAfter, n)
  PROVE  \A i \in 1 .. n : RomAfter'[i - 1] = job'.prog[i]
BY MemoryMoves DEF HasWords, RomAfter

\* The word just taken is in its place, beside those before it.
LEMMA WordLands ==
  ASSUME Typed, OnLine, Parsing, Contents, Next, job' = job, TakesHigh
  PROVE  \A i \in 1 .. dma.wptr + 1 : RomAfter'[i - 1] = job'.prog[i]
<1>1. dma.state = "LOAD_INSTR" /\ rx_valid /\ dma.byte_toggle = 1
  BY DEF TakesHigh
<1>2. <<dma.low, rx_byte>> = job.prog[dma.wptr + 1] /\ HasWords(RomAfter, dma.wptr)
  BY <1>1, WordRead DEF Contents
<1>3. dma.wptr \in Nat /\ dma.wptr < ProgSize /\ ProgSize \in Nat \ {0, 1} /\ dma.wptr < Words /\ Words \in Nat
  <2>1. dma.wptr \in Nat
    BY LoaderAssumption DEF Typed, LoaderTyped, DmaType
  <2>2. dma.wptr < Words
    BY <1>1 DEF Parsing
  <2>3. QED
    BY <2>1, <2>2, Counts, LoaderAssumption
<1>4. dma.wptr % ProgSize = dma.wptr
  BY <1>3, ModSmall
<1>5. rom' = RomAfter /\ rom' \in [0 .. ProgSize - 1 -> Byte \X Byte]
  BY MemoryMoves, LoaderTypedStep DEF LoaderTyped
<1>6. RomAfter' = [rom' EXCEPT ![dma.wptr] = <<dma.low, rx_byte>>]
  BY <1>4 DEF TakesHigh, RomAfter
<1>7. RomAfter'[dma.wptr] = job.prog[dma.wptr + 1]
  <2>1. dma.wptr \in 0 .. ProgSize - 1
    BY <1>3
  <2>2. dma.wptr \in DOMAIN rom'
    BY <1>5, <2>1
  <2>3. RomAfter'[dma.wptr] = <<dma.low, rx_byte>>
    BY <1>6, <2>2
  <2>4. QED
    BY <1>2, <2>3
<1>8. ASSUME NEW i \in 1 .. dma.wptr PROVE RomAfter'[i - 1] = job.prog[i]
  <2>1. i - 1 # dma.wptr /\ i - 1 \in 0 .. ProgSize - 1
    BY <1>3
  <2>2. RomAfter'[i - 1] = rom'[i - 1]
    BY <1>5, <1>6, <2>1
  <2>3. QED
    BY <1>2, <1>5, <2>2 DEF HasWords
<1>9. ASSUME NEW i \in 1 .. dma.wptr + 1 PROVE RomAfter'[i - 1] = job'.prog[i]
  <2>1. CASE i = dma.wptr + 1
    <3>1. i - 1 = dma.wptr
      BY <1>3, <2>1
    <3>2. QED
      BY <1>7, <2>1, <3>1
  <2>2. CASE i # dma.wptr + 1
    <3>1. i \in 1 .. dma.wptr
      BY <1>3, <2>2
    <3>2. QED
      BY <1>8, <3>1
  <2>3. QED
    BY <2>1, <2>2
<1>10. QED
  BY <1>9

\* The data byte taken lands behind those before it, as long as the port is not
\* released.
LEMMA ByteLands ==
  ASSUME Typed, OnLine, Parsing, Contents, Next, job' = job, TakesData, NEW c \in Cores,
         mem'[c] = MemAfter(c), dma'.loading
  PROVE  \A i \in 1 .. dma.wptr + 1 : MemAfter(c)'[i - 1] = job'.data[i]
<1>1. dma.state = "LOAD_DATA" /\ rx_valid
  BY DEF TakesData
<1>2. rx_byte = job.data[dma.wptr + 1] /\ HasBytes(MemAfter(c), dma.wptr)
  BY <1>1, DataRead DEF Contents
<1>3. dma.wptr \in Nat /\ dma.wptr < AddrSize /\ AddrSize \in Nat \ {0, 1}
  BY LoaderAssumption DEF Typed, LoaderTyped, DmaType
<1>4. mem'[c] \in [0 .. AddrSize - 1 -> Byte]
  BY LoaderTypedStep DEF LoaderTyped
<1>5. MemAfter(c)' = [mem'[c] EXCEPT ![dma.wptr] = rx_byte]
  BY DEF TakesData, MemAfter
<1>6. MemAfter(c)'[dma.wptr] = job.data[dma.wptr + 1]
  BY <1>2, <1>3, <1>4, <1>5
<1>7. ASSUME NEW i \in 1 .. dma.wptr PROVE MemAfter(c)'[i - 1] = job.data[i]
  <2>1. i - 1 # dma.wptr /\ i - 1 \in 0 .. AddrSize - 1
    BY <1>3
  <2>2. MemAfter(c)'[i - 1] = mem'[c][i - 1]
    BY <1>4, <1>5, <2>1
  <2>3. QED
    BY <1>2, <2>2 DEF HasBytes
<1>8. ASSUME NEW i \in 1 .. dma.wptr + 1 PROVE MemAfter(c)'[i - 1] = job'.data[i]
  <2>1. CASE i = dma.wptr + 1
    <3>1. i - 1 = dma.wptr
      BY <1>3, <2>1
    <3>2. QED
      BY <1>6, <2>1, <3>1
  <2>2. CASE i # dma.wptr + 1
    <3>1. i \in 1 .. dma.wptr
      BY <1>3, <2>2
    <3>2. QED
      BY <1>7, <3>1
  <2>3. QED
    BY <2>1, <2>2
<1>9. QED
  BY <1>8

\* The memories go on holding what has been taken of the frame.
LEMMA ContentsStep ==
  ASSUME Typed, Phases, CoresSane, OnLine, Pulses, Parsing, Contents, Next
  PROVE  Contents'
<1>1. /\ Words \in Nat /\ Bytes \in Nat /\ Total \in Nat
      /\ Words <= AddrSize /\ Bytes <= AddrSize
  BY Counts
<1>2. /\ dma.wptr \in 0 .. AddrSize - 1 /\ AddrSize \in Nat \ {0, 1} /\ rx_valid \in BOOLEAN
      /\ dma.state \in DmaStates /\ dma.byte_toggle \in {0, 1}
  BY LoaderAssumption DEF Typed, LoaderTyped, HostTyped, DmaType
<1>3. CASE NextFrame
  <2>1. dma'.state = "HEADER_INSTR_L"
    BY <1>3, DmaRows
       DEF NextFrame, Waits, TakesHeader, Headers, TakesLow, TakesHigh, NoData, TakesData, Runs
  <2>2. QED
    BY <2>1 DEF Contents
<1>4. CASE job' = job
  <2>1. Words' = Words /\ Bytes' = Bytes
    BY <1>4 DEF Words, Bytes
  <2>2. dma.state # "RUN" \/ dma.gpu_start => \A c \in Cores : ~core[c].we
    BY OutOfRun DEF Going, Loading
  <2>3. dma.state # "RUN" => \A c \in Cores : mem'[c] = MemAfter(c)
    BY <2>2, MemoryMoves DEF MemAfter
  <2>4. ASSUME ~dma'.instr_we, dma.state \in {"LOAD_DATA", "RUN"}
        PROVE  HasWords(RomAfter, Words)'
    <3>1. HasWords(RomAfter, Words)
      BY <2>4 DEF Contents
    <3>2. \A i \in 1 .. Words : RomAfter'[i - 1] = job'.prog[i]
      BY <1>4, <2>4, <3>1, WordsStand
    <3>3. QED
      BY <2>1, <3>2 DEF HasWords
  <2>5. CASE Waits
    <3>1. dma'.state = dma.state /\ dma'.wptr = dma.wptr /\ ~dma'.instr_we /\ ~dma'.mem_we /\ dma.state # "RUN"
      BY <2>5 DEF Waits, Calm, Place
    <3>2. dma'.state = "LOAD_INSTR" => HasWords(RomAfter, dma.wptr)'
      <4>1. SUFFICES ASSUME dma.state = "LOAD_INSTR" PROVE HasWords(RomAfter, dma.wptr)'
        BY <3>1
      <4>2. HasWords(RomAfter, dma.wptr)
        BY <4>1 DEF Contents
      <4>3. \A i \in 1 .. dma.wptr : RomAfter'[i - 1] = job'.prog[i]
        BY <1>4, <3>1, <4>2, WordsStand
      <4>4. QED
        BY <3>1, <4>3 DEF HasWords
    <3>3. dma'.state = "LOAD_DATA" => HasWords(RomAfter, Words)'
      BY <2>4, <3>1
    <3>4. dma'.state = "LOAD_DATA" => \A c \in Cores : HasBytes(MemAfter(c), dma.wptr)'
      <4>1. ASSUME dma.state = "LOAD_DATA", NEW c \in Cores PROVE HasBytes(MemAfter(c), dma.wptr)'
        <5>1. HasBytes(MemAfter(c), dma.wptr) /\ mem'[c] = MemAfter(c)
          BY <2>3, <4>1 DEF Contents
        <5>2. MemAfter(c)' = mem'[c]
          BY <3>1 DEF MemAfter
        <5>3. QED
          BY <1>4, <3>1, <5>1, <5>2 DEF HasBytes
      <4>2. QED
        BY <3>1, <4>1
    <3>5. QED
      BY <3>1, <3>2, <3>3, <3>4 DEF Contents
  <2>6. CASE TakesHeader
    <3>1. dma.state \in Headers /\ dma'.state # "RUN"
      BY <2>6 DEF TakesHeader, Headers
    <3>2. dma'.state \in {"LOAD_INSTR", "LOAD_DATA"} => dma'.wptr = 0 /\ dma.state = "HEADER_DATA_H"
      BY <2>6, <3>1 DEF TakesHeader, Headers
    <3>3. dma'.state = "LOAD_DATA" => Words = 0
      BY <2>6, <3>2 DEF TakesHeader, Parsing
    <3>4. QED
      BY <2>1, <3>1, <3>2, <3>3 DEF Contents, HasWords, HasBytes
  <2>7. CASE TakesLow
    <3>1. dma.state = "LOAD_INSTR" /\ dma'.state = "LOAD_INSTR" /\ dma'.wptr = dma.wptr /\ ~dma'.instr_we
      BY <2>7 DEF TakesLow, Calm
    <3>2. HasWords(RomAfter, dma.wptr)
      BY <3>1 DEF Contents
    <3>3. \A i \in 1 .. dma.wptr : RomAfter'[i - 1] = job'.prog[i]
      BY <1>4, <3>1, <3>2, WordsStand
    <3>4. QED
      BY <3>1, <3>3 DEF Contents, HasWords
  <2>8. CASE TakesHigh
    <3>1. \A i \in 1 .. dma.wptr + 1 : RomAfter'[i - 1] = job'.prog[i]
      BY <1>4, <2>8, WordLands
    <3>2. /\ dma.state = "LOAD_INSTR" /\ dma.instr_size = Words /\ dma.data_size = Bytes
          /\ dma.wptr < Words /\ ~dma'.mem_we
      BY <2>8 DEF TakesHigh, Parsing
    <3>3. CASE dma.wptr + 1 # Words
      <4>1. dma.wptr + 1 \in 0 .. AddrSize - 1
        BY <1>1, <1>2, <3>2, <3>3
      <4>2. dma'.state = "LOAD_INSTR" /\ dma'.wptr = dma.wptr + 1
        BY <1>2, <2>8, <3>2, <3>3, <4>1, ModSmall DEF TakesHigh
      <4>3. QED
        BY <3>1, <4>2 DEF Contents, HasWords
    <3>4. CASE dma.wptr + 1 = Words
      <4>1. dma'.state = (IF Bytes = 0 THEN "RUN" ELSE "LOAD_DATA") /\ dma'.wptr = 0
        BY <2>8, <3>2, <3>4 DEF TakesHigh
      <4>2. HasWords(RomAfter, Words)'
        BY <2>1, <3>1, <3>4 DEF HasWords
      <4>3. dma'.state = "RUN" => \A c \in Cores : HasBytes(mem[c], Bytes - 1)'
        BY <2>1, <4>1 DEF HasBytes
      <4>4. QED
        BY <4>1, <4>2, <4>3 DEF Contents, HasBytes
    <3>5. QED
      BY <3>3, <3>4
  <2>9. CASE NoData
    <3>1. dma.state = "LOAD_DATA" /\ dma'.state = "RUN" /\ Bytes = 0 /\ ~dma'.instr_we
      BY <2>9 DEF NoData, Parsing
    <3>2. \A c \in Cores : HasBytes(mem[c], Bytes - 1)'
      BY <2>1, <3>1 DEF HasBytes
    <3>3. QED
      BY <2>4, <3>1, <3>2 DEF Contents
  <2>10. CASE TakesData
    <3>1. dma.state = "LOAD_DATA" /\ rx_valid /\ dma.data_size = Bytes /\ ~dma'.instr_we
      BY <2>10 DEF TakesData, Parsing
    <3>2. dma.wptr < Bytes /\ HasWords(RomAfter, Words)'
      BY <2>4, <3>1, DataRead
    <3>3. CASE dma.wptr + 1 = Bytes % AddrSize
      <4>1. dma'.state = "RUN"
        BY <2>10, <3>1, <3>3 DEF TakesData
      <4>2. Bytes - 1 <= dma.wptr
        <5>1. CASE Bytes = AddrSize
          <6>1. AddrSize % AddrSize = 0 /\ dma.wptr + 1 # 0
            BY <1>2
          <6>2. QED
            BY <3>3, <5>1, <6>1
        <5>2. CASE Bytes # AddrSize
          BY <1>1, <1>2, <3>3, <5>2
        <5>3. QED
          BY <5>1, <5>2
      <4>3. \A c \in Cores : HasBytes(MemAfter(c), dma.wptr)
        BY <3>1 DEF Contents
      <4>4. \A i \in 1 .. Bytes - 1 : i \in 1 .. dma.wptr
        BY <1>1, <1>2, <4>2
      <4>5. \A c \in Cores : HasBytes(mem[c], Bytes - 1)'
        BY <1>4, <2>1, <2>3, <3>1, <4>3, <4>4 DEF HasBytes
      <4>6. QED
        BY <3>2, <4>1, <4>5 DEF Contents
    <3>4. CASE dma.wptr + 1 # Bytes % AddrSize
      <4>1. dma'.state = "LOAD_DATA" /\ dma'.wptr = (dma.wptr + 1) % AddrSize /\ dma'.loading
        BY <2>10, <3>1, <3>4 DEF TakesData
      <4>2. \A c \in Cores : \A i \in 1 .. dma.wptr + 1 : MemAfter(c)'[i - 1] = job'.data[i]
        BY <1>4, <2>3, <2>10, <3>1, <4>1, ByteLands
      <4>3. \A i \in 1 .. dma'.wptr : i \in 1 .. dma.wptr + 1
        <5>1. dma'.wptr \in {0, dma.wptr + 1}
          <6>1. CASE dma.wptr + 1 = AddrSize
            BY <1>2, <4>1, <6>1
          <6>2. CASE dma.wptr + 1 # AddrSize
            BY <1>2, <4>1, <6>2, ModSmall
          <6>3. QED
            BY <6>1, <6>2
        <5>2. QED
          BY <1>2, <5>1
      <4>4. \A c \in Cores : HasBytes(MemAfter(c), dma.wptr)'
        BY <4>2, <4>3 DEF HasBytes
      <4>5. QED
        BY <3>2, <4>1, <4>4 DEF Contents
    <3>5. QED
      BY <3>3, <3>4
  <2>11. CASE Runs
    <3>1. dma.state = "RUN" /\ ~dma'.instr_we /\ dma'.state \in {"HEADER_INSTR_L", "RUN"}
      BY <2>11 DEF Runs, Calm
    <3>2. HasWords(RomAfter, Words)'
      BY <2>4, <3>1
    <3>3. ASSUME dma'.state = "RUN", Going' => \A c \in Cores : core'[c].state = "IDLE", NEW c \in Cores
          PROVE  HasBytes(mem[c], Bytes - 1)'
      <4>1. ~dma'.gpu_start
        BY <2>11 DEF Runs, Calm
      <4>2. Going => \A k \in Cores : core[k].state = "IDLE"
        <5>1. SUFFICES ASSUME Going PROVE \A k \in Cores : core[k].state = "IDLE"
          OBVIOUS
        <5>2. armed /\ ~gpu_reset /\ runrst = RunRst /\ ~dma.gpu_start
          BY <3>1, <5>1 DEF Phases, Going, Loading
        <5>3. ~gpu_reset' /\ runrst' = RunRst
          BY <5>2, ControlMoves
        <5>4. \A k \in Cores : core'[k].state = "IDLE"
          BY <3>3, <4>1, <5>3 DEF Going, Loading
        <5>5. QED
          BY <5>2, <5>4, CoreStates
      <4>3. HasBytes(mem[c], Bytes - 1)
        BY <3>1, <4>2 DEF Contents
      <4>4. ~core[c].we
        <5>1. core[c].state # "RUN"
          BY <4>2, OutOfRun
        <5>2. QED
          BY <5>1 DEF CoresSane
      <4>5. mem'[c] = mem[c]
        <5>1. dma.loading => ~dma.mem_we
          BY <3>1 DEF Pulses
        <5>2. QED
          BY <4>4, <5>1, MemoryMoves DEF MemAfter
      <4>6. QED
        BY <1>4, <2>1, <4>3, <4>5 DEF HasBytes
    <3>4. QED
      BY <3>1, <3>2, <3>3 DEF Contents
  <2>12. QED
    BY <2>5, <2>6, <2>7, <2>8, <2>9, <2>10, <2>11, DmaRows
<1>5. QED
  BY <1>3, <1>4, LineMoves

-----------------------------------------------------------------------------
(* The reply.                                                               *)

Regroups(x, y, z) == (x \o y) \o z = x \o (y \o z)

\* Joining three byte sequences: the grouping does not matter.
LEMMA Associative ==
  ASSUME NEW x \in Seq(Byte), NEW y \in Seq(Byte), NEW z \in Seq(Byte)
  PROVE  Regroups(x, y, z)
BY ConcatAssociative DEF Regroups

\* Handing over one byte changes nothing of the whole.
LEMMA HandOver ==
  ASSUME NEW r \in Seq(Byte), NEW l \in Seq(Byte), NEW o \in Seq(Byte), l # << >>
  PROVE  /\ Append(r, Head(l)) \o (Tail(l) \o o) = r \o (l \o o)
         /\ Append(r, Head(l)) \o (<< >> \o Tail(l)) = r \o (<< >> \o l)
<1>1. Head(l) \in Byte /\ Tail(l) \in Seq(Byte) /\ <<Head(l)>> \in Seq(Byte)
  OBVIOUS
<1>2. Append(r, Head(l)) = r \o <<Head(l)>> /\ l = <<Head(l)>> \o Tail(l)
  BY <1>1
<1>3. PICK h \in Seq(Byte) : h = <<Head(l)>>
  BY <1>1
<1>4. PICK t \in Seq(Byte) : t = Tail(l)
  BY <1>1
<1>a. t \o o \in Seq(Byte)
  OBVIOUS
<1>5. PICK k \in Seq(Byte) : k = t \o o
  BY <1>a
<1>6. Regroups(r, h, k) /\ Regroups(h, t, o) /\ Regroups(r, h, t)
  BY Associative
<1>7. (r \o h) \o (t \o o) = r \o (h \o (t \o o))
  <2>1. (r \o h) \o k = r \o (h \o k)
    BY <1>6 DEF Regroups
  <2>2. QED
    BY <1>5, <2>1, Zenon
<1>8. h \o (t \o o) = (h \o t) \o o /\ (r \o h) \o t = r \o (h \o t)
  BY <1>6, Zenon DEF Regroups
<1>9. << >> \o t = t /\ << >> \o l = l
  OBVIOUS
<1>10. Append(r, Head(l)) = r \o h /\ l = h \o t
  BY <1>2, <1>3, <1>4, Zenon
<1>11. Append(r, Head(l)) \o (Tail(l) \o o) = r \o (l \o o)
  BY <1>4, <1>7, <1>8, <1>10, Zenon
<1>12. Append(r, Head(l)) \o (<< >> \o Tail(l)) = r \o (<< >> \o l)
  BY <1>4, <1>8, <1>9, <1>10, Zenon
<1>13. QED
  BY <1>11, <1>12

\* What a running core still has to send, in a cycle.
LEMMA LeftMoves ==
  ASSUME Typed, Next, ~gpu_reset, NEW c \in Cores
  PROVE  /\ core[c].state = "IDLE" /\ ~core_start => core'[c].state = "IDLE"
         /\ core[c].state = "IDLE" /\ core_start =>
              core'[c].state = "RUN" /\ core'[c].left = job.emits[c]
         /\ core[c].state # "IDLE" =>
              /\ core'[c].state # "IDLE"
              /\ core'[c].left = IF core[c].valid /\ CoreReady(c) THEN Tail(core[c].left)
                                 ELSE core[c].left
<1>1. core[c] \in CoreType /\ core[c].state \in {"IDLE", "RUN", "DONE"}
      /\ (core[c].valid => core[c].state = "RUN")
  BY DEF Typed, RunTyped, CoreType
<1>2. CASE core[c].state = "IDLE"
  BY <1>1, <1>2, CoreCases DEF CoreType
<1>3. CASE core[c].state = "RUN" /\ core[c].valid
  <2>1. CASE CoreReady(c)
    <3>1. core'[c] = [core[c] EXCEPT !.valid = FALSE, !.left = Tail(core[c].left), !.we = FALSE]
      BY <1>1, <1>3, <2>1, CoreCases
    <3>2. \A t : [core[c] EXCEPT !.valid = FALSE, !.left = t, !.we = FALSE].left = t
      BY <1>1 DEF CoreType
    <3>3. core'[c].left = Tail(core[c].left)
      BY <3>1, <3>2
    <3>4. core'[c].state # "IDLE"
      BY <1>3, CoreStates
    <3>5. QED
      BY <1>3, <2>1, <3>3, <3>4
  <2>2. CASE ~CoreReady(c)
    BY <1>1, <1>3, <2>2, CoreCases DEF CoreType
  <2>3. QED
    BY <2>1, <2>2
<1>4. CASE core[c].state = "RUN" /\ ~core[c].valid
  BY <1>4, CoreCases, RunningMoves
<1>5. CASE core[c].state = "DONE"
  BY <1>1, <1>5, CoreCases
<1>6. QED
  BY <1>1, <1>2, <1>3, <1>4, <1>5

\* A cycle of a run, of one core: what is owed to the host shrinks by the byte that
\* arrives there, and by nothing else.
LEMMA OwedStep ==
  ASSUME Typed, Phases, CoresSane, Flight, Next, Going, job' = job, NEW c \in Cores
  PROVE  Owed(c)' = IF Delivers /\ turn = Name(c) THEN Tail(Owed(c)) ELSE Owed(c)
<1>1. ~gpu_reset /\ (Answered' <=> Delivers \/ (Answered /\ ~emit_ready))
  BY AnsweredStep DEF Going
<1>2. /\ core[c].state \in {"IDLE", "RUN", "DONE"}
      /\ core[c].valid => core[c].state = "RUN"
  BY DEF Typed, RunTyped, CoreType
<1>3. Name(c) \in {"CORE0", "CORE1"} /\ (turn = Name(c) => (EmitValid(Port) <=> core[c].valid))
  BY DEF Name, EmitValid, Port, Cores
<1>4. CoreReady(c) <=> emit_ready /\ turn = Name(c)
  BY DEF CoreReady, Name, Cores
<1>5. Delivers \/ Answered => EmitValid(Port)
  BY DEF Delivers, Answered, Flight
<1>6. Delivers => ~Answered /\ ~emit_ready
  BY DEF Delivers, Answered, Flight
<1>7. EmitValid(Port) /\ ~emit_ready => turn' = turn
  BY OfferStands
<1>8. CASE core[c].state = "IDLE"
  <2>1. ~(turn = Name(c) /\ (Delivers \/ Answered))
    BY <1>2, <1>3, <1>5, <1>8
  <2>2. Owed(c) = job.emits[c]
    BY <1>8 DEF Owed
  <2>3. ~(Answered' /\ turn' = Name(c))
    BY <1>1, <1>5, <1>6, <1>7, <2>1
  <2>4. core'[c].state = "IDLE" \/ core'[c].left = job.emits[c]
    BY <1>1, <1>8, LeftMoves
  <2>5. Owed(c)' = job.emits[c]
    BY <2>3, <2>4 DEF Owed
  <2>6. QED
    BY <2>1, <2>2, <2>5
<1>9. CASE core[c].state # "IDLE" /\ turn = Name(c) /\ emit_ready
  <2>1. Answered /\ core[c].valid /\ ~Delivers
    BY <1>3, <1>5, <1>6, <1>9 DEF Answered
  <2>2. ~Answered'
    BY <1>1, <1>9, <2>1
  <2>3. Owed(c) = Tail(core[c].left)
    BY <1>9, <2>1 DEF Owed
  <2>4. core'[c].state # "IDLE" /\ core'[c].left = Tail(core[c].left)
    BY <1>1, <1>4, <1>9, <2>1, LeftMoves
  <2>5. Owed(c)' = Tail(core[c].left)
    BY <2>2, <2>4 DEF Owed
  <2>6. QED
    BY <2>1, <2>3, <2>5
<1>10. CASE core[c].state # "IDLE" /\ ~(turn = Name(c) /\ emit_ready)
  <2>1. core'[c].state # "IDLE" /\ core'[c].left = core[c].left
    BY <1>1, <1>4, <1>10, LeftMoves
  <2>2. CASE turn = Name(c) /\ Delivers
    <3>1. ~Answered /\ Answered' /\ turn' = turn
      BY <1>1, <1>5, <1>6, <1>7, <2>2
    <3>2. Owed(c) = core[c].left
      BY <1>10, <3>1 DEF Owed
    <3>3. Owed(c)' = Tail(core[c].left)
      BY <2>1, <2>2, <3>1 DEF Owed
    <3>4. QED
      BY <2>2, <3>2, <3>3
  <2>3. CASE turn = Name(c) /\ ~Delivers /\ Answered
    <3>1. Answered' /\ turn' = turn
      BY <1>1, <1>5, <1>7, <1>10, <2>3
    <3>2. Owed(c) = Tail(core[c].left)
      BY <1>10, <2>3 DEF Owed
    <3>3. Owed(c)' = Tail(core[c].left)
      BY <2>1, <2>3, <3>1 DEF Owed
    <3>4. QED
      BY <2>3, <3>2, <3>3
  <2>4. CASE turn = Name(c) /\ ~Delivers /\ ~Answered
    <3>1. ~Answered'
      BY <1>1, <2>4
    <3>2. QED
      BY <1>10, <2>1, <2>4, <3>1 DEF Owed
  <2>5. CASE turn # Name(c)
    <3>1. ~(Answered' /\ turn' = Name(c))
      BY <1>1, <1>5, <1>6, <1>7, <2>5
    <3>2. QED
      BY <1>10, <2>1, <2>5, <3>1 DEF Owed
  <2>6. QED
    BY <2>2, <2>3, <2>4, <2>5
<1>11. QED
  BY <1>8, <1>9, <1>10

\* A cycle within a run.
LEMMA ReplyGrows ==
  ASSUME Typed, Phases, CoresSane, Flight, Replying, Next, Going, job' = job, Receive
  PROVE  reply' \o (Owed(0)' \o Owed(1)') = Expected
<1>1. /\ reply \o (Owed(0) \o Owed(1)) = Expected
      /\ turn = "CORE0" \/ core_done[0]
  BY DEF Replying
<1>2. \A c \in Cores : core[c].left \in Seq(Byte) /\ job.emits[c] \in Seq(Byte)
  <2>1. job.emits \in [Cores -> Seq(Byte)]
    BY FramesOfWorkload DEF Typed, HostTyped
  <2>2. QED
    BY <2>1 DEF Typed, RunTyped, CoreType
<1>3. Name(0) = "CORE0" /\ Name(1) = "CORE1" /\ 0 \in Cores /\ 1 \in Cores
  BY DEF Name, Cores
<1>4. reply \in Seq(Byte)
  BY DEF Typed, HostTyped
<1>5. CASE ~Delivers
  <2>1. Owed(0)' = Owed(0) /\ Owed(1)' = Owed(1)
    BY <1>3, <1>5, OwedStep
  <2>2. reply' = reply
    BY <1>5 DEF Receive
  <2>3. QED
    BY <1>1, <2>1, <2>2
<1>6. CASE Delivers
  <2>1. EmitValid(Port) /\ tx.shift = EmitData(Port) /\ ~Answered /\ reply' = Append(reply, tx.shift)
    BY <1>6 DEF Delivers, Flight, Answered, Receive
  <2>2. CASE turn = "CORE0"
    <3>1. core[0].valid /\ tx.shift = core[0].data
      BY <2>1, <2>2 DEF EmitValid, EmitData, Port, Cores
    <3>2. Owed(0) = core[0].left /\ core[0].left # << >> /\ tx.shift = Head(core[0].left)
      BY <1>3, <2>1, <3>1 DEF CoresSane, Owed
    <3>3. PICK l \in Seq(Byte) : l = Owed(0)
      BY <1>2, <1>3, <3>2
    <3>4. Owed(1) \in Seq(Byte)
      BY <1>2, <1>3, <2>1 DEF Owed
    <3>5. PICK o \in Seq(Byte) : o = Owed(1)
      BY <3>4
    <3>6. Owed(0)' = Tail(l) /\ Owed(1)' = o /\ reply' = Append(reply, Head(l))
      BY <1>3, <1>6, <2>1, <2>2, <3>2, <3>3, <3>5, OwedStep
    <3>7. Append(reply, Head(l)) \o (Tail(l) \o o) = reply \o (l \o o)
      BY <1>4, <3>2, <3>3, HandOver
    <3>8. QED
      BY <1>1, <3>3, <3>5, <3>6, <3>7, Zenon
  <2>3. CASE turn # "CORE0"
    <3>1. core[1].valid /\ turn = "CORE1" /\ tx.shift = core[1].data
      BY <2>1, <2>3 DEF EmitValid, EmitData, Port, Cores
    <3>2. Owed(1) = core[1].left /\ core[1].left # << >> /\ tx.shift = Head(core[1].left)
      BY <1>3, <2>1, <3>1 DEF CoresSane, Owed
    <3>3. Owed(0) = << >>
      <4>1. core[0].state = "DONE"
        BY <1>1, <1>3, <2>3 DEF core_done
      <4>2. QED
        BY <1>3, <2>1, <4>1 DEF Owed, CoresSane
    <3>4. PICK l \in Seq(Byte) : l = Owed(1)
      BY <1>2, <1>3, <3>2
    <3>5. Owed(0)' = << >> /\ Owed(1)' = Tail(l) /\ reply' = Append(reply, Head(l))
      BY <1>3, <1>6, <2>1, <3>1, <3>2, <3>3, <3>4, OwedStep
    <3>6. << >> \in Seq(Byte)
      OBVIOUS
    <3>7. Append(reply, Head(l)) \o (<< >> \o Tail(l)) = reply \o (<< >> \o l)
      BY <1>4, <3>2, <3>4, <3>6, HandOver
    <3>8. QED
      BY <1>1, <3>3, <3>4, <3>5, <3>7, Zenon
  <2>4. QED
    BY <2>2, <2>3
<1>7. QED
  BY <1>5, <1>6

\* What the host has, followed by what the cores owe, remains the whole reply.
LEMMA ReplyingStep ==
  ASSUME Typed, Phases, CoresSane, OnLine, Pulses, Parsing, Flight, Replying, Next
  PROVE  Replying'
<1>1. CASE NextFrame
  <2>1. dma.state = "HEADER_INSTR_L" /\ ~rx_valid
    BY <1>1 DEF NextFrame
  <2>2. dma'.state = "HEADER_INSTR_L"
    BY <2>1, DmaRows DEF Waits, TakesHeader, Headers, TakesLow, TakesHigh, NoData, TakesData, Runs
  <2>3. QED
    BY <2>2 DEF Replying, Loading, Resetting, Going
<1>2. CASE job' = job /\ Receive /\ dma.state # "RUN"
  <2>1. ~Going
    BY <1>2 DEF Going, Loading
  <2>2. Loading' /\ reply' = reply
    BY <1>2, <2>1, DmaPhase, OutOfRun, ReplyStands
  <2>3. CASE dma.state # "HEADER_INSTR_L"
    BY <1>2, <2>2, <2>3 DEF Replying, Loading, Resetting, Going
  <2>4. CASE dma.state = "HEADER_INSTR_L" /\ rx_valid
    <3>1. reply = << >>
      BY <2>4, HeaderRead, ByteTaken DEF Parsing, Headers
    <3>2. QED
      BY <2>2, <3>1 DEF Replying, Resetting, Going
  <2>5. CASE dma.state = "HEADER_INSTR_L" /\ ~rx_valid
    <3>1. dma'.state = "HEADER_INSTR_L"
      BY <2>5, DmaRows DEF Waits, TakesHeader, Headers, TakesLow, TakesHigh, NoData, TakesData, Runs
    <3>2. QED
      BY <2>2, <3>1 DEF Replying, Resetting, Going
  <2>6. QED
    BY <2>3, <2>4, <2>5
<1>3. CASE job' = job /\ Receive /\ dma.state = "RUN" /\ ~Going
  <2>1. reply = << >> /\ ~(done /\ ~dma.gpu_done_d)
    BY <1>3, DoneIs DEF Replying, Loading, Resetting, Going, Phases, OldRun, Fresh
  <2>2. reply' = << >>
    BY <1>3, <2>1, OutOfRun, ReplyStands
  <2>3. ~Loading'
    BY <1>3, <2>1, DmaPhase DEF Runs, Calm, Loading
  <2>4. CASE Going'
    <3>1. gpu_reset
      <4>1. CASE Loading
        <5>1. dma.gpu_start
          BY <1>3, <4>1 DEF Loading
        <5>2. runrst' = 0
          BY <5>1, ControlMoves
        <5>3. RunRst # 0
          BY BoardAssumption
        <5>4. QED
          BY <2>4, <5>2, <5>3 DEF Going
      <4>2. CASE Resetting
        <5>1. ~gpu_reset' /\ gpu_reset' = (~armed \/ runrst # RunRst)
          BY <2>4, ControlMoves DEF Going
        <5>2. QED
          BY <4>2, <5>1 DEF Resetting
      <4>3. QED
        BY <1>3, <4>1, <4>2 DEF Loading, Resetting, Going
    <3>2. turn' = "CORE0" /\ \A c \in Cores : core'[c].state = "IDLE"
      BY <3>1, EmitMoves, CoreStates DEF Turn
    <3>3. Owed(0)' = job.emits[0] /\ Owed(1)' = job.emits[1]
      BY <1>3, <3>2 DEF Owed, Cores
    <3>4. Expected' = job.emits[0] \o job.emits[1] /\ Expected' \in Seq(Byte)
      <4>1. job.emits \in [Cores -> Seq(Byte)]
        BY FramesOfWorkload DEF Typed, HostTyped
      <4>2. job.emits[0] \in Seq(Byte) /\ job.emits[1] \in Seq(Byte)
        BY <4>1 DEF Cores
      <4>3. Expected' = job.emits[0] \o job.emits[1]
        BY <1>3 DEF Expected
      <4>4. QED
        BY <4>2, <4>3
    <3>5. PICK e \in Seq(Byte) : e = job.emits[0] \o job.emits[1]
      BY <3>4
    <3>6. << >> \o e = e
      OBVIOUS
    <3>7. reply' \o (Owed(0)' \o Owed(1)') = Expected'
      BY <2>2, <3>3, <3>4, <3>5, <3>6, Zenon
    <3>8. QED
      BY <2>3, <2>4, <3>2, <3>7 DEF Replying, Resetting, Going
  <2>5. CASE ~Going'
    BY <2>2, <2>3, <2>5 DEF Replying, Resetting, Going
  <2>6. QED
    BY <2>4, <2>5
<1>4. CASE job' = job /\ Receive /\ Going
  <2>1. dma.state = "RUN" /\ armed /\ ~gpu_reset /\ runrst = RunRst /\ ~dma.gpu_start
    BY <1>4 DEF Going, Loading, Phases
  <2>2. dma'.state \in {"HEADER_INSTR_L", "RUN"} /\ ~gpu_reset' /\ runrst' = RunRst
    BY <2>1, DmaPhase, ControlMoves DEF Runs
  <2>3. reply' \o (Owed(0)' \o Owed(1)') = Expected'
    <3>1. Expected' = Expected
      BY <1>4 DEF Expected
    <3>2. QED
      BY <1>4, <3>1, ReplyGrows
  <2>4. (turn' = "CORE0" \/ core_done'[0]) /\ (turn' = "END" => core_done'[1])
    <3>1. (turn = "CORE0" \/ core_done[0]) /\ (turn = "END" => core_done[1])
      BY <1>4 DEF Replying
    <3>2. \A c \in Cores : core_done[c] => core_done'[c]
      BY <2>1, CoreStates DEF core_done
    <3>3. QED
      BY <2>1, <3>1, <3>2, EmitMoves DEF Turn, Cores
  <2>5. ~Resetting' /\ (Loading' => dma'.state = "HEADER_INSTR_L")
    BY <2>1, <2>2, DmaPhase DEF Loading, Resetting, Runs, Calm
  <2>6. QED
    BY <2>3, <2>4, <2>5 DEF Replying
<1>5. QED
  BY <1>1, <1>2, <1>3, <1>4, LineMoves

-----------------------------------------------------------------------------
\* The board begins in the invariant.
LEMMA IInvInit == Init => IInv
<1> SUFFICES ASSUME Init PROVE IInv
  OBVIOUS
<1>1. Typed
  BY TypedInit
<1>2. /\ dma = DmaReset /\ armed = FALSE /\ runrst = 0 /\ gpu_reset = TRUE
      /\ dispatched = FALSE /\ core_start = FALSE /\ rx_valid = FALSE /\ reply = << >>
      /\ \A c \in Cores : core[c].state = "IDLE" /\ ~core[c].valid /\ ~core[c].we
  BY DEF Init, LoaderInit, CoreReset
<1>3. dma.state = "HEADER_INSTR_L" /\ ~dma.gpu_start /\ ~dma.mem_we
  BY <1>2 DEF DmaReset
<1>4. wire = FrameBytes(job)
  BY DEF Init
<1>5. Len(wire) = Total /\ Total \in Nat
  <2>1. PICK f \in Frames : f = job
    BY <1>1, Counts
  <2>2. Len(FrameBytes(f)) = 4 + 2 * Len(f.prog) + Len(f.data)
    BY FrameLayout
  <2>3. QED
    BY <1>1, <1>4, <2>1, <2>2, Counts DEF Total, Words, Bytes
<1>6. Sent = 0 /\ Taken = 0
  <2>1. PICK n \in Nat : n = Total
    BY <1>5
  <2>2. Sent = n - n
    BY <1>5, <2>1 DEF Sent
  <2>3. n - n = 0
    OBVIOUS
  <2>4. QED
    BY <1>2, <2>2, <2>3 DEF Taken
<1>7. Phases /\ CoresSane /\ Pulses /\ Replying
  BY <1>2, <1>3 DEF Phases, Loading, Resetting, Going, Fresh, CoresSane, Pulses, Replying
<1>8. OnLine
  BY <1>2, <1>4, <1>5, <1>6 DEF OnLine
<1>9. Parsing /\ Contents
  BY <1>2, <1>3, <1>6 DEF Parsing, Contents
<1>10. Flight
  BY DEF Init, EmitInit, Flight
<1>11. QED
  BY <1>1, <1>7, <1>8, <1>9, <1>10 DEF IInv

\* A cycle of the board keeps the invariant, conjunct by conjunct.
LEMMA IInvStep ==
  ASSUME IInv, [Next]_vars
  PROVE  IInv'
<1>1. /\ Typed /\ Phases /\ CoresSane /\ OnLine /\ Pulses /\ Parsing /\ Contents
      /\ Flight /\ Replying
  BY DEF IInv
<1>2. CASE Next
  <2>1. Typed'
    BY <1>1, TypedStep
  <2>2. Phases' /\ CoresSane' /\ Pulses'
    BY <1>1, <1>2, PhasesStep, CoresSaneStep, PulsesStep
  <2>3. OnLine'
    BY <1>1, <1>2, LineMoves
  <2>4. Parsing' /\ Contents'
    BY <1>1, <1>2, ParsingStep, ContentsStep
  <2>5. Flight' /\ Replying'
    BY <1>1, <1>2, FlightStep, ReplyingStep
  <2>6. QED
    BY <2>1, <2>2, <2>3, <2>4, <2>5 DEF IInv
<1>3. CASE UNCHANGED vars
  <2>1. /\ UNCHANGED <<dma, rom, mem, turn, estate, tx_start, emit_ready, tx>>
        /\ UNCHANGED <<armed, runrst, gpu_reset, dispatched, core_start, core>>
        /\ UNCHANGED <<rx_valid, rx_byte, queue, job, wire, reply>>
    BY <1>3 DEF vars, board, host, emitvars
  <2>2. Typed'
    BY <1>1, <1>3, TypedStep
  <2>3. Phases' /\ CoresSane' /\ Pulses'
    BY <1>1, <2>1 DEF Phases, CoresSane, Pulses, Loading, Resetting, Going, OldRun, Fresh, done, core_done
  <2>4. Words' = Words /\ Bytes' = Bytes /\ Total' = Total /\ Sent' = Sent /\ Taken' = Taken /\ Expected' = Expected
    BY <2>1 DEF Words, Bytes, Total, Sent, Taken, Expected
  <2>5. OnLine' /\ Parsing'
    BY <1>1, <2>1, <2>4 DEF OnLine, Parsing
  <2>6. Contents'
    BY <1>1, <2>1 DEF Contents, RomAfter, MemAfter, HasWords, HasBytes, Words, Bytes, Going, Loading
  <2>7. Flight'
    BY <1>1, <2>1 DEF Flight, EmitValid, EmitData, Port
  <2>8. Replying'
    BY <1>1, <2>1 DEF Replying, Loading, Resetting, Going, Owed, Answered, Expected, core_done
  <2>9. QED
    BY <2>2, <2>3, <2>5, <2>6, <2>7, <2>8 DEF IInv
<1>4. QED
  BY <1>2, <1>3

\* The parts of the board stay in step: what the DMA has taken of a frame, what is
\* in the memories, where the reset and the cores are, and what the host has of the
\* reply, always fit together.
THEOREM BoardInductive == Spec => []IInv
BY IInvInit, IInvStep, PTL DEF Spec

\* When the cores start, the frame is in both copies of the memories, but for its
\* last data byte, whatever the workload and whatever ran before.
THEOREM FrameInPlace == Spec => []RunHasItsFrame
<1>1. IInv => RunHasItsFrame
  <2> SUFFICES ASSUME IInv, core_start
               PROVE  /\ \A i \in DOMAIN job.prog : rom[i - 1] = job.prog[i]
                      /\ \A i \in 1 .. Len(job.data) - 1, c \in Cores : mem[c][i - 1] = job.data[i]
    BY DEF RunHasItsFrame
  <2>1. Typed /\ Phases /\ Pulses /\ Contents
    BY DEF IInv
  <2>2. Going /\ dispatched
    BY <2>1 DEF Phases, Loading, Resetting, Going, OldRun, Fresh
  <2>3. dma.state = "RUN" /\ ~dma.instr_we /\ \A c \in Cores : core[c].state = "IDLE"
    BY <2>1, <2>2 DEF Going, Loading, Phases, Pulses
  <2>4. HasWords(rom, Words) /\ \A c \in Cores : HasBytes(mem[c], Bytes - 1)
    BY <2>1, <2>3 DEF Contents, RomAfter
  <2>5. DOMAIN job.prog = 1 .. Len(job.prog)
    BY <2>1, Counts
  <2>6. QED
    BY <2>4, <2>5 DEF HasWords, HasBytes, Words, Bytes
<1>2. QED
  BY <1>1, BoardInductive, PTL

\* No store of a core is lost to the DMA: a core runs only when the whole frame is in.
THEOREM PortHandedOver == Spec => []NoRunWhileLoading
<1>1. IInv => NoRunWhileLoading
  <2> SUFFICES ASSUME IInv, NEW c \in Cores, core[c].state = "RUN" \/ core[c].we
               PROVE  dma.state = "RUN" /\ ~dma.loading /\ wire = << >>
    BY DEF NoRunWhileLoading
  <2>1. Typed /\ Phases /\ CoresSane /\ OnLine /\ Pulses /\ Parsing
    BY DEF IInv
  <2>2. Going
    BY <2>1, OutOfRun
  <2>3. dma.state = "RUN" /\ ~dma.gpu_start
    BY <2>2 DEF Going, Loading
  <2>4. ~dma.loading /\ Taken = Total
    BY <2>1, <2>3 DEF Pulses, Parsing
  <2>5. QED
    BY <2>1, <2>3, <2>4, ByteTaken
<1>2. QED
  BY <1>1, BoardInductive, PTL

\* The first part of a joined sequence is its prefix.
LEMMA Prefixes ==
  ASSUME NEW r \in Seq(Byte), NEW t \in Seq(Byte), NEW e, r \o t = e
  PROVE  Len(r) <= Len(e) /\ r = SubSeq(e, 1, Len(r))
<1>1. /\ e \in Seq(Byte) /\ Len(e) = Len(r) + Len(t) /\ Len(r) \in Nat /\ Len(t) \in Nat
      /\ \A i \in 1 .. Len(r) : e[i] = r[i]
  <2>1. /\ r \o t \in Seq(Byte) /\ Len(r \o t) = Len(r) + Len(t)
        /\ \A i \in 1 .. Len(r) : (r \o t)[i] = r[i]
    BY Joined
  <2>2. QED
    BY <2>1
<1>2. SubSeq(e, 1, Len(r)) = [i \in 1 .. Len(r) |-> e[i]]
  BY <1>1
<1>3. r = [i \in 1 .. Len(r) |-> r[i]]
  OBVIOUS
<1>4. QED
  BY <1>1, <1>2, <1>3

\* What the host has read is, at any time, a prefix of what the kernel emits: core
\* 0's bytes, then core 1's, none lost, repeated or torn by the handoff.
THEOREM ReplyIsPrefix == Spec => []ReplyInOrder
<1>1. IInv => ReplyInOrder
  <2> SUFFICES ASSUME IInv PROVE ReplyInOrder
    OBVIOUS
  <2>1. Typed /\ Phases /\ Parsing /\ Replying
    BY DEF IInv
  <2>2. job.emits \in [Cores -> Seq(Byte)] /\ reply \in Seq(Byte)
    BY <2>1, FramesOfWorkload DEF Typed, HostTyped
  <2>3. PICK e0 \in Seq(Byte), e1 \in Seq(Byte) : e0 = job.emits[0] /\ e1 = job.emits[1]
    BY <2>2 DEF Cores
  <2>4. Expected = e0 \o e1
    BY <2>3 DEF Expected
  <2>5. PICK e \in Seq(Byte) : e = Expected
    <3>1. e0 \o e1 \in Seq(Byte)
      OBVIOUS
    <3>2. QED
      BY <2>4, <3>1
  <2>6. \E t \in Seq(Byte) : reply \o t = Expected
    <3>1. CASE reply = << >>
      <4>1. << >> \o e = e
        OBVIOUS
      <4>2. QED
        BY <2>5, <3>1, <4>1
    <3>2. CASE reply = Expected
      <4>1. << >> \in Seq(Byte) /\ e \o << >> = e
        OBVIOUS
      <4>2. QED
        BY <2>5, <3>2, <4>1
    <3>3. CASE Going
      <4>1. reply \o (Owed(0) \o Owed(1)) = Expected
        BY <2>1, <3>3 DEF Replying
      <4>2. Owed(0) \in Seq(Byte) /\ Owed(1) \in Seq(Byte)
        <5>1. ASSUME NEW c \in Cores PROVE Owed(c) \in Seq(Byte)
          <6>1. core[c].left \in Seq(Byte) /\ job.emits[c] \in Seq(Byte)
            BY <2>1, <2>2 DEF Typed, RunTyped, CoreType
          <6>2. CASE Answered /\ turn = Name(c) /\ core[c].state # "IDLE"
            <7>1. core[c].left # << >>
              BY <6>2 DEF IInv, Flight, CoresSane, Answered, EmitValid, Port, Name, Cores
            <7>2. QED
              BY <6>1, <6>2, <7>1 DEF Owed
          <6>3. QED
            BY <6>1, <6>2 DEF Owed
        <5>2. QED
          BY <5>1 DEF Cores
      <4>3. Owed(0) \o Owed(1) \in Seq(Byte)
        BY <4>2
      <4>4. QED
        BY <4>1, <4>3
    <3>4. QED
      BY <2>1, <3>1, <3>2, <3>3 DEF Parsing, Replying, Loading, Resetting, Going
  <2>7. PICK t \in Seq(Byte) : reply \o t = Expected
    BY <2>6
  <2>8. QED
    BY <2>2, <2>7, Prefixes DEF ReplyInOrder
<1>2. QED
  BY <1>1, BoardInductive, PTL

\* done rises only when the host has every byte of both cores: re-arming the DMA
\* then cannot cut a reply short.
THEOREM DoneAfterReply == Spec => DoneMeansDelivered
<1>1. IInv /\ [Next]_vars => [done' /\ ~done => reply = Expected]_vars
  <2> SUFFICES ASSUME IInv, Next, done', ~done PROVE reply = Expected
    OBVIOUS
  <2>1. Typed /\ Phases /\ CoresSane /\ Flight /\ Replying
    BY DEF IInv
  <2>2. dispatched' /\ \A c \in Cores : core'[c].state = "DONE"
    BY DoneIsNext
  <2>3. ~gpu_reset
    BY <2>1, <2>2, ControlMoves
  <2>4. ~OldRun /\ ~Fresh
    <3>1. ~OldRun
      BY DoneIs DEF OldRun
    <3>2. ASSUME Fresh PROVE FALSE
      <4>1. core[0].state = "IDLE" /\ ~core_start /\ 0 \in Cores
        BY <3>2 DEF Fresh, Cores
      <4>2. core'[0].state = "IDLE"
        BY <2>1, <2>3, <4>1, CoreStates
      <4>3. QED
        BY <2>2, <4>1, <4>2
    <3>3. QED
      BY <3>1, <3>2
  <2>5. Going
    BY <2>1, <2>4 DEF Phases, Loading, Resetting, Going
  <2>6. \A c \in Cores : core[c].state # "IDLE" /\ ~core[c].valid /\ core[c].left = << >>
    <3>1. SUFFICES ASSUME NEW c \in Cores
                   PROVE  core[c].state # "IDLE" /\ ~core[c].valid /\ core[c].left = << >>
      OBVIOUS
    <3>2. core[c].state \in {"RUN", "DONE"}
      BY <2>1, <2>2, <2>3, CoreStates
    <3>3. CASE core[c].state = "DONE"
      BY <2>1, <3>3 DEF CoresSane
    <3>4. CASE core[c].state = "RUN"
      <4>1. ~core[c].valid
        <5>1. SUFFICES ASSUME core[c].valid PROVE FALSE
          OBVIOUS
        <5>2. core[c] \in CoreType
          BY <2>1 DEF Typed, RunTyped
        <5>3. core'[c].state = "RUN"
          BY <2>1, <2>3, <3>4, <5>1, <5>2, CoreCases DEF CoreType
        <5>4. QED
          BY <2>2, <5>3
      <4>2. core'[c] \in Running(c)
        BY <2>1, <2>3, <3>4, <4>1, CoreCases
      <4>3. QED
        BY <2>1, <2>2, <3>4, <4>1, <4>2, RunningMoves
    <3>5. QED
      BY <3>2, <3>3, <3>4
  <2>7. ~EmitValid(Port)
    BY <2>6 DEF EmitValid, Port, Cores
  <2>8. QED
    BY <2>1, <2>5, <2>6, <2>7, AllDelivered
<1>2. QED
  BY <1>1, BoardInductive, PTL DEF Spec, DoneMeansDelivered
=============================================================================
