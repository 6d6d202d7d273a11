------------------------- MODULE Divergence_proofs --------------------------
(***************************************************************************)
(* For every warp size, every launch size and every program:               *)
(* Masks: the masks of a warp always form a partition of lanes it launched,*)
(* and the 2-bit stack pointer is deep enough for a warp of at most SDEPTH *)
(* lanes.                                                                  *)
(* Lanes: for a program laid out as codegen.rs lays it out, running the    *)
(* lanes under masks is running each lane by itself.                       *)
(***************************************************************************)
EXTENDS LaneView, FiniteSetTheorems, SequenceTheorems, TLAPS

\* A warp that launched somebody never runs for nobody, nor keeps an empty
\* frame; a warp that launched nobody never runs.
Populated ==
  /\ warp_status = "READY" => Launched # {}
  /\ Launched = {} => stack = << >>
  /\ Launched # {} =>
       /\ active_mask # {}
       /\ \A i \in 1 .. Len(stack) : stack[i].mask # {}

\* The frames stay inside the base mask, frame by frame.
Covered ==
  /\ active_mask \subseteq base_mask
  /\ \A i \in 1 .. Len(stack) : stack[i].mask \subseteq base_mask
  /\ base_mask \subseteq Launched

IInv == TypeOK /\ MasksDisjoint /\ Populated /\ Covered

-----------------------------------------------------------------------------
\* The facts about the stack's three updates that every later step needs.
LEMMA PushFacts ==
  ASSUME NEW s \in Seq(Frame), Len(s) < SDEPTH, NEW f \in Frame
  PROVE  /\ Push(s, f) \in Seq(Frame)
         /\ Len(Push(s, f)) < SDEPTH
         /\ Len(s) < SDEPTH - 1 => Push(s, f) = Append(s, f)
         /\ \A i \in 1 .. Len(Push(s, f)) :
              \/ i \in 1 .. Len(s) /\ Push(s, f)[i] = s[i]
              \/ i = Len(s) + 1 /\ Push(s, f)[i] = f
<1>1. Len(s) \in Nat
  OBVIOUS
<1>2. CASE Len(s) = SDEPTH - 1
  BY <1>1, <1>2, SizesAssumption DEF Push
<1>3. CASE Len(s) # SDEPTH - 1
  <2>1. Push(s, f) = Append(s, f)
    BY <1>3 DEF Push
  <2>2. /\ Append(s, f) \in Seq(Frame) /\ Len(Append(s, f)) = Len(s) + 1
        /\ \A i \in 1 .. Len(s) + 1 :
             Append(s, f)[i] = IF i = Len(s) + 1 THEN f ELSE s[i]
    OBVIOUS
  <2>3. QED
    BY <1>1, <1>3, <2>1, <2>2, SizesAssumption
<1>4. QED
  BY <1>2, <1>3

\* A pop shortens the stack by one and leaves the frames below alone.
LEMMA PopFacts ==
  ASSUME NEW s \in Seq(Frame), s # << >>
  PROVE  /\ SubSeq(s, 1, Len(s) - 1) \in Seq(Frame)
         /\ Len(SubSeq(s, 1, Len(s) - 1)) = Len(s) - 1
         /\ \A i \in 1 .. Len(s) - 1 :
              i \in 1 .. Len(s) /\ i # Len(s) /\ SubSeq(s, 1, Len(s) - 1)[i] = s[i]
         /\ Len(s) \in 1 .. Len(s)
<1>1. Len(s) \in Nat \ {0}
  BY EmptySeq
<1>2. \A i \in 1 .. Len(s) - 1 : s[i] \in Frame
  BY <1>1, ElementOfSeq
<1> DEFINE t == SubSeq(s, 1, Len(s) - 1)
<1>3. /\ t \in Seq(Frame)
      /\ Len(t) = IF 1 <= Len(s) - 1 THEN Len(s) - 1 - 1 + 1 ELSE 0
      /\ \A i \in 1 .. Len(s) - 1 - 1 + 1 : t[i] = s[1 + i - 1]
  <2> HIDE DEF Frame
  <2>1. 1 \in Int /\ Len(s) - 1 \in Int
    BY <1>1
  <2>2. QED
    BY <1>2, <2>1, SubSeqProperties
<1> HIDE DEF t
<1>4. Len(t) = Len(s) - 1
  <2>1. Len(t) = IF 1 <= Len(s) - 1 THEN Len(s) - 1 - 1 + 1 ELSE 0
    BY <1>3
  <2>2. ASSUME NEW m \in Nat \ {0}
        PROVE  (IF 1 <= m - 1 THEN m - 1 - 1 + 1 ELSE 0) = m - 1
    OBVIOUS
  <2>3. QED
    BY <1>1, <2>1, <2>2
<1>5. \A i \in 1 .. Len(s) - 1 : t[i] = s[i]
  BY <1>1, <1>3
<1>6. QED
  BY <1>1, <1>3, <1>4, <1>5 DEF t

-----------------------------------------------------------------------------
\* Reset leaves an empty stack and the launch mask everywhere.
LEMMA InitIInv == Init => IInv
<1> SUFFICES ASSUME Init PROVE IInv
  OBVIOUS
<1>1. << >> \in Seq(Frame) /\ Len(<< >>) = 0
  BY EmptySeq
<1>2. TypeOK
  BY <1>1, SizesAssumption, LanesAssumption DEF Init, TypeOK, Pc
<1>3. MasksDisjoint /\ Populated /\ Covered
  BY <1>1 DEF Init, MasksDisjoint, Populated, Covered
<1>4. QED
  BY <1>2, <1>3 DEF IInv

\* The PC and the immediate stay in the program memory's range.
LEMMA PcFacts == TypeOK => NextPc \in Pc /\ instr.imm \in Pc /\ instr.op \in {"BR", "SYNC", "RET", "OTHER"}
<1> SUFFICES ASSUME TypeOK PROVE NextPc \in Pc /\ instr.imm \in Pc /\ instr.op \in {"BR", "SYNC", "RET", "OTHER"}
  OBVIOUS
<1>1. warp_pc \in Nat /\ PcSize \in Nat \ {0}
  BY SizesAssumption DEF TypeOK, Pc
<1>2. NextPc \in Pc
  BY <1>1 DEF NextPc, Pc
<1>3. prog \in [Pc -> Instr] /\ warp_pc \in Pc
  BY ProgramAssumption DEF TypeOK
<1>4. QED
  BY <1>2, <1>3 DEF instr, Instr

\* Instructions that leave the masks and the stack alone.
LEMMA SameMasks ==
  ASSUME IInv, warp_pc' \in Pc, warp_status' \in {warp_status, "DONE"},
         UNCHANGED <<prog, active_mask, stack, base_mask>>
  PROVE  IInv'
BY DEF IInv, TypeOK, MasksDisjoint, Populated, Covered

\* A branch, diverging or not, keeps the invariant: a frame takes the lanes that stay,
\* the mask those that go.
LEMMA DivergeIInv ==
  ASSUME IInv, NEW votes \in SUBSET Lanes, Diverge(votes)
  PROVE  IInv'
<1> DEFINE f == [pc |-> NextPc, mask |-> WantToStay(votes)]
<1>1. /\ active_mask' = active_mask \cap votes /\ active_mask' # {}
      /\ f.mask = active_mask \ votes /\ f.mask # {}
      /\ stack' = Push(stack, f)
  BY DEF Diverge, WantToBranch, WantToStay
<1>2. f \in Frame /\ instr.imm \in Pc
  BY PcFacts DEF IInv, TypeOK, Frame, WantToStay
<1>3. /\ stack' \in Seq(Frame) /\ Len(stack') < SDEPTH
      /\ \A i \in 1 .. Len(stack') :
            \/ i \in 1 .. Len(stack) /\ stack'[i] = stack[i]
            \/ i = Len(stack) + 1 /\ stack'[i] = f
  BY <1>1, <1>2, PushFacts DEF IInv, TypeOK
<1>4. base_mask' \subseteq Launched /\ active_mask \subseteq base_mask'
  BY DEF Diverge, IInv, Covered
<1>5. \A i \in 1 .. Len(stack) : stack[i].mask \subseteq base_mask'
  BY EmptySeq DEF Diverge, IInv, Covered
<1>6. TypeOK'
  BY <1>1, <1>2, <1>3, <1>4, LanesAssumption DEF IInv, TypeOK, Diverge
<1>7. MasksDisjoint'
  <2>1. \A i \in 1 .. Len(stack') : stack'[i].mask \cap active_mask' = {}
    BY <1>1, <1>3 DEF IInv, MasksDisjoint
  <2>2. ASSUME NEW i \in 1 .. Len(stack'), NEW j \in 1 .. Len(stack'), i # j
        PROVE  stack'[i].mask \cap stack'[j].mask = {}
    BY <2>2, <1>1, <1>3 DEF IInv, MasksDisjoint
  <2>3. QED
    BY <2>1, <2>2 DEF MasksDisjoint
<1>8. Populated'
  BY <1>1, <1>3 DEF IInv, Populated, Diverge, Executes
<1>9. Covered'
  BY <1>1, <1>3, <1>4, <1>5 DEF Covered
<1>10. QED
  BY <1>6, <1>7, <1>8, <1>9 DEF IInv

\* A SYNC that pops keeps the invariant: lanes of the frame join the awake ones.
LEMMA SyncPopIInv ==
  ASSUME IInv, SyncPop
  PROVE  IInv'
<1> DEFINE n == Len(stack)
<1>1. /\ stack # << >> /\ stack \in Seq(Frame)
      /\ active_mask' = stack[n].mask /\ warp_pc' = stack[n].pc
      /\ stack' = SubSeq(stack, 1, n - 1)
      /\ UNCHANGED <<prog, base_mask, warp_status>>
  BY DEF SyncPop, IInv, TypeOK
<1>2. /\ stack' \in Seq(Frame) /\ Len(stack') = n - 1 /\ n \in 1 .. n
      /\ \A i \in 1 .. Len(stack') : i \in 1 .. n /\ i # n /\ stack'[i] = stack[i]
  BY <1>1, PopFacts
<1>3. stack[n] \in Frame
  BY <1>1, <1>2, ElementOfSeq
<1>4. TypeOK'
  <2>1. Len(stack') < SDEPTH
    BY <1>1, <1>2, SizesAssumption DEF IInv, TypeOK
  <2>2. QED
    BY <1>1, <1>2, <1>3, <2>1 DEF IInv, TypeOK, Frame
<1>5. MasksDisjoint'
  <2>1. \A i \in 1 .. Len(stack') : stack'[i].mask \cap active_mask' = {}
    BY <1>1, <1>2 DEF IInv, MasksDisjoint
  <2>2. \A i, j \in 1 .. Len(stack') :
          i # j => stack'[i].mask \cap stack'[j].mask = {}
    BY <1>2 DEF IInv, MasksDisjoint
  <2>3. QED
    BY <2>1, <2>2 DEF MasksDisjoint
<1>6. Populated'
  BY <1>1, <1>2 DEF IInv, Populated, SyncPop, Executes
<1>7. Covered'
  BY <1>1, <1>2 DEF IInv, Covered
<1>8. QED
  BY <1>4, <1>5, <1>6, <1>7 DEF IInv

\* A SYNC on an empty stack keeps the invariant: the base mask covers the awake lanes.
LEMMA SyncRestoreIInv ==
  ASSUME IInv, SyncRestore
  PROVE  IInv'
<1>1. /\ stack = << >> /\ active_mask' = base_mask /\ warp_pc' = NextPc
      /\ UNCHANGED <<prog, stack, base_mask, warp_status>>
  BY DEF SyncRestore
<1>2. Len(stack) = 0
  BY <1>1, EmptySeq
<1>3. QED
  BY <1>1, <1>2, PcFacts DEF IInv, TypeOK, MasksDisjoint, Populated, Covered

-----------------------------------------------------------------------------
\* One step, or a stutter, keeps the invariant.
LEMMA IInvStep == IInv /\ [Next]_vars => IInv'
<1> SUFFICES ASSUME IInv, [Next]_vars PROVE IInv'
  OBVIOUS
<1>1. CASE Plain \/ Ret
  BY <1>1, SameMasks, PcFacts DEF Plain, Ret, IInv
<1>2. ASSUME NEW votes \in SUBSET Lanes, Diverge(votes)
      PROVE  IInv'
  BY <1>2, DivergeIInv
<1>3. ASSUME NEW votes \in SUBSET Lanes, Uniform(votes)
      PROVE  IInv'
  BY <1>3, SameMasks, PcFacts DEF Uniform, IInv
<1>4. CASE SyncPop
  BY <1>4, SyncPopIInv
<1>5. CASE SyncRestore
  BY <1>5, SyncRestoreIInv
<1>6. CASE UNCHANGED vars
  BY <1>6, SameMasks DEF vars, IInv, TypeOK
<1>7. QED
  BY <1>1, <1>2, <1>3, <1>4, <1>5, <1>6 DEF Next

\* The inductive invariant: types, disjointness, no empty mask, and every mask
\* inside the one that the outermost SYNC restores.
THEOREM Inductive == Spec => []IInv
BY InitIInv, IInvStep, PTL DEF Spec

\* Type correctness of the warp's state, stack pointer included.
THEOREM TypeCorrect == Spec => []TypeOK
BY Inductive, PTL DEF IInv

\* No lane is ever in two masks of its warp.
THEOREM LanesInOnePlace == Spec => []MasksDisjoint
BY Inductive, PTL DEF IInv

\* No warp runs an instruction with every lane masked off.
THEOREM SomebodyIsAwake == Spec => []NobodyRunsForNobody
<1>1. IInv => NobodyRunsForNobody
  BY DEF IInv, Populated, NobodyRunsForNobody
<1>2. QED
  BY <1>1, Inductive, PTL

\* An empty-stack SYNC wakes, never suspends, and never wakes an unlaunched lane.
THEOREM SyncOnlyWakes == Spec => []BaseCovers
<1>1. IInv => BaseCovers
  BY LenProperties DEF IInv, TypeOK, Covered, BaseCovers, Stacked
<1>2. QED
  BY <1>1, Inductive, PTL

-----------------------------------------------------------------------------
\* Pigeonhole: k disjoint non-empty sets of launched lanes need k lanes.
LEMMA DisjointMasksCostLanes ==
  ASSUME NEW k \in Nat, NEW mask,
         \A i \in 1 .. k : mask[i] # {} /\ mask[i] \subseteq Launched,
         \A i, j \in 1 .. k : i # j => mask[i] \cap mask[j] = {}
  PROVE  k <= Cardinality(Launched)
<1> DEFINE rep == [i \in 1 .. k |-> CHOOSE l \in Launched : l \in mask[i]]
<1>1. \A i \in 1 .. k : rep[i] \in Launched /\ rep[i] \in mask[i]
  OBVIOUS
<1>2. rep \in Injection(1 .. k, Launched)
  <2>1. rep \in [1 .. k -> Launched]
    BY <1>1
  <2>2. \A i, j \in 1 .. k : rep[i] = rep[j] => i = j
    BY <1>1
  <2>3. QED
    BY <2>1, <2>2 DEF Injection, IsInjective
<1>3. IsFiniteSet(Launched)
  BY LanesAssumption, FS_Subset
<1>4. Cardinality(1 .. k) <= Cardinality(Launched)
  BY <1>2, <1>3, FS_Injection
<1>5. Cardinality(1 .. k) = k
  BY FS_Interval
<1>6. QED
  BY <1>4, <1>5

\* Every frame is a lane that is not awake, and somebody is awake.
LEMMA FramesCostLanes ==
  ASSUME IInv, Launched # {}
  PROVE  Len(stack) + 1 <= Cardinality(Launched)
<1> DEFINE n == Len(stack)
           k == n + 1
           mask == [i \in 1 .. k |-> IF i = n + 1 THEN active_mask ELSE stack[i].mask]
<1>1. n \in Nat /\ k \in Nat
  BY DEF IInv, TypeOK
<1>2. \A i \in 1 .. k : mask[i] # {} /\ mask[i] \subseteq Launched
  BY <1>1 DEF IInv, Populated, Covered
<1>3. \A i, j \in 1 .. k : i # j => mask[i] \cap mask[j] = {}
  BY <1>1 DEF IInv, MasksDisjoint
<1>4. k <= Cardinality(Launched)
  <2> HIDE DEF mask, k
  <2>1. QED
    BY <1>1, <1>2, <1>3, DisjointMasksCostLanes
<1>5. QED
  BY <1>4

\* The depth of the stack is always below the number of launched lanes.
THEOREM DepthBound == Spec => []StackFits
<1>1. IInv => StackFits
  <2> SUFFICES ASSUME IInv, stack # << >> PROVE Len(stack) < Cardinality(Launched)
    BY DEF StackFits
  <2>1. Len(stack) \in Nat \ {0}
    BY EmptySeq DEF IInv, TypeOK
  <2>2. CASE Launched # {}
    <3>1. Cardinality(Launched) \in Nat
      BY LanesAssumption, FS_Subset, FS_CardinalityType
    <3>2. QED
      BY <2>1, <2>2, <3>1, FramesCostLanes
  <2>3. CASE Launched = {}
    BY <2>3 DEF IInv, Populated
  <2>4. QED
    BY <2>2, <2>3
<1>2. QED
  BY <1>1, Inductive, PTL

\* The step on which stack_ptr would wrap needs more lanes than SDEPTH.
LEMMA NoWrap ==
  ASSUME IInv, NEW votes \in SUBSET Lanes, Diverge(votes), Cardinality(Launched) <= SDEPTH
  PROVE  Len(stack) < SDEPTH - 1
<1> DEFINE n == Len(stack)
           k == n + 2
           mask == [i \in 1 .. k |->
                      IF i = n + 1 THEN WantToStay(votes)
                      ELSE IF i = n + 2 THEN WantToBranch(votes) ELSE stack[i].mask]
<1>1. n \in Nat /\ k \in Nat /\ n < SDEPTH /\ Launched # {}
  BY DEF Diverge, Executes, IInv, Populated, TypeOK
<1>2. \A i \in 1 .. k : mask[i] # {} /\ mask[i] \subseteq Launched
  BY <1>1 DEF IInv, Populated, Covered, Diverge, WantToStay, WantToBranch
<1>3. \A i, j \in 1 .. k : i # j => mask[i] \cap mask[j] = {}
  BY <1>1 DEF IInv, MasksDisjoint, WantToStay, WantToBranch
<1>4. k <= Cardinality(Launched)
  <2> HIDE DEF mask, k
  <2>1. QED
    BY <1>1, <1>2, <1>3, DisjointMasksCostLanes
<1>5. Cardinality(Launched) \in Nat
  BY LanesAssumption, FS_Subset, FS_CardinalityType
<1>6. QED
  BY <1>1, <1>4, <1>5, SizesAssumption

\* A warp of at most SDEPTH launched lanes never forgets a sleeping lane.
THEOREM SleepersKept ==
  ASSUME Cardinality(Launched) <= SDEPTH
  PROVE  Spec => SleepersAreKept
<1>1. IInv /\ [Next]_vars => [Stacked \subseteq Stacked' \cup active_mask']_vars
  <2> SUFFICES ASSUME IInv, Next PROVE Stacked \subseteq Stacked' \cup active_mask'
    OBVIOUS
  <2>1. CASE Plain \/ Ret \/ SyncRestore
    BY <2>1 DEF Plain, Ret, SyncRestore, Stacked
  <2>2. ASSUME NEW votes \in SUBSET Lanes, Uniform(votes)
        PROVE  Stacked \subseteq Stacked' \cup active_mask'
    BY <2>2 DEF Uniform, Stacked
  <2>3. ASSUME NEW votes \in SUBSET Lanes, Diverge(votes)
        PROVE  Stacked \subseteq Stacked' \cup active_mask'
    <3>1. Len(stack) < SDEPTH - 1 /\ stack \in Seq(Frame)
      BY <2>3, NoWrap DEF IInv, TypeOK
    <3>2. stack' = Append(stack, [pc |-> NextPc, mask |-> WantToStay(votes)])
      BY <2>3, <3>1, SizesAssumption DEF Diverge, Push
    <3>3. \A i \in DOMAIN stack : i \in DOMAIN stack' /\ stack'[i] = stack[i]
      BY <3>1, <3>2
    <3>4. QED
      BY <3>3 DEF Stacked
  <2>4. CASE SyncPop
    <3>1. /\ stack \in Seq(Frame) /\ stack # << >>
          /\ stack' = SubSeq(stack, 1, Len(stack) - 1)
          /\ active_mask' = stack[Len(stack)].mask
      BY <2>4 DEF SyncPop, IInv, TypeOK
    <3>2. /\ Len(stack) \in Nat \ {0} /\ stack' \in Seq(Frame)
          /\ Len(stack') = Len(stack) - 1
          /\ \A i \in 1 .. Len(stack') : stack'[i] = stack[i]
      BY <3>1, PopFacts, EmptySeq
    <3>3. \A i \in DOMAIN stack : i = Len(stack) \/ (i \in DOMAIN stack' /\ stack'[i] = stack[i])
      BY <3>1, <3>2, LenProperties
    <3>4. QED
      BY <3>1, <3>3 DEF Stacked
  <2>5. QED
    BY <2>1, <2>2, <2>3, <2>4 DEF Next
<1>2. QED
  BY <1>1, Inductive, PTL DEF Spec, SleepersAreKept

-----------------------------------------------------------------------------
(***************************************************************************)
(* The lanes by themselves.                                                *)
(***************************************************************************)

\* What is assumed of a program and of the stack: 2^2 levels in scheduler.sv.
Layout == SDEPTH > 1 /\ \A code \in Programs : Structured(code)

Skip(p) == prog[p].imm
Join(p) == (Skip(p) + 1) % PcSize

\* Every lane is awake and stands where the warp does.
Together == stack = << >> /\ active_mask = Launched /\ \A l \in Launched : lane_pc[l] = warp_pc

\* The lanes disagreed at the if p: those who skip are at the SYNC, the others
\* sleep in front of the body.
Parted(p) ==
  /\ stack = <<[pc |-> p + 1, mask |-> Launched \ active_mask]>>
  /\ warp_pc = Skip(p)
  /\ \A l \in Launched : lane_pc[l] = IF l \in active_mask THEN warp_pc ELSE p + 1

\* The body runs on the lanes that entered it; those who skipped are behind the
\* SYNC, on no stack: only base_mask still knows of them.
InBody(p) ==
  /\ stack = << >>
  /\ warp_pc \in p + 1 .. Skip(p)
  /\ \A l \in Launched : lane_pc[l] = IF l \in active_mask THEN warp_pc ELSE Join(p)

InStep ==
  /\ base_mask = Launched
  /\ Together \/ \E p \in Pc : IsIf(prog, p) /\ (Parted(p) \/ InBody(p))

-----------------------------------------------------------------------------
(* One step of the warp, from each of the three situations.                 *)

\* The program and the PC.
LEMMA LayoutFacts ==
  ASSUME TypeOK, Layout, NEW p \in Pc, IsIf(prog, p)
  PROVE  /\ Skip(p) \in Pc /\ p < Skip(p) /\ prog[Skip(p)].op = "SYNC"
         /\ p + 1 \in Pc /\ p + 1 = (p + 1) % PcSize
         /\ \A q \in p + 1 .. Skip(p) - 1 :
              /\ q \in Pc /\ q + 1 = (q + 1) % PcSize
              /\ \/ prog[q].op = "OTHER"
                 \/ IsLoopBranch(prog, q) /\ prog[q].op = "BR" /\ prog[q].imm \in p + 1 .. Skip(p)
<1>1. prog \in [Pc -> Instr] /\ PcSize \in Nat \ {0} /\ Structured(prog)
  BY ProgramAssumption, SizesAssumption DEF TypeOK, Layout
<1>2. prog[p].imm \in Pc /\ p < prog[p].imm
  <2>1. prog[p] \in Instr /\ ~(prog[p].imm <= p)
    <3> HIDE DEF Instr
    <3> QED BY <1>1 DEF IsIf, IsLoopBranch
  <2>2. prog[p].imm \in Pc
    BY <2>1 DEF Instr
  <2>3. QED
    BY <1>1, <2>1, <2>2 DEF Pc
<1>3. \A q \in Nat : q < PcSize - 1 => q + 1 = (q + 1) % PcSize
  BY <1>1
<1>4. QED
  BY <1>1, <1>2, <1>3 DEF Structured, Skip, IsLoopBranch, Pc

\* What a step does to the lanes' own PCs.
LEMMA LaneMoves ==
  ASSUME NEW votes, lane_pc' = LanePcs(votes), NEW l \in Launched
  PROVE  lane_pc'[l] = IF l \notin active_mask THEN lane_pc[l]
                       ELSE IF instr.op = "BR" /\ l \in votes THEN instr.imm ELSE NextPc
BY DEF LanePcs

\* A step of a warp whose lanes are all together leaves them so, or parts them at an if.
LEMMA TogetherStep ==
  ASSUME TypeOK, Layout, base_mask = Launched, Together, ViewNext
  PROVE  InStep'
<1>1. PcSize \in Nat \ {0} /\ warp_pc \in Pc
  BY SizesAssumption DEF TypeOK
<1>2. CASE (Plain \/ Ret) /\ lane_pc' = LanePcs({})
  <2>1. warp_pc' = NextPc /\ UNCHANGED <<active_mask, stack, base_mask>>
    BY <1>2 DEF Plain, Ret
  <2>2. \A l \in Launched : lane_pc'[l] = NextPc
    BY <1>2, LaneMoves DEF Together
  <2>3. QED
    BY <2>1, <2>2 DEF Together, InStep
<1>3. CASE SyncRestore /\ lane_pc' = LanePcs({})
  <2>1. /\ warp_pc' = NextPc /\ active_mask' = base_mask /\ UNCHANGED <<stack, base_mask>>
    BY <1>3 DEF SyncRestore
  <2>2. \A l \in Launched : lane_pc'[l] = NextPc
    BY <1>3, LaneMoves DEF Together
  <2>3. QED
    BY <2>1, <2>2 DEF Together, InStep
<1>4. CASE SyncPop
  BY <1>4 DEF SyncPop, Together
<1>5. ASSUME NEW votes \in SUBSET Lanes, Uniform(votes), lane_pc' = LanePcs(votes)
      PROVE  InStep'
  <2>1. UNCHANGED <<active_mask, stack, base_mask>> /\ instr.op = "BR"
    BY <1>5 DEF Uniform, Executes
  <2>2. \A l \in Launched : lane_pc'[l] = warp_pc'
    BY <1>5, LaneMoves DEF Together, Uniform, Executes, WantToBranch, WantToStay
  <2>3. QED
    BY <2>1, <2>2 DEF Together, InStep
<1>6. ASSUME NEW votes \in SUBSET Lanes, LoopsAgree(votes), Diverge(votes), lane_pc' = LanePcs(votes)
      PROVE  InStep'
  <2> DEFINE p == warp_pc
  <2>1. prog' = prog /\ p \in Pc /\ IsIf(prog', p)
    BY <1>1, <1>6 DEF LoopsAgree, Diverge, Executes, IsIf, instr, WantToBranch, WantToStay
  <2>2. /\ stack' = <<[pc |-> p + 1, mask |-> Launched \ active_mask']>>
        /\ warp_pc' = prog[p].imm
    <3>1. NextPc = p + 1
      BY <2>1, LayoutFacts DEF NextPc
    <3>2. Len(stack) # SDEPTH - 1 /\ Append(<< >>, [pc |-> p + 1, mask |-> Launched \ active_mask'])
                                       = <<[pc |-> p + 1, mask |-> Launched \ active_mask']>>
      BY SizesAssumption DEF Together, Layout
    <3>3. Launched \ active_mask' = WantToStay(votes)
      BY <1>6 DEF Diverge, WantToBranch, WantToStay, Together
    <3>4. QED
      BY <1>6, <3>1, <3>2, <3>3 DEF Diverge, Push, Together, instr
  <2>3. \A l \in Launched : lane_pc'[l] = IF l \in active_mask' THEN warp_pc' ELSE p + 1
    <3>1. NextPc = p + 1 /\ instr.op = "BR" /\ warp_pc' = instr.imm
      BY <1>6, <2>1, LayoutFacts DEF NextPc, Diverge, Executes
    <3>2. QED
      BY <1>6, <3>1, LaneMoves DEF Diverge, WantToBranch, Together
  <2>4. base_mask' = Launched
    BY <1>6 DEF Diverge, Together
  <2>5. QED
    BY <2>1, <2>2, <2>3, <2>4 DEF InStep, Parted, Skip
<1>7. QED
  BY <1>2, <1>3, <1>4, <1>5, <1>6 DEF ViewNext

\* A step of a warp whose lanes are parted over an if leaves them so, or gets them
\* together.
LEMMA PartedStep ==
  ASSUME TypeOK, Layout, base_mask = Launched, active_mask \subseteq Launched, ViewNext,
         NEW p \in Pc, IsIf(prog, p), Parted(p)
  PROVE  InStep'
<1>1. instr.op = "SYNC" /\ stack # << >> /\ Len(stack) = 1
  BY LayoutFacts DEF Parted, instr
<1>2. SyncPop /\ lane_pc' = LanePcs({})
  BY <1>1 DEF ViewNext, Diverge, Uniform, Plain, SyncRestore, Ret, Executes
<1>3. stack[Len(stack)] = [pc |-> p + 1, mask |-> Launched \ active_mask]
  BY <1>1 DEF Parted
<1>4. /\ stack' = << >> /\ warp_pc' = p + 1 /\ active_mask' = Launched \ active_mask
      /\ UNCHANGED <<prog, base_mask>>
  <2>1. SubSeq(stack, 1, Len(stack) - 1) = << >>
    <3>1. stack \in Seq(Frame)
      BY DEF TypeOK
    <3>2. QED
      BY <1>1, <3>1, PopFacts, EmptySeq
  <2>2. QED
    BY <1>2, <1>3, <2>1 DEF SyncPop
<1>5. \A l \in Launched : lane_pc'[l] = IF l \in active_mask' THEN warp_pc' ELSE Join(p)
  <2>1. NextPc = Join(p)
    BY DEF NextPc, Join, Parted
  <2>2. QED
    BY <1>1, <1>2, <1>4, <2>1, LaneMoves DEF Parted
<1>6. warp_pc' \in p + 1 .. Skip(p)
  <2>1. Skip(p) \in Nat /\ p \in Nat /\ p < Skip(p)
    BY LayoutFacts DEF Pc
  <2>2. QED
    BY <1>4, <2>1
<1>7. Skip(p)' = Skip(p) /\ Join(p)' = Join(p) /\ IsIf(prog, p)'
  BY <1>4 DEF Skip, Join
<1>8. InBody(p)'
  BY <1>4, <1>5, <1>6, <1>7 DEF InBody
<1>9. QED
  BY <1>4, <1>7, <1>8 DEF InStep

\* A step inside the body of an if that all lanes entered stays there, or leaves it.
LEMMA InBodyStep ==
  ASSUME TypeOK, Layout, base_mask = Launched, active_mask \subseteq Launched, ViewNext,
         NEW p \in Pc, IsIf(prog, p), InBody(p)
  PROVE  InStep'
<1>1. /\ Skip(p) \in Nat /\ p \in Nat /\ warp_pc \in Nat /\ stack = << >>
      /\ warp_pc \in p + 1 .. Skip(p)
  BY LayoutFacts DEF Pc, InBody, TypeOK
<1>2. CASE warp_pc = Skip(p)
  <2>1. instr.op = "SYNC"
    BY <1>2, LayoutFacts DEF instr
  <2>2. SyncRestore /\ lane_pc' = LanePcs({})
    BY <1>1, <2>1 DEF ViewNext, Diverge, Uniform, Plain, SyncPop, Ret, Executes
  <2>3. NextPc = Join(p)
    BY <1>2 DEF NextPc, Join
  <2>4. \A l \in Launched : lane_pc'[l] = NextPc
    BY <2>1, <2>2, <2>3, LaneMoves DEF InBody
  <2>5. QED
    BY <1>1, <2>2, <2>4 DEF SyncRestore, InStep, Together
<1>3. CASE warp_pc # Skip(p)
  <2>1. warp_pc \in p + 1 .. Skip(p) - 1
    BY <1>1, <1>3
  <2>2. /\ NextPc = warp_pc + 1
        /\ instr.op = "OTHER" \/ (IsLoopBranch(prog, warp_pc) /\ instr.op = "BR" /\ instr.imm \in p + 1 .. Skip(p))
    BY <2>1, LayoutFacts DEF NextPc, instr
  <2>3. NextPc \in p + 1 .. Skip(p)
    BY <1>1, <2>1, <2>2
  <2>4. /\ UNCHANGED <<prog, active_mask, stack, base_mask>>
        /\ warp_pc' \in p + 1 .. Skip(p)
        /\ \A l \in Launched : lane_pc'[l] = IF l \in active_mask THEN warp_pc' ELSE Join(p)
    <3>1. CASE instr.op = "OTHER"
      <4>1. Plain /\ lane_pc' = LanePcs({})
        BY <3>1 DEF ViewNext, Diverge, Uniform, SyncPop, SyncRestore, Ret, Executes
      <4>2. QED
        BY <2>3, <3>1, <4>1, LaneMoves DEF Plain, InBody
    <3>2. CASE IsLoopBranch(prog, warp_pc) /\ instr.op = "BR" /\ instr.imm \in p + 1 .. Skip(p)
      <4>1. PICK votes \in SUBSET Lanes :
              LoopsAgree(votes) /\ (Diverge(votes) \/ Uniform(votes)) /\ lane_pc' = LanePcs(votes)
        BY <3>2 DEF ViewNext, Plain, SyncPop, SyncRestore, Ret, Executes
      <4>2. Uniform(votes)
        BY <3>2, <4>1 DEF LoopsAgree, Diverge, WantToBranch, WantToStay
      <4>3. \A l \in Launched : lane_pc'[l] = IF l \in active_mask THEN warp_pc' ELSE Join(p)
        BY <3>2, <4>1, <4>2, LaneMoves DEF Uniform, WantToBranch, WantToStay, InBody
      <4>4. QED
        BY <2>3, <3>2, <4>2, <4>3 DEF Uniform
    <3>3. QED
      BY <2>2, <3>1, <3>2
  <2>5. Skip(p)' = Skip(p) /\ Join(p)' = Join(p) /\ IsIf(prog, p)'
    BY <2>4 DEF Skip, Join
  <2>6. InBody(p)'
    BY <1>1, <2>4, <2>5 DEF InBody
  <2>7. QED
    BY <2>4, <2>5, <2>6 DEF InStep
<1>4. QED
  BY <1>2, <1>3

-----------------------------------------------------------------------------
(* Every behaviour of the view is one of the warp, so Divergence's invariant *)
(* holds of it.                                                              *)

\* A step of the view is a step of the warp and one of the lanes' own PCs.
LEMMA ViewStepIsStep == ASSUME ViewNext PROVE Next
BY DEF ViewNext, Next

\* The two conjuncts of IInv that the lanes' positions rest on.
LEMMA IInvFacts == ASSUME IInv PROVE TypeOK /\ active_mask \subseteq base_mask
BY DEF IInv, Covered

\* Every step keeps the lanes in one of the three situations.
LEMMA InStepKept ==
  ASSUME Layout, IInv, InStep, ViewNext
  PROVE  InStep'
<1>1. TypeOK /\ base_mask = Launched /\ active_mask \subseteq Launched
  BY IInvFacts DEF InStep
<1>2. CASE Together
  BY <1>1, <1>2, TogetherStep
<1>3. ASSUME NEW p \in Pc, IsIf(prog, p), Parted(p)
      PROVE  InStep'
  BY <1>1, <1>3, PartedStep
<1>4. ASSUME NEW p \in Pc, IsIf(prog, p), InBody(p)
      PROVE  InStep'
  BY <1>1, <1>4, InBodyStep
<1>5. QED
  BY <1>2, <1>3, <1>4 DEF InStep

\* The inductive invariant of the view: the warp's own, and one of the three
\* situations a warp can be in with respect to the if it executes.
THEOREM ViewInductive ==
  ASSUME Layout
  PROVE  ViewSpec => [](IInv /\ InStep)
<1>1. ViewInit => IInv /\ InStep
  <2> SUFFICES ASSUME ViewInit PROVE IInv /\ InStep
    OBVIOUS
  <2>1. IInv
    BY InitIInv DEF ViewInit
  <2>2. InStep
    BY DEF ViewInit, Init, InStep, Together
  <2>3. QED
    BY <2>1, <2>2
<1>2. IInv /\ InStep /\ [ViewNext]_viewvars => IInv' /\ InStep'
  <2> SUFFICES ASSUME IInv, InStep, [ViewNext]_viewvars PROVE IInv' /\ InStep'
    OBVIOUS
  <2>1. IInv'
    BY ViewStepIsStep, IInvStep DEF viewvars
  <2>2. CASE ViewNext
    BY <2>2, <2>1, InStepKept
  <2>3. CASE UNCHANGED viewvars
    <3>1. UNCHANGED <<prog, warp_pc, active_mask, stack, base_mask, lane_pc>>
      BY <2>3 DEF viewvars, vars
    <3>2. CASE Together
      BY <2>1, <3>1, <3>2 DEF InStep, Together
    <3>3. ASSUME NEW p \in Pc, IsIf(prog, p), Parted(p) \/ InBody(p)
          PROVE  InStep'
      <4>1. IsIf(prog, p)'
        BY <3>1, <3>3
      <4>2. (Parted(p) \/ InBody(p))'
        BY <3>1, <3>3 DEF Parted, InBody, Skip, Join
      <4>3. base_mask' = Launched
        BY <3>1 DEF InStep
      <4>4. QED
        BY <4>1, <4>2, <4>3 DEF InStep
    <3>4. QED
      BY <2>1, <3>2, <3>3 DEF InStep
  <2>4. QED
    BY <2>1, <2>2, <2>3
<1>3. QED
  BY <1>1, <1>2, PTL DEF ViewSpec

\* In what situation a warp can meet a RET: its lanes are all awake.
LEMMA RetIsTogether ==
  ASSUME IInv, Layout, InStep, instr.op = "RET"
  PROVE  Together
<1>1. TypeOK
  BY DEF IInv
<1>2. ASSUME NEW p \in Pc, IsIf(prog, p), Parted(p) \/ InBody(p)
      PROVE  FALSE
  <2>1. /\ prog[Skip(p)].op = "SYNC"
        /\ Skip(p) \in Nat /\ p \in Nat
        /\ \A q \in p + 1 .. Skip(p) - 1 : prog[q].op \in {"OTHER", "BR"}
    BY <1>1, <1>2, LayoutFacts DEF Pc
  <2>2. warp_pc = Skip(p) \/ warp_pc \in p + 1 .. Skip(p) - 1
    BY <1>2, <2>1 DEF Parted, InBody
  <2>3. QED
    BY <2>1, <2>2 DEF instr
<1>3. QED
  BY <1>2 DEF InStep

\* The lanes of a warp end together.
EndsTogether == warp_status = "DONE" => active_mask = Launched /\ stack = << >>

\* Only a RET ends the warp, and none of its lanes sleeps then.
LEMMA EndIsTogether ==
  ASSUME Layout, IInv, InStep, EndsTogether, ViewNext
  PROVE  EndsTogether'
<1>1. CASE Ret
  <2>1. instr.op = "RET" /\ UNCHANGED <<active_mask, stack>>
    BY <1>1 DEF Ret, Executes
  <2>2. Together
    BY <2>1, RetIsTogether
  <2>3. QED
    BY <2>1, <2>2 DEF Together, EndsTogether
<1>2. CASE ~ Ret
  <2>1. warp_status = "READY" /\ warp_status' = warp_status
    BY <1>2 DEF ViewNext, Diverge, Uniform, Plain, SyncPop, SyncRestore, Executes
  <2>2. QED
    BY <2>1 DEF EndsTogether
<1>3. QED
  BY <1>1, <1>2

\* No lane is ever lost to all of the masks: base_mask, which only the SYNC of
\* the outermost divergence restores, is always the launch mask. And no lane is
\* left behind: the RET that ends a warp is executed by all launched lanes.
THEOREM NobodyIsLost ==
  ASSUME Layout
  PROVE  ViewSpec => []NoLaneLost
<1>1. ViewInit => EndsTogether
  BY DEF ViewInit, Init, EndsTogether
<1>2. (IInv /\ InStep) /\ EndsTogether /\ [ViewNext]_viewvars => EndsTogether'
  <2>1. ASSUME IInv, InStep, EndsTogether, UNCHANGED viewvars
        PROVE  EndsTogether'
    BY <2>1 DEF viewvars, vars, EndsTogether
  <2>2. QED
    BY <2>1, EndIsTogether
<1>3. (IInv /\ InStep) /\ EndsTogether => NoLaneLost
  BY DEF InStep, EndsTogether, NoLaneLost
<1>4. QED
  BY <1>1, <1>2, <1>3, ViewInductive, PTL DEF ViewSpec

\* The masks of EXECUTE wake a lane only where it would be by itself.
THEOREM AwakeWhereTheyWouldBe ==
  ASSUME Layout
  PROVE  ViewSpec => []LanesInStep
<1>1. IInv /\ InStep => LanesInStep
  BY IInvFacts DEF InStep, LanesInStep, Together, Parted, InBody
<1>2. QED
  BY <1>1, ViewInductive, PTL

\* A frame of the stack resumes its lanes exactly where they stopped.
THEOREM AsleepWhereTheyStopped ==
  ASSUME Layout
  PROVE  ViewSpec => []SleepersResume
<1>1. InStep => SleepersResume
  <2> SUFFICES ASSUME InStep, NEW i \in 1 .. Len(stack), NEW l \in stack[i].mask
               PROVE  lane_pc[l] = stack[i].pc
    BY DEF SleepersResume
  <2>1. stack # << >>
    BY EmptySeq
  <2>2. PICK p \in Pc : Parted(p)
    BY <2>1 DEF InStep, Together, InBody
  <2>3. i = 1 /\ stack[i] = [pc |-> p + 1, mask |-> Launched \ active_mask]
    BY <2>2 DEF Parted
  <2>4. QED
    BY <2>2, <2>3 DEF Parted
<1>2. QED
  BY <1>1, ViewInductive, PTL

-----------------------------------------------------------------------------
(* The refinement: a step of the warp is a step of its awake lanes.          *)

\* The lanes that are awake are the group that steps.
LEMMA GroupSteps ==
  ASSUME IInv, InStep, LanesInStep, warp_status = "READY", NEW votes \in SUBSET Lanes,
         lane_pc' = LanePcs(votes), prog' = prog,
         instr.op # "BR" => votes = {},
         halted' = IF instr.op = "RET" THEN halted \cup active_mask ELSE halted
  PROVE  PerLane!Next
<1> DEFINE group == active_mask
           p == warp_pc
           own == votes \cap active_mask
<1>1. halted = {} /\ group # {} /\ group \subseteq Launched
  BY IInvFacts DEF halted, IInv, Populated, InStep
<1>2. p \in {lane_pc[l] : l \in group}
  BY <1>1 DEF LanesInStep
<1>3. lane_pc' = [l \in Launched |-> IF l \in group THEN PerLane!Succ(p, l \in own) ELSE lane_pc[l]]
  BY DEF LanePcs, PerLane!Succ, instr, NextPc
<1>4. halted' = IF prog[p].op = "RET" THEN halted \cup group ELSE halted
  BY DEF instr
<1>5. PerLane!Step(group, p, own)
  BY <1>3, <1>4 DEF PerLane!Step, LanesInStep
<1>6. group \in (SUBSET (Launched \ halted)) \ {{}}
  <2>1. group \subseteq Launched \ halted
    BY <1>1
  <2>2. QED
    BY <1>1, <2>1
<1>7. own \in SUBSET group
  OBVIOUS
<1>8. QED
  BY <1>2, <1>5, <1>6, <1>7 DEF PerLane!Next

\* Running the lanes of a warp under masks is running each lane by itself.
THEOREM MasksAreLanes ==
  ASSUME Layout
  PROVE  ViewSpec => ImplementsLaneSemantics
<1>1. ViewInit => PerLane!Init
  <2> SUFFICES ASSUME ViewInit PROVE PerLane!Init
    OBVIOUS
  <2>1. prog \in Programs /\ lane_pc = [l \in Launched |-> 0] /\ halted = {}
    BY DEF ViewInit, Init, halted
  <2>2. QED
    BY <2>1 DEF PerLane!Init
<1>2. IInv /\ InStep /\ LanesInStep /\ [ViewNext]_viewvars => [PerLane!Next]_(PerLane!lanevars)
  <2> SUFFICES ASSUME IInv, InStep, LanesInStep, ViewNext PROVE PerLane!Next
    BY DEF viewvars, vars, PerLane!lanevars, halted
  <2>1. ASSUME NEW votes \in SUBSET Lanes, Diverge(votes) \/ Uniform(votes), lane_pc' = LanePcs(votes)
        PROVE  PerLane!Next
    <3>1. warp_status = "READY" /\ instr.op = "BR" /\ prog' = prog /\ warp_status' = warp_status
      BY <2>1 DEF Diverge, Uniform, Executes
    <3>2. QED
      BY <2>1, <3>1, GroupSteps DEF halted
  <2>2. CASE (Plain \/ SyncPop \/ SyncRestore) /\ lane_pc' = LanePcs({})
    <3>1. /\ warp_status = "READY" /\ instr.op \in {"OTHER", "SYNC"}
          /\ prog' = prog /\ warp_status' = warp_status
      BY <2>2 DEF Plain, SyncPop, SyncRestore, Executes
    <3>2. QED
      BY <2>2, <3>1, GroupSteps DEF halted
  <2>3. CASE Ret /\ lane_pc' = LanePcs({})
    <3>1. warp_status = "READY" /\ instr.op = "RET" /\ prog' = prog /\ warp_status' = "DONE"
      BY <2>3 DEF Ret, Executes
    <3>2. halted = {} /\ halted' = Launched /\ active_mask = Launched
      BY <3>1, RetIsTogether DEF halted, Together
    <3>3. QED
      BY <2>3, <3>1, <3>2, GroupSteps
  <2>4. QED
    BY <2>1, <2>2, <2>3 DEF ViewNext
<1>3. QED
  BY <1>1, <1>2, ViewInductive, AwakeWhereTheyWouldBe, PTL
     DEF ViewSpec, ImplementsLaneSemantics, PerLane!Spec
=============================================================================
