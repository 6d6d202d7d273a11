---------------------------- MODULE GraphPlanner ----------------------------
(***************************************************************************)
(* graph_compiler.rs, plan and check: where the input, the weights and the *)
(* activations of a lowered model live, and whether the chip can run it.   *)
(*                                                                         *)
(* The module stands alone, with lowering reduced to what it guarantees    *)
(* (Lowering) and what follows reduced to reading the plan (Use);          *)
(* GraphCompiler gives both in full and implements PlannerSpec.            *)
(***************************************************************************)
EXTENDS Integers, Sequences

CONSTANTS MMIO_TX,    \* the address whose store is the UART
          IMM_MAX     \* the largest immediate

ASSUME PlannerAssumption == MMIO_TX \in Nat /\ IMM_MAX \in Nat

VARIABLES
  step,     \* the function main has reached
  i,        \* the position in its loop
  input,    \* Model: the input's bytes
  budget,   \* Model: memory_budget_bytes
  layers,   \* Model: the layers
  x,        \* Plan: x[1] = the input, x[k + 1] = the output of layer k
  w,        \* Plan: w[k] = the weights of layer k
  image,    \* Plan: the bytes the host loads, image[a + 1] at address a
  cursor    \* the first address not given away

model    == <<input, budget, layers>>
plan     == <<x, w, image, cursor>>
planvars == <<step, i, model, plan>>

-----------------------------------------------------------------------------
(* Dense: in_f to out_f; Conv: one h by w plane to c; Pool: c planes.       *)
OutLen(l) ==
  CASE l.kind = "Dense" -> l.out_f
    [] l.kind = "Conv"  -> l.c * ((l.h - l.k + 1) * (l.w - l.k + 1))
    [] l.kind = "Pool"  -> l.c * ((l.h \div l.k) * (l.w \div l.k))

\* Lowering's guarantee: a window fits its plane, and a pool's is not empty.
IsLayer(l) ==
  /\ l.kind \in {"Dense", "Conv", "Pool"}
  /\ {l.in_f, l.out_f, l.c, l.h, l.w, l.k, l.shift} \subseteq Nat
  /\ l.weights \in Seq(Int)
  /\ l.kind # "Dense" => l.k <= l.h /\ l.k <= l.w
  /\ l.kind = "Pool"  => l.k >= 1

IsModel(bytes, size, ls) ==
  /\ bytes \in Seq(0 .. 255) /\ size \in Nat
  /\ Len(ls) \in Nat /\ \A k \in 1 .. Len(ls) : IsLayer(ls[k])

PlanInit ==
  /\ step = "open" /\ i = 1
  /\ input = << >> /\ budget = 0 /\ layers = << >>
  /\ x = <<0>> /\ w = << >> /\ image = << >> /\ cursor = 0

\* What lowering may do: it ends with a model, or rejects the graph.
Lowering ==
  /\ step \in {"open", "lower"}
  /\ \/ step' \in {"lower", "rejected"} /\ UNCHANGED image
     \/ step' = "weights" /\ i' = 1 /\ image' = input'
  /\ IsModel(input', budget', layers')
  /\ UNCHANGED <<x, w, cursor>>

-----------------------------------------------------------------------------
Weights(l) ==
  CASE l.kind = "Dense" -> l.in_f * l.out_f
    [] l.kind = "Conv"  -> l.c * (l.k * l.k)
    [] l.kind = "Pool"  -> 0

WeightsOk(l) == Len(l.weights) = Weights(l) /\ \A j \in 1 .. Len(l.weights) : l.weights[j] \in -128 .. 127

\* as i8 as u8.
Byte(v) == v % 256

\* Everything the host supplies goes first, contiguously from address 0.
PlaceWeights ==
  /\ step = "weights" /\ i <= Len(layers) /\ WeightsOk(layers[i])
  /\ w' = Append(w, Len(image))
  /\ image' = image \o [j \in 1 .. Len(layers[i].weights) |-> Byte(layers[i].weights[j])]
  /\ i' = i + 1
  /\ UNCHANGED <<step, model, x, cursor>>

RejectWeights ==
  /\ step = "weights" /\ i <= Len(layers) /\ ~WeightsOk(layers[i])
  /\ step' = "rejected"
  /\ UNCHANGED <<i, model, plan>>

WeightsPlaced ==
  /\ step = "weights" /\ i > Len(layers)
  /\ step' = "outputs" /\ i' = 1 /\ cursor' = Len(image)
  /\ UNCHANGED <<model, x, w, image>>

\* Mutant: the address itself is not looked at.
ClearedShort(from, n) == IF from < MMIO_TX /\ MMIO_TX < from + n THEN MMIO_TX + 1 ELSE from

\* n bytes from here on, or behind the UART if they would cover it.
Clear(from, n) == IF from <= MMIO_TX /\ MMIO_TX < from + n THEN MMIO_TX + 1 ELSE from

PlaceOutput ==
  /\ step = "outputs" /\ i <= Len(layers)
  /\ LET start == Clear(cursor, OutLen(layers[i]))
     IN x' = Append(x, start) /\ cursor' = start + OutLen(layers[i])
  /\ i' = i + 1
  /\ UNCHANGED <<step, model, w, image>>

OutputsPlaced ==
  /\ step = "outputs" /\ i > Len(layers)
  /\ step' = "check"
  /\ UNCHANGED <<i, model, plan>>

-----------------------------------------------------------------------------
Output(k) == x[k + 1] .. x[k + 1] + OutLen(layers[k]) - 1

\* The pointer steps of an unrolled window are 6-bit immediates; FOUT has 3 bits
\* of shift; the accumulator has 32 bits.  (Mutant: any shift passes.)
StepsFit(l) == l.w - l.k + 1 <= IMM_MAX /\ (IF l.kind = "Conv" THEN l.k * l.k ELSE l.k) <= IMM_MAX
SumFitsAnyShift(l) == (IF l.kind = "Conv" THEN l.k * l.k ELSE l.in_f) * 32640 <= 2147483647
SumFits(l)  == l.shift <= 7 /\ (IF l.kind = "Conv" THEN l.k * l.k ELSE l.in_f) * 32640 <= 2147483647

Accepted ==
  /\ cursor <= budget
  /\ \A k \in 1 .. Len(layers) :
       /\ MMIO_TX \notin Output(k)
       /\ layers[k].kind # "Dense" => StepsFit(layers[k])
       /\ layers[k].kind # "Pool"  => SumFits(layers[k])
  /\ OutLen(layers[Len(layers)]) + 1 <= 255

Check ==
  /\ step = "check"
  /\ IF Accepted THEN step' = "generate" /\ i' = 1 ELSE step' = "rejected" /\ UNCHANGED i
  /\ UNCHANGED <<model, plan>>

\* Code generation, evaluation and the run read the plan and leave it alone.
Planned == {"generate", "evaluate", "asm", "run"}
Use ==
  /\ step \in Planned /\ step' \in Planned \cup {"rejected"}
  /\ UNCHANGED <<model, plan>>

PlanStep == PlaceWeights \/ RejectWeights \/ WeightsPlaced \/ PlaceOutput \/ OutputsPlaced \/ Check
PlanNext == Lowering \/ PlanStep \/ Use

PlannerSpec == PlanInit /\ [][PlanNext]_planvars

-----------------------------------------------------------------------------
\* What the kernels and the host rely on: every layer writes to bytes of its own,
\* clear of what the host loaded and of the UART's address, and an accepted model
\* fits the memory (graph_compiler.rs:250-283).
BuffersAreApart ==
  step \in {"outputs", "check"} \cup Planned =>
    \A k \in 1 .. Len(x) - 1 :
      /\ \A a \in Output(k) : a >= Len(image) /\ a # MMIO_TX
      /\ \A j \in 1 .. k - 1 : Output(j) \cap Output(k) = {}
      /\ step \in Planned => \A a \in Output(k) : a < budget
=============================================================================
