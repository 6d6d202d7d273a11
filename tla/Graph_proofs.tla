---------------------------- MODULE Graph_proofs ----------------------------
(***************************************************************************)
(* For every model, UART address, budget and ROM size:                     *)
(* Planner: the buffers that plan gives away are apart.  The argument is   *)
(* the cursor: everything already given lies below it, so what comes       *)
(* next can meet none of it.                                               *)
(* Refinement: graph_compiler.rs, with its lowering and its rejections,    *)
(* is a planner; what it guarantees of the layers is what the planner      *)
(* asks.                                                                   *)
(* Word count: the words the graph compiler counts for the ROM are those   *)
(* the assembler counts in the text it has written.  Every generator       *)
(* writes mnemonics the assembler knows; for the unrolled loops by         *)
(* induction on their length, over the least counterexample.               *)
(***************************************************************************)
EXTENDS Graph, Assembler_proofs, FiniteSetTheorems, WellFoundedInduction

End(k) == x[k + 1] + OutLen(layers[k])

Placing == {"outputs", "check"} \cup Planned

PTyped ==
  /\ budget \in Nat /\ cursor \in Nat
  /\ Len(layers) \in Nat /\ \A k \in 1 .. Len(layers) : IsLayer(layers[k])
  /\ x \in Seq(Nat) /\ Len(x) >= 1
  /\ input \in Seq(Int) /\ image \in Seq(Int)

\* The buffer of layer k: behind the image and all before it, below the cursor,
\* around the UART.
Settled(k) ==
  /\ Len(image) <= x[k + 1] /\ End(k) <= cursor
  /\ ~(x[k + 1] <= MMIO_TX /\ MMIO_TX < End(k))
  /\ \A j \in 1 .. k - 1 : End(j) <= x[k + 1]

Position ==
  /\ step \in {"weights", "outputs"} => i \in Nat \ {0}
  /\ step \notin Placing \cup {"rejected"} => Len(x) = 1
  /\ step \in Placing => Len(image) <= cursor /\ Len(x) <= Len(layers) + 1
  /\ step = "outputs" => Len(x) = i

PInv ==
  /\ PTyped /\ Position
  /\ step \in Placing => \A k \in 1 .. Len(x) - 1 : Settled(k)
  /\ step \in Planned => cursor <= budget

-----------------------------------------------------------------------------
\* The areas and volumes of a network are natural numbers.
LEMMA ProductNat == \A a, b \in Nat : a * b \in Nat
  OBVIOUS

\* An output has a length: a window fits its plane, a pool's is not empty.
LEMMA OutLenNat == ASSUME NEW l, IsLayer(l) PROVE OutLen(l) \in Nat
<1>1. /\ l.kind \in {"Dense", "Conv", "Pool"}
      /\ l.out_f \in Nat /\ l.c \in Nat /\ l.h \in Nat /\ l.w \in Nat /\ l.k \in Nat
  BY DEF IsLayer
<1>2. CASE l.kind = "Dense"
  BY <1>1, <1>2 DEF OutLen
<1>3. CASE l.kind = "Conv"
  <2>1. l.h - l.k + 1 \in Nat /\ l.w - l.k + 1 \in Nat
    BY <1>1, <1>3 DEF IsLayer
  <2>2. (l.h - l.k + 1) * (l.w - l.k + 1) \in Nat
    BY <2>1, ProductNat
  <2>3. l.c * ((l.h - l.k + 1) * (l.w - l.k + 1)) \in Nat
    BY <1>1, <2>2, ProductNat
  <2> QED BY <1>3, <2>3 DEF OutLen
<1>4. CASE l.kind = "Pool"
  <2>1. l.k >= 1
    BY <1>4 DEF IsLayer
  <2>2. l.h \div l.k \in Nat /\ l.w \div l.k \in Nat
    BY <1>1, <2>1
  <2>3. (l.h \div l.k) * (l.w \div l.k) \in Nat
    BY <2>2, ProductNat
  <2>4. l.c * ((l.h \div l.k) * (l.w \div l.k)) \in Nat
    BY <1>1, <2>3, ProductNat
  <2> QED BY <1>4, <2>4 DEF OutLen
<1> QED BY <1>1, <1>2, <1>3, <1>4

\* What Clear returns: no further back, and n bytes from there miss the UART.
LEMMA ClearMisses ==
  ASSUME NEW from \in Nat, NEW n \in Nat
  PROVE  /\ Clear(from, n) \in Nat /\ Clear(from, n) >= from
         /\ ~(Clear(from, n) <= MMIO_TX /\ MMIO_TX < Clear(from, n) + n)
  BY PlannerAssumption DEF Clear

-----------------------------------------------------------------------------
\* The first buffer, the input, begins at 0 and nothing else is placed.
LEMMA PInitially == PlanInit => PInv
<1> SUFFICES ASSUME PlanInit PROVE PInv
  OBVIOUS
<1>1. /\ step = "open" /\ i = 1 /\ input = << >> /\ budget = 0 /\ layers = << >>
      /\ x = <<0>> /\ w = << >> /\ image = << >> /\ cursor = 0
  BY DEF PlanInit
<1>2. PTyped
  BY <1>1 DEF PTyped
<1> QED BY <1>1, <1>2 DEF PInv, Position, Placing, Planned

\* While the file is read nothing is placed.
LEMMA LoweringKeeps == PInv /\ Lowering => PInv'
<1> SUFFICES ASSUME PInv, Lowering PROVE PInv'
  OBVIOUS
<1>1. /\ step \in {"open", "lower"} /\ step' \in {"lower", "rejected", "weights"}
      /\ IsModel(input', budget', layers') /\ UNCHANGED <<x, w, cursor>>
      /\ image' \in {image, input'} /\ (step' = "weights" => i' = 1)
  BY DEF Lowering
<1>2. input' \in Seq(Int) /\ budget' \in Nat /\ Len(layers') \in Nat
      /\ \A k \in 1 .. Len(layers') : IsLayer(layers'[k])
  <2>1. input' \in Seq(0 .. 255)
    BY <1>1 DEF IsModel
  <2>2. input' \in Seq(Int)
    <3>1. 0 .. 255 \subseteq Int
      OBVIOUS
    <3> QED BY <2>1, <3>1, SeqMonotonic
  <2> QED BY <1>1, <2>2 DEF IsModel
<1>3. PTyped'
  BY <1>1, <1>2 DEF PInv, PTyped, IsLayer
<1> QED BY <1>1, <1>3 DEF PInv, Position, Placing, Planned

\* The image only grows while no buffer has been given away.
LEMMA PlaceWeightsKeeps == PInv /\ PlaceWeights => PInv'
<1> SUFFICES ASSUME PInv, PlaceWeights PROVE PInv'
  OBVIOUS
<1> DEFINE l    == layers[i]
           tail == [j \in 1 .. Len(l.weights) |-> Byte(l.weights[j])]
<1>1. /\ step = "weights" /\ i <= Len(layers) /\ WeightsOk(l)
      /\ image' = image \o tail /\ i' = i + 1 /\ UNCHANGED <<step, input, budget, layers, x, cursor>>
  BY DEF PlaceWeights, model
<1>2. i \in 1 .. Len(layers) /\ i \in Nat \ {0} /\ IsLayer(l)
  BY <1>1 DEF PInv, PTyped, Position
<1>3. tail \in Seq(Int)
  <2>1. Len(l.weights) \in Nat
    BY <1>2 DEF IsLayer
  <2>2. \A j \in 1 .. Len(l.weights) : Byte(l.weights[j]) \in Int
    <3>1. \A v \in -128 .. 127 : v % 256 \in Int
      OBVIOUS
    <3> QED BY <1>1, <3>1 DEF WeightsOk, Byte
  <2> QED BY <2>1, <2>2
<1>4. image' \in Seq(Int)
  BY <1>1, <1>3, ConcatProperties DEF PInv, PTyped
<1>5. PTyped'
  BY <1>1, <1>4 DEF PInv, PTyped, IsLayer
<1> QED BY <1>1, <1>2, <1>5 DEF PInv, Position, Placing, Planned

\* The outputs start behind the image, at the cursor.
LEMMA WeightsPlacedKeeps == PInv /\ WeightsPlaced => PInv'
<1> SUFFICES ASSUME PInv, WeightsPlaced PROVE PInv'
  OBVIOUS
<1>1. /\ step = "weights" /\ step' = "outputs" /\ i' = 1 /\ cursor' = Len(image)
      /\ UNCHANGED <<input, budget, layers, x, image>>
  BY DEF WeightsPlaced, model
<1>2. Len(image) \in Nat /\ Len(x) = 1 /\ Len(layers) \in Nat
  BY <1>1 DEF PInv, PTyped, Position, Placing, Planned
<1>3. PTyped'
  BY <1>1, <1>2 DEF PInv, PTyped, IsLayer
<1>4. Position'
  BY <1>1, <1>2 DEF Position, Placing, Planned
<1> QED BY <1>1, <1>2, <1>3, <1>4 DEF PInv, Planned

\* The new buffer begins at the cursor or behind the UART, and the cursor moves to
\* its end.
LEMMA PlaceOutputKeeps == PInv /\ PlaceOutput => PInv'
<1> SUFFICES ASSUME PInv, PlaceOutput PROVE PInv'
  OBVIOUS
<1> DEFINE n     == OutLen(layers[i])
           start == Clear(cursor, n)
<1>1. /\ step = "outputs" /\ i <= Len(layers) /\ x' = Append(x, start) /\ cursor' = start + n
      /\ i' = i + 1 /\ UNCHANGED <<step, input, budget, layers, image>>
  BY DEF PlaceOutput, model
<1>2. /\ i \in 1 .. Len(layers) /\ i \in Nat \ {0} /\ Len(x) = i /\ x \in Seq(Nat) /\ Len(layers) \in Nat
      /\ cursor \in Nat /\ Len(image) \in Nat /\ Len(image) <= cursor
      /\ \A k \in 1 .. i - 1 : Settled(k)
  BY <1>1 DEF PInv, PTyped, Position, Placing
<1>3. n \in Nat
  BY <1>2, OutLenNat DEF PInv, PTyped
<1>4. start \in Nat /\ start >= cursor /\ ~(start <= MMIO_TX /\ MMIO_TX < start + n)
  BY <1>2, <1>3, ClearMisses
<1> HIDE DEF n, start
<1>5. /\ x' \in Seq(Nat) /\ Len(x') = i + 1 /\ x'[i + 1] = start
      /\ \A k \in 1 .. i : x'[k] = x[k]
  BY <1>1, <1>2, <1>4
<1>6. PTyped'
  <2>1. cursor' \in Nat /\ Len(x') >= 1
    BY <1>1, <1>2, <1>3, <1>4, <1>5
  <2> QED BY <1>1, <1>5, <2>1 DEF PInv, PTyped, IsLayer
<1>7. Position'
  BY <1>1, <1>2, <1>3, <1>4, <1>5 DEF Position, Placing, Planned
<1>8. ASSUME NEW k \in 1 .. i PROVE Settled(k)'
  <2>0. ASSUME NEW j \in 1 .. i - 1 PROVE End(j) \in Nat
    <3>1. j \in 1 .. Len(layers) /\ j + 1 \in 1 .. Len(x)
      BY <1>2
    <3>2. x[j + 1] \in Nat
      BY <1>2, <3>1, ElementOfSeq
    <3>3. OutLen(layers[j]) \in Nat
      BY <3>1, OutLenNat DEF PInv, PTyped
    <3> QED BY <3>2, <3>3 DEF End
  <2>1. \A j \in 1 .. i - 1 : End(j)' = End(j) /\ End(j) <= cursor
    BY <1>1, <1>2, <1>5 DEF End, Settled
  <2>2. CASE k = i
    <3>1. x'[k + 1] = start /\ End(k)' = start + n
      BY <1>1, <1>5, <2>2 DEF End, n
    <3>2. \A j \in 1 .. k - 1 : End(j)' <= x'[k + 1]
      BY <1>2, <1>4, <2>0, <2>1, <2>2, <3>1
    <3> QED BY <1>1, <1>2, <1>3, <1>4, <3>1, <3>2 DEF Settled
  <2>3. CASE k # i
    <3>1. k \in 1 .. i - 1 /\ k + 1 \in 1 .. i
      BY <1>2, <2>3
    <3>2. End(k) \in Nat /\ End(k)' = End(k) /\ x'[k + 1] = x[k + 1]
      BY <1>2, <1>5, <2>0, <2>1, <3>1
    <3>3. \A j \in 1 .. k - 1 : End(j)' = End(j)
      BY <1>2, <2>1, <3>1
    <3>4. cursor <= cursor'
      BY <1>1, <1>2, <1>3, <1>4
    <3> QED BY <1>1, <1>2, <1>3, <1>4, <3>1, <3>2, <3>3, <3>4 DEF Settled
  <2> QED BY <2>2, <2>3
<1>9. Len(x') - 1 = i
  BY <1>2, <1>5
<1> QED BY <1>1, <1>6, <1>7, <1>8, <1>9 DEF PInv, Planned

\* Nothing moves any more: the check compares the cursor with the budget.
LEMMA RestOfPlanKeeps ==
  PInv /\ (RejectWeights \/ OutputsPlaced \/ Check \/ Use \/ UNCHANGED planvars) => PInv'
<1> SUFFICES ASSUME PInv, RejectWeights \/ OutputsPlaced \/ Check \/ Use \/ UNCHANGED planvars
             PROVE  PInv'
  OBVIOUS
<1>1. UNCHANGED <<input, budget, layers, x, image, cursor>>
  BY DEF RejectWeights, OutputsPlaced, Check, Use, planvars, model, plan
<1>2. PTyped' /\ \A k \in 1 .. Len(x) - 1 : Settled(k)' = Settled(k)
  BY <1>1 DEF PInv, PTyped, IsLayer, Settled, End
<1>3. CASE RejectWeights
  BY <1>1, <1>2, <1>3 DEF RejectWeights, PInv, Position, Placing, Planned
<1>4. CASE OutputsPlaced
  BY <1>1, <1>2, <1>4 DEF OutputsPlaced, PInv, Position, Placing, Planned
<1>5. CASE Check
  BY <1>1, <1>2, <1>5 DEF Check, Accepted, PInv, Position, Placing, Planned
<1>6. CASE Use
  BY <1>1, <1>2, <1>6 DEF Use, PInv, Position, Placing, Planned
<1>7. CASE UNCHANGED planvars
  BY <1>1, <1>2, <1>7 DEF planvars, PInv, Position, Placing, Planned
<1> QED BY <1>3, <1>4, <1>5, <1>6, <1>7

\* Every step of the planner keeps what it has given away apart.
LEMMA PlannerKeeps == PInv /\ [PlanNext]_planvars => PInv'
  BY LoweringKeeps, PlaceWeightsKeeps, WeightsPlacedKeeps, PlaceOutputKeeps, RestOfPlanKeeps
     DEF PlanNext, PlanStep

\* And nothing was given away at its start.
THEOREM PlanInductive == PlannerSpec => []PInv
  BY PInitially, PlannerKeeps, PTL DEF PlannerSpec

\* No buffer meets another, the image or the UART, and an accepted model stays within
\* its budget, for every network (graph_compiler.rs:245-338).
THEOREM BuffersAlwaysApart == PlannerSpec => []BuffersAreApart
<1>1. PInv => BuffersAreApart
  <2> SUFFICES ASSUME PInv, step \in Placing, NEW k \in 1 .. Len(x) - 1
               PROVE  /\ \A a \in Output(k) : a >= Len(image) /\ a # MMIO_TX
                      /\ \A j \in 1 .. k - 1 : Output(j) \cap Output(k) = {}
                      /\ step \in Planned => \A a \in Output(k) : a < budget
    BY DEF BuffersAreApart, Placing
  <2>1. Settled(k) /\ (step \in Planned => cursor <= budget)
    BY DEF PInv
  <2>2. ASSUME NEW j \in 1 .. Len(x) - 1
        PROVE  x[j + 1] \in Nat /\ OutLen(layers[j]) \in Nat /\ End(j) \in Nat
    <3>1. x \in Seq(Nat) /\ Len(x) <= Len(layers) + 1 /\ Len(layers) \in Nat
          /\ \A l \in 1 .. Len(layers) : IsLayer(layers[l])
      BY DEF PInv, PTyped, Position
    <3>2. j + 1 \in 1 .. Len(x) /\ j \in 1 .. Len(layers)
      BY <3>1
    <3>3. x[j + 1] \in Nat /\ OutLen(layers[j]) \in Nat
      BY <3>1, <3>2, ElementOfSeq, OutLenNat
    <3> QED BY <3>3 DEF End
  <2>3. \A a \in Output(k) : a \in Int /\ x[k + 1] <= a /\ a < End(k)
    BY <2>2 DEF Output, End
  <2>4. /\ End(k) \in Nat /\ x[k + 1] \in Nat
        /\ Len(image) \in Nat /\ cursor \in Nat /\ budget \in Nat
    BY <2>2 DEF PInv, PTyped
  <2>5. \A a \in Output(k) : a >= Len(image) /\ a # MMIO_TX
    BY <2>1, <2>3, <2>4, PlannerAssumption DEF Settled
  <2>6. ASSUME NEW j \in 1 .. k - 1 PROVE Output(j) \cap Output(k) = {}
    <3>1. j \in 1 .. Len(x) - 1
      OBVIOUS
    <3>2. \A a \in Output(j) : a \in Int /\ a < End(j)
      BY <2>2, <3>1 DEF Output, End
    <3>3. End(j) \in Nat /\ End(j) <= x[k + 1]
      BY <2>1, <2>2, <3>1 DEF Settled
    <3> QED BY <2>3, <2>4, <3>2, <3>3
  <2>7. step \in Planned => \A a \in Output(k) : a < budget
    BY <2>1, <2>3, <2>4 DEF Settled
  <2> QED BY <2>5, <2>6, <2>7
<1> QED BY <1>1, PlanInductive, PTL

-----------------------------------------------------------------------------
(* The compiler implements the planner: every node that lower takes becomes *)
(* a layer whose windows fit, and after the check nobody moves a buffer.    *)

\* What the next node takes: the shape is read only where it has three sides.
LowerInv ==
  /\ graph \in Graphs
  /\ IsModel(input, budget, layers) /\ \E S : layers \in Seq(S)
  /\ step \in {"open", "lower"} => i \in Nat \ {0}
  /\ step = "lower" /\ Len(shape) = 3 => shape[1] \in Nat /\ shape[2] \in Nat /\ shape[3] \in Nat

\* A layer that is one keeps the model one.
LEMMA AppendLayer ==
  ASSUME IsModel(input, budget, layers), \E S : layers \in Seq(S), NEW layer, IsLayer(layer),
         layers' = Append(layers, layer), UNCHANGED <<input, budget>>
  PROVE  IsModel(input', budget', layers') /\ \E S : layers' \in Seq(S)
<1>1. PICK S : layers \in Seq(S)
  OBVIOUS
<1>2. layers \in Seq(S \cup {layer}) /\ layer \in S \cup {layer}
  BY <1>1, SeqMonotonic
<1>3. /\ layers' \in Seq(S \cup {layer}) /\ Len(layers') = Len(layers) + 1
      /\ layers'[Len(layers) + 1] = layer /\ \A k \in 1 .. Len(layers) : layers'[k] = layers[k]
  BY <1>2, AppendProperties
<1>4. \A k \in 1 .. Len(layers') : IsLayer(layers'[k])
  BY <1>1, <1>3 DEF IsModel
<1> QED BY <1>1, <1>3, <1>4 DEF IsModel

\* The weights of a node and their shape, as serde read them.
LEMMA WeightTyped ==
  ASSUME graph \in Graphs, i \in Nat \ {0}, NEW dims \in Nat, Weighted(dims)
  PROVE  weight.shape \in Seq(Nat) /\ Len(weight.shape) = dims /\ weight.data[1] \in Seq(Int)
<1> DEFINE name == node.inputs[2]
<1>1. Data(name) # None /\ Len(weight.shape) = dims
  BY DEF Weighted, weight
<1>2. name \in DOMAIN graph.tensors /\ weight = graph.tensors[name] /\ weight.data # None
  BY <1>1 DEF Data, weight
<1>3. IsFile(graph)
  BY FileAssumption
<1> QED BY <1>1, <1>2, <1>3 DEF IsFile

\* A node, as serde read it.
LEMMA NodeTyped ==
  ASSUME graph \in Graphs, i \in Nat \ {0}, i <= Len(graph.nodes)
  PROVE  node.shift \in Nat /\ (node.kernel_size # None => node.kernel_size[1] \in Nat)
<1>1. IsFile(graph)
  BY FileAssumption
<1>2. i \in 1 .. Len(graph.nodes)
  BY <1>1 DEF IsFile
<1> QED BY <1>1, <1>2 DEF IsFile, node

\* A node that becomes a layer: the model stays one.
LEMMA BecomesLowers ==
  ASSUME LowerInv, step = "lower", NEW layer, NEW dims, NEW relu \in BOOLEAN,
         IsLayer(layer), Becomes(layer, dims, relu),
         Len(dims) = 3 => dims[1] \in Nat /\ dims[2] \in Nat /\ dims[3] \in Nat
  PROVE  Lowering /\ LowerInv'
<1>1. /\ layers' = Append(layers, layer) /\ shape' = dims /\ i' \in {i + 1, i + 2}
      /\ UNCHANGED <<step, input, budget, x, w, image, cursor, graph>>
  BY DEF Becomes, plan
<1>2. IsModel(input', budget', layers') /\ \E S : layers' \in Seq(S)
  BY <1>1, AppendLayer DEF LowerInv
<1>3. i' \in Nat \ {0}
  BY <1>1 DEF LowerInv
<1>4. LowerInv'
  BY <1>1, <1>2, <1>3 DEF LowerInv
<1>5. Lowering
  BY <1>1, <1>2 DEF Lowering
<1> QED BY <1>4, <1>5

\* Linear: out_f by in_f weights.
LEMMA LinearLowers == LowerInv /\ LowerLinear => Lowering /\ LowerInv'
<1> SUFFICES ASSUME LowerInv, LowerLinear PROVE Lowering /\ LowerInv'
  OBVIOUS
<1> DEFINE layer == [NoLayer EXCEPT !.kind = "Dense", !.in_f = weight.shape[2], !.out_f = weight.shape[1],
                                    !.shift = node.shift, !.weights = weight.data[1]]
           dims  == <<weight.shape[1]>>
           relu  == Feeds("Relu")
<1>1. /\ step = "lower" /\ i <= Len(graph.nodes) /\ Weighted(2) /\ Becomes(layer, dims, relu)
      /\ graph \in Graphs /\ i \in Nat \ {0}
  BY DEF LowerLinear, At, LinearFits, LowerInv
<1>2. /\ weight.shape[1] \in Nat /\ weight.shape[2] \in Nat
      /\ weight.data[1] \in Seq(Int) /\ node.shift \in Nat
  BY <1>1, WeightTyped, NodeTyped
<1>3. IsLayer(layer)
  <2>1. /\ layer.kind = "Dense" /\ layer.in_f = weight.shape[2] /\ layer.out_f = weight.shape[1]
        /\ layer.shift = node.shift /\ layer.weights = weight.data[1]
        /\ layer.c = 0 /\ layer.h = 0 /\ layer.w = 0 /\ layer.k = 0
    BY DEF NoLayer
  <2> QED BY <1>2, <2>1 DEF IsLayer
<1>4. Len(dims) = 1 /\ relu \in BOOLEAN
  BY DEF Feeds
<1> HIDE DEF layer, dims, relu
<1> QED BY <1>1, <1>3, <1>4, BecomesLowers

\* Conv2d: the window is square and fits the one plane.
LEMMA ConvLowers == LowerInv /\ LowerConv => Lowering /\ LowerInv'
<1> SUFFICES ASSUME LowerInv, LowerConv PROVE Lowering /\ LowerInv'
  OBVIOUS
<1> DEFINE cout  == weight.shape[1]
           k     == weight.shape[3]
           layer == [NoLayer EXCEPT !.kind = "Conv", !.c = cout, !.h = shape[2], !.w = shape[3], !.k = k,
                                    !.shift = node.shift, !.weights = weight.data[1]]
           dims  == <<cout, shape[2] - k + 1, shape[3] - k + 1>>
<1>1. /\ step = "lower" /\ i <= Len(graph.nodes) /\ Weighted(4) /\ Becomes(layer, dims, TRUE)
      /\ graph \in Graphs /\ i \in Nat \ {0} /\ Len(shape) = 3 /\ k <= shape[2] /\ k <= shape[3]
  BY DEF LowerConv, At, ConvFits, LowerInv
<1>2. cout \in Nat /\ k \in Nat /\ weight.data[1] \in Seq(Int) /\ node.shift \in Nat
  BY <1>1, WeightTyped, NodeTyped
<1>3. shape[2] \in Nat /\ shape[3] \in Nat
  BY <1>1 DEF LowerInv
<1>4. IsLayer(layer)
  <2>1. /\ layer.kind = "Conv" /\ layer.c = cout /\ layer.h = shape[2] /\ layer.w = shape[3] /\ layer.k = k
        /\ layer.shift = node.shift /\ layer.weights = weight.data[1] /\ layer.in_f = 0 /\ layer.out_f = 0
    BY DEF NoLayer
  <2> HIDE DEF layer
  <2> QED BY <1>1, <1>2, <1>3, <2>1 DEF IsLayer
<1>5. Len(dims) = 3 /\ dims[1] \in Nat /\ dims[2] \in Nat /\ dims[3] \in Nat
  <2> HIDE DEF cout, k
  <2> QED BY <1>1, <1>2, <1>3
<1> HIDE DEF layer, dims
<1> QED BY <1>1, <1>4, <1>5, BecomesLowers

\* MaxPool2d: the window is not empty and fits the planes.
LEMMA PoolLowers == LowerInv /\ LowerPool => Lowering /\ LowerInv'
<1> SUFFICES ASSUME LowerInv, LowerPool PROVE Lowering /\ LowerInv'
  OBVIOUS
<1> DEFINE k     == node.kernel_size[1]
           layer == [NoLayer EXCEPT !.kind = "Pool", !.c = shape[1], !.h = shape[2], !.w = shape[3], !.k = k]
           dims  == <<shape[1], shape[2] \div k, shape[3] \div k>>
<1>1. /\ step = "lower" /\ i <= Len(graph.nodes) /\ node.kernel_size # None /\ Becomes(layer, dims, FALSE)
      /\ graph \in Graphs /\ i \in Nat \ {0}
      /\ Len(shape) = 3 /\ k >= 1 /\ shape[2] >= k /\ shape[3] >= k
  BY DEF LowerPool, At, PoolFits, LowerInv
<1>2. k \in Nat
  BY <1>1, NodeTyped
<1>3. shape[1] \in Nat /\ shape[2] \in Nat /\ shape[3] \in Nat
  BY <1>1 DEF LowerInv
<1>4. IsLayer(layer)
  <2>1. /\ layer.kind = "Pool" /\ layer.c = shape[1] /\ layer.h = shape[2] /\ layer.w = shape[3] /\ layer.k = k
        /\ layer.shift = 0 /\ layer.weights = << >> /\ layer.in_f = 0 /\ layer.out_f = 0
    BY DEF NoLayer
  <2>2. << >> \in Seq(Int)
    OBVIOUS
  <2> HIDE DEF layer
  <2> QED BY <1>1, <1>2, <1>3, <2>1, <2>2 DEF IsLayer
<1>5. Len(dims) = 3 /\ dims[1] \in Nat /\ dims[2] \in Nat /\ dims[3] \in Nat
  <2> HIDE DEF k
  <2> QED BY <1>1, <1>2, <1>3
<1> HIDE DEF layer, dims
<1> QED BY <1>1, <1>4, <1>5, BecomesLowers

\* The graph's input: bytes.
LEMMA OpenLowers == LowerInv /\ Open => Lowering /\ LowerInv'
<1> SUFFICES ASSUME LowerInv, Open PROVE Lowering /\ LowerInv'
  OBVIOUS
<1>1. step = "open" /\ i \in Nat \ {0} /\ graph \in Graphs /\ UNCHANGED <<i, layers, x, w, image, cursor, graph>>
  BY DEF Open, LowerInv, plan
<1>2. CASE ~Opens
  <2>1. step' = "rejected" /\ UNCHANGED <<shape, input, budget>>
    BY <1>2 DEF Open
  <2> QED BY <1>1, <2>1 DEF LowerInv, Lowering
<1>3. CASE Opens
  <2> DEFINE x0 == graph.nodes[1].inputs[1]
  <2>1. step' = "lower" /\ shape' = graph.tensors[x0].shape /\ input' = Data(x0)[1] /\ budget' = graph.budget
    BY <1>3 DEF Open
  <2>2. /\ x0 \in DOMAIN graph.tensors /\ graph.tensors[x0].data # None
        /\ Data(x0) = graph.tensors[x0].data /\ \A j \in DOMAIN Data(x0)[1] : Data(x0)[1][j] \in 0 .. 255
    BY <1>3 DEF Opens, Data
  <2>3. IsFile(graph)
    BY <1>1, FileAssumption
  <2>4. shape' \in Seq(Nat) /\ input' \in Seq(Int) /\ budget' \in Nat
    BY <2>1, <2>2, <2>3 DEF IsFile
  <2>5. input' \in Seq(0 .. 255)
    <3>1. ASSUME NEW s \in Seq(Int), NEW B, \A j \in DOMAIN s : s[j] \in B PROVE s \in Seq(B)
      <4>1. s = [j \in 1 .. Len(s) |-> s[j]] /\ Len(s) \in Nat /\ \A j \in 1 .. Len(s) : s[j] \in B
        BY <3>1
      <4> QED BY <4>1, IsASeq
    <3>2. \A j \in DOMAIN input' : input'[j] \in 0 .. 255
      BY <2>1, <2>2
    <3> QED BY <2>4, <3>1, <3>2
  <2>6. IsModel(input', budget', layers')
    BY <1>1, <2>4, <2>5 DEF IsModel, LowerInv
  <2>7. Len(shape') = 3 => shape'[1] \in Nat /\ shape'[2] \in Nat /\ shape'[3] \in Nat
    <3>1. ASSUME NEW s \in Seq(Nat), Len(s) = 3 PROVE s[1] \in Nat /\ s[2] \in Nat /\ s[3] \in Nat
      <4>1. 1 \in 1 .. Len(s) /\ 2 \in 1 .. Len(s) /\ 3 \in 1 .. Len(s)
        BY <3>1
      <4> QED BY <4>1, ElementOfSeq
    <3> QED BY <2>4, <3>1, Zenon
  <2> QED BY <1>1, <2>1, <2>6, <2>7 DEF LowerInv, Lowering
<1> QED BY <1>2, <1>3

\* The nodes that become no layer.
LEMMA RestLowers ==
  LowerInv /\ (LowerFlatten \/ LowerArgmax \/ RejectGraph) => Lowering /\ LowerInv'
<1> SUFFICES ASSUME LowerInv, LowerFlatten \/ LowerArgmax \/ RejectGraph PROVE Lowering /\ LowerInv'
  OBVIOUS
<1>1. /\ step = "lower" /\ i \in Nat \ {0} /\ UNCHANGED <<input, budget, layers, x, w, cursor, graph>>
      /\ IsModel(input', budget', layers')
  BY DEF LowerFlatten, LowerArgmax, RejectGraph, At, LowerInv, model, plan, front, IsModel, IsLayer
<1>2. CASE LowerFlatten
  <2>1. step' = step /\ image' = image /\ i' = i + 1 /\ Len(shape') = 1
    BY <1>2 DEF LowerFlatten, plan
  <2> QED BY <1>1, <2>1 DEF LowerInv, Lowering
<1>3. CASE LowerArgmax
  BY <1>1, <1>3 DEF LowerArgmax, LowerInv, Lowering
<1>4. CASE RejectGraph
  BY <1>1, <1>4 DEF RejectGraph, plan, LowerInv, Lowering
<1> QED BY <1>2, <1>3, <1>4

\* After lowering the model stands, whatever the compiler and the chip do.
LEMMA ModelStands ==
  ASSUME LowerInv, UNCHANGED <<model, graph>>, step' \notin {"open", "lower"} PROVE LowerInv'
  BY DEF LowerInv, model, IsModel, IsLayer

\* Planning is the planner's own.
LEMMA PlanKeeps == LowerInv /\ Plan => PlanStep /\ LowerInv'
<1> SUFFICES ASSUME LowerInv, Plan PROVE LowerInv'
  BY DEF Plan
<1>1. UNCHANGED <<model, graph>> /\ step' \notin {"open", "lower"}
  BY DEF Plan, PlanStep, PlaceWeights, RejectWeights, WeightsPlaced, PlaceOutput, OutputsPlaced, Check, front
<1> QED BY <1>1, ModelStands

\* Code generation, evaluation and the start of the chip read the plan.
LEMMA BackendUses ==
  LowerInv /\ (GenerateLayer \/ GenerateEpilogue \/ EvaluateLayer \/ WriteFiles \/ LoadAndStart)
    => Use /\ LowerInv'
<1> SUFFICES ASSUME LowerInv, GenerateLayer \/ GenerateEpilogue \/ EvaluateLayer \/ WriteFiles \/ LoadAndStart
             PROVE  Use /\ LowerInv'
  OBVIOUS
<1>1. UNCHANGED <<model, plan, graph>> /\ step \in Planned /\ step' \in Planned \cup {"rejected"}
  BY DEF GenerateLayer, GenerateEpilogue, EvaluateLayer, WriteFiles, LoadAndStart, Planned, front
<1> QED BY <1>1, ModelStands DEF Use, Planned

\* The assembler and the warp know nothing of the plan.
LEMMA OthersStutter ==
  LowerInv /\ (OpenFile \/ Assemble \/ Execute \/ UNCHANGED vars) => UNCHANGED planvars /\ LowerInv'
<1> SUFFICES ASSUME LowerInv, OpenFile \/ Assemble \/ Execute \/ UNCHANGED vars
             PROVE  UNCHANGED planvars /\ LowerInv'
  OBVIOUS
<1>1. UNCHANGED planvars /\ UNCHANGED <<graph, shape>>
  BY DEF OpenFile, Assemble, Execute, vars, compiler, front
<1> QED BY <1>1 DEF planvars, model, LowerInv, IsModel, IsLayer

\* Every step of the compiler is a step of the planner or none.
LEMMA StepsPlan == LowerInv /\ [Next]_vars => [PlanNext]_planvars /\ LowerInv'
<1> SUFFICES ASSUME LowerInv, [Next]_vars PROVE [PlanNext]_planvars /\ LowerInv'
  OBVIOUS
<1>1. CASE Compile
  <2>1. CASE Open
    BY <2>1, OpenLowers DEF PlanNext
  <2>2. CASE Lower
    BY <2>2, LinearLowers, ConvLowers, PoolLowers, RestLowers DEF Lower, PlanNext
  <2>3. CASE Plan
    BY <2>3, PlanKeeps DEF PlanNext
  <2>4. CASE GenerateLayer \/ GenerateEpilogue \/ EvaluateLayer \/ WriteFiles
    BY <2>4, BackendUses DEF PlanNext
  <2> QED BY <1>1, <2>1, <2>2, <2>3, <2>4 DEF Compile, CompilerNext
<1>2. CASE LoadAndStart
  BY <1>2, BackendUses DEF PlanNext
<1>3. CASE OpenFile \/ Assemble \/ Execute \/ UNCHANGED vars
  BY <1>3, OthersStutter
<1> QED BY <1>1, <1>2, <1>3 DEF Next

\* For every graph the compiler is handed, what it does to the plan is what the planner
\* does: lower only lets windows through that fit (graph_compiler.rs:102-226), and
\* nothing after check moves a buffer.
THEOREM CompilerPlans == Spec => ImplementsPlanner
<1>1. Init => PlanInit /\ LowerInv
  <2> SUFFICES ASSUME Init PROVE PlanInit /\ LowerInv
    OBVIOUS
  <2>1. /\ PlanInit /\ graph \in Graphs /\ step = "open" /\ i = 1
        /\ input = << >> /\ budget = 0 /\ layers = << >>
    BY DEF Init, PlanInit
  <2>2. IsModel(input, budget, layers) /\ layers \in Seq({})
    BY <2>1 DEF IsModel
  <2> QED BY <2>1, <2>2 DEF LowerInv
<1> QED BY <1>1, StepsPlan, PTL DEF Spec, ImplementsPlanner, PlannerSpec

\* So the buffers of a compiled graph are apart to the end of its run, for every graph,
\* UART address and limit (graph_compiler.rs:245-338).
THEOREM GraphBuffersApart == Spec => []BuffersAreApart
  BY CompilerPlans, BuffersAlwaysApart, PTL DEF ImplementsPlanner

-----------------------------------------------------------------------------
(* The generators write lines that the assembler knows.                     *)
Coded == Known \cup {""}
KnownCode(s) == \E S : s \in Seq(S) /\ \A l \in S : l.op \in Coded

\* No line is known code.
LEMMA KnownNone == KnownCode(<< >>)
<1> DEFINE none == {}
<1>1. << >> \in Seq(none) /\ \A l \in none : l.op \in Coded
  OBVIOUS
<1> HIDE DEF none
<1> QED BY <1>1 DEF KnownCode

\* One line.
LEMMA KnownOne == ASSUME NEW line, line.op \in Coded PROVE KnownCode(<<line>>)
<1> DEFINE S == {line}
<1>1. <<line>> \in Seq(S) /\ \A l \in S : l.op \in Coded
  OBVIOUS
<1> HIDE DEF S
<1> QED BY <1>1 DEF KnownCode

\* One behind the other.
LEMMA KnownCat == ASSUME NEW a, NEW b, KnownCode(a), KnownCode(b) PROVE KnownCode(a \o b)
<1>1. PICK S : a \in Seq(S) /\ \A l \in S : l.op \in Coded
  BY DEF KnownCode
<1>2. PICK T : b \in Seq(T) /\ \A l \in T : l.op \in Coded
  BY DEF KnownCode
<1>3. a \in Seq(S \cup T) /\ b \in Seq(S \cup T)
  BY <1>1, <1>2, SeqMonotonic
<1>4. a \o b \in Seq(S \cup T)
  BY <1>3, ConcatProperties
<1> QED BY <1>1, <1>2, <1>4 DEF KnownCode

\* What unrolling n times computes on the way.
Upto(n, code, g) == g = [t \in 0 .. n |-> IF t = 0 THEN << >> ELSE g[t - 1] \o code[t - 1]]

\* A set of numbers has a least one.
LEMMA LeastNat ==
  ASSUME NEW S, S \subseteq Nat, S # {}
  PROVE  \E m \in S : \A k \in S : m <= k
<1> DEFINE T == {0 .. k : k \in S}
<1>1. T # {} /\ T \subseteq FiniteSubsetsOf(Nat)
  <2>1. \A k \in S : 0 .. k \in SUBSET Nat /\ IsFiniteSet(0 .. k)
    BY FS_Interval
  <2> QED BY <2>1 DEF FiniteSubsetsOf
<1>2. PICK s \in T : \A t \in T : ~ (<<t, s>> \in StrictSubsetOrdering(Nat))
  <2> HIDE DEF T
  <2> QED BY <1>1, FS_StrictSubsetOrderingWellFounded, WFMin
<1>3. PICK m \in S : s = 0 .. m
  OBVIOUS
<1>4. ASSUME NEW k \in S PROVE m <= k
  <2>1. SUFFICES ASSUME k < m PROVE FALSE
    OBVIOUS
  <2>2. (0 .. k) \subseteq (0 .. m) /\ m \in 0 .. m /\ m \notin 0 .. k
    BY <2>1
  <2>3. <<0 .. k, 0 .. m>> \in StrictSubsetOrdering(Nat)
    BY <2>2 DEF StrictSubsetOrdering
  <2> QED BY <1>2, <1>3, <2>3
<1> QED BY <1>4

\* One round more.
LEMMA UptoNext ==
  ASSUME NEW n \in Nat, NEW code, NEW g, Upto(n, code, g)
  PROVE  \E h : Upto(n + 1, code, h)
<1> DEFINE h == [t \in 0 .. n + 1 |-> IF t = n + 1 THEN g[n] \o code[n] ELSE g[t]]
<1>0. g = [t \in 0 .. n |-> IF t = 0 THEN << >> ELSE g[t - 1] \o code[t - 1]]
  BY DEF Upto
<1>1. ASSUME NEW t \in 0 .. n + 1 PROVE h[t] = IF t = 0 THEN << >> ELSE h[t - 1] \o code[t - 1]
  <2>1. CASE t = n + 1
    <3>1. h[t] = g[n] \o code[n] /\ h[n] = g[n] /\ t - 1 = n /\ t # 0
      BY <2>1
    <3> QED BY <3>1
  <2>2. CASE t # n + 1 /\ t # 0
    <3>1. t \in 0 .. n /\ t - 1 \in 0 .. n /\ t - 1 # n + 1 /\ t - 1 \in 0 .. n + 1
      BY <2>2
    <3>2. h[t] = g[t] /\ h[t - 1] = g[t - 1]
      BY <2>2, <3>1
    <3>3. g[t] = g[t - 1] \o code[t - 1]
      BY <1>0, <2>2, <3>1
    <3> QED BY <2>2, <3>2, <3>3
  <2>3. CASE t = 0
    <3>1. h[0] = g[0] /\ 0 \in 0 .. n
      BY <2>3
    <3>2. g[0] = << >>
      BY <1>0, <3>1
    <3> QED BY <2>3, <3>1, <3>2
  <2> QED BY <2>1, <2>2, <2>3
<1>2. h = [t \in 0 .. n + 1 |-> h[t]]
  OBVIOUS
<1> HIDE DEF h
<1>3. h = [t \in 0 .. n + 1 |-> IF t = 0 THEN << >> ELSE h[t - 1] \o code[t - 1]]
  BY <1>1, <1>2
<1> QED BY <1>3 DEF Upto

\* No round at all.
LEMMA UptoZero == ASSUME NEW code PROVE \E g : Upto(0, code, g)
<1> DEFINE g == [t \in 0 .. 0 |-> << >>]
<1>1. g = [t \in 0 .. 0 |-> IF t = 0 THEN << >> ELSE g[t - 1] \o code[t - 1]]
  OBVIOUS
<1> HIDE DEF g
<1> QED BY <1>1 DEF Upto

\* The recursion is well defined: there is no least number of rounds without one.
LEMMA UptoExists == ASSUME NEW n \in Nat, NEW code PROVE \E g : Upto(n, code, g)
<1> DEFINE Fails == {m \in Nat : ~\E g : Upto(m, code, g)}
<1>1. CASE Fails # {}
  <2>1. PICK m \in Fails : \A k \in Fails : m <= k
    <3>1. Fails \subseteq Nat
      OBVIOUS
    <3> HIDE DEF Fails
    <3> QED BY <1>1, <3>1, LeastNat
  <2>2. m # 0
    BY UptoZero
  <2>3. m - 1 \in Nat /\ m - 1 \notin Fails
    BY <2>1, <2>2
  <2>4. PICK g : Upto(m - 1, code, g)
    BY <2>3
  <2>5. \E h : Upto(m, code, h)
    <3>1. (m - 1) + 1 = m
      OBVIOUS
    <3> QED BY <2>3, <2>4, <3>1, UptoNext
  <2> QED BY <2>5
<1> QED BY <1>1

\* It puts known code behind known code.
LEMMA UptoKnown ==
  ASSUME NEW n \in Nat, NEW code, NEW g, Upto(n, code, g), \A t \in 0 .. n - 1 : KnownCode(code[t])
  PROVE  KnownCode(g[n])
<1> DEFINE Fails == {m \in 0 .. n : ~KnownCode(g[m])}
<1>0. g = [t \in 0 .. n |-> IF t = 0 THEN << >> ELSE g[t - 1] \o code[t - 1]]
  BY DEF Upto
<1>1. CASE Fails # {}
  <2>1. PICK m \in Fails : \A k \in Fails : m <= k
    <3>1. Fails \subseteq Nat
      OBVIOUS
    <3> HIDE DEF Fails
    <3> QED BY <1>1, <3>1, LeastNat
  <2>2. m # 0
    <3>1. g[0] = << >>
      BY <1>0
    <3> QED BY <3>1, KnownNone
  <2>3. m - 1 \in 0 .. n /\ m - 1 \in 0 .. n - 1 /\ m - 1 \notin Fails
    BY <2>1, <2>2
  <2>4. KnownCode(g[m - 1]) /\ KnownCode(code[m - 1])
    BY <2>3
  <2>5. g[m] = g[m - 1] \o code[m - 1]
    BY <1>0, <2>2
  <2> QED BY <2>4, <2>5, KnownCat
<1>2. n \in 0 .. n
  OBVIOUS
<1> QED BY <1>1, <1>2

\* An unrolled window is known code if its taps are.
LEMMA UnrolledKnown ==
  ASSUME NEW n \in Nat, NEW code, \A t \in 0 .. n - 1 : KnownCode(code[t])
  PROVE  KnownCode(Unrolled(n, code))
<1>1. \E g : Unrolled(n, code) = g[n] /\ ((\E h : Upto(n, code, h)) => Upto(n, code, g))
  BY DEF Unrolled, Upto
<1>2. PICK g : Unrolled(n, code) = g[n] /\ Upto(n, code, g)
  BY <1>1, UptoExists
<1> QED BY <1>2, UptoKnown

\* The mnemonics of the generators.
LEMMA Written ==
  {"MOV", "LDI", "ADD", "ADDI", "LDR", "STR", "CMP", "FMAC", "FOUT", "MAX", "RET", "BR", "BRp", "BRzp", "BRnz"}
    \subseteq Coded
  BY DEF Coded, Known, Alu, Variant, Mask, Fixed

\* A label stands on a blank line.
LEMMA MarkKnown == ASSUME NEW label PROVE KnownCode(Here(label))
<1>1. Mark(label).op \in Coded
  BY DEF Mark, Line, Coded
<1> QED BY <1>1, KnownOne DEF Here

\* An instruction with one of them.
LEMMA InsKnown == ASSUME NEW op \in Coded, NEW args PROVE KnownCode(<<Ins(op, args)>>)
<1>1. Ins(op, args).op = op
  BY DEF Ins, Line
<1> QED BY <1>1, KnownOne

\* The pieces of a kernel.
LEMMA Pieces ==
  ASSUME NEW a, NEW b, NEW v
  PROVE  /\ KnownCode(Lit(a, v)) /\ KnownCode(Addi(a, b, v)) /\ KnownCode(Ldr(a, b)) /\ KnownCode(Str(a, b))
         /\ KnownCode(Cmp(a, b)) /\ \A op \in {"BR", "BRzp", "BRnz"} : KnownCode(Goto(op, v))
         /\ KnownCode(Bump(a, v, b)) /\ KnownCode(Ahead(a, b, v))
         /\ KnownCode(Tap(a, b)) /\ KnownCode(Fire(a, v))
<1>0. \A r, u : KnownCode(Lit(r, u))
  BY Written, InsKnown DEF Lit
<1>1. \A c, d, u : KnownCode(Addi(c, d, u)) /\ KnownCode(Ldr(c, d)) /\ KnownCode(Str(c, d))
  BY Written, InsKnown DEF Addi, Ldr, Str
<1>2. KnownCode(Cmp(a, b)) /\ \A op \in {"BR", "BRzp", "BRnz"} : KnownCode(Goto(op, v))
  BY Written, InsKnown DEF Cmp, Goto
<1>3. KnownCode(Bump(a, v, b)) /\ KnownCode(Ahead(a, b, v))
  BY <1>0, <1>1, KnownNone, KnownCat, Written, InsKnown DEF Bump, Ahead
<1>4. KnownCode(Tap(a, b)) /\ KnownCode(Fire(a, v))
  BY <1>1, KnownCat, Written, InsKnown DEF Tap, Fire
<1> QED BY <1>0, <1>1, <1>2, <1>3, <1>4

\* The head of a loop.
LEMMA WhileKnown == ASSUME NEW top, NEW ra, NEW rb, NEW end PROVE KnownCode(While(top, ra, rb, end))
  BY MarkKnown, Pieces, KnownCat DEF While

\* The kernel of a dense layer.
LEMMA DenseKnown == ASSUME NEW n, NEW l, NEW from, NEW to, NEW ws PROVE KnownCode(GenDense(n, l, from, to, ws))
  BY MarkKnown, Pieces, WhileKnown, KnownCat DEF GenDense

\* The kernel of a convolution: its taps are unrolled.
LEMMA ConvKnown ==
  ASSUME NEW n, NEW l, NEW from, NEW to, NEW ws, l.k \in Nat
  PROVE  KnownCode(GenConv(n, l, from, to, ws))
<1> DEFINE taps == l.k * l.k
           code == [t \in 0 .. taps - 1 |->
                      Tap(2, 6) \o (IF t = taps - 1 THEN << >> ELSE Addi(6, 6, 1) \o Addi(2, 2, Stride(t, l)))]
<1>1. taps \in Nat
  BY ProductNat
<1>2. \A t \in 0 .. taps - 1 : KnownCode(code[t])
  <2> HIDE DEF taps
  <2> QED BY Pieces, KnownNone, KnownCat
<1>3. KnownCode(Unrolled(taps, code))
  <2> HIDE DEF taps, code
  <2> QED BY <1>1, <1>2, UnrolledKnown
<1> HIDE DEF code, taps
<1> DEFINE chan == Lit(0, ws) \o Lit(3, to) \o Here(<<"chan", n>>) \o Lit(5, to + OutLen(l)) \o Cmp(3, 5)
                   \o Goto("BRzp", <<"end", n>>) \o Lit(1, from)
<1>4. KnownCode(chan)
  BY MarkKnown, Pieces, WhileKnown, KnownCat
<1> HIDE DEF chan
<1> DEFINE row == chan \o Here(<<"row", n>>) \o Lit(5, from + (l.h - l.k + 1) * l.w) \o Cmp(1, 5)
                  \o Goto("BRzp", <<"chan_next", n>>) \o Ahead(7, 1, l.w - l.k + 1)
<1>5. KnownCode(row)
  BY <1>4, MarkKnown, Pieces, WhileKnown, KnownCat
<1> HIDE DEF row
<1> DEFINE pix == row \o While(<<"pix", n>>, 1, 7, <<"row_next", n>>) \o Addi(2, 1, 0) \o Addi(6, 0, 0)
                  \o Unrolled(taps, code) \o Fire(4, l.shift) \o Addi(1, 1, 1) \o Goto("BR", <<"pix", n>>)
<1>6. KnownCode(pix)
  BY <1>5, <1>3, MarkKnown, Pieces, WhileKnown, KnownCat
<1> HIDE DEF pix
<1> DEFINE rest == pix \o Here(<<"row_next", n>>) \o Bump(1, l.k - 1, 5) \o Goto("BR", <<"row", n>>)
                   \o Here(<<"chan_next", n>>) \o Bump(0, taps, 5) \o Goto("BR", <<"chan", n>>) \o Here(<<"end", n>>)
<1>7. KnownCode(rest)
  BY <1>6, MarkKnown, Pieces, WhileKnown, KnownCat
<1> HIDE DEF rest
<1> QED BY <1>7, Zenon DEF GenConv, taps, code, chan, row, pix, rest

\* The kernel of a pool: the taps behind the first are unrolled.
LEMMA PoolKnown ==
  ASSUME NEW n, NEW l, NEW from, NEW to, l.k \in Nat, l.k >= 1
  PROVE  KnownCode(GenPool(n, l, from, to))
<1> DEFINE code == [t \in 0 .. l.k * l.k - 2 |->
                      Addi(2, 2, Stride(t, l)) \o Ldr(5, 2) \o <<Ins("MAX", <<R(4), R(4), R(5)>>)>>]
           taps == l.k * l.k - 1
<1>1. taps \in Nat
  <2>1. l.k * l.k \in Nat /\ l.k * l.k >= l.k
    <3>1. \A a, b \in Nat : a >= 1 => a * b >= b
      OBVIOUS
    <3> QED BY <3>1, ProductNat
  <2> QED BY <2>1
<1>2. \A t \in 0 .. taps - 1 : KnownCode(code[t])
  <2>1. \A t : KnownCode(Addi(2, 2, Stride(t, l)) \o Ldr(5, 2) \o <<Ins("MAX", <<R(4), R(4), R(5)>>)>>)
    BY Pieces, KnownCat, Written, InsKnown
  <2>2. taps - 1 = l.k * l.k - 2
    <3>1. l.k * l.k \in Nat
      BY ProductNat
    <3> QED BY <3>1
  <2> QED BY <2>1, <2>2
<1>3. KnownCode(Unrolled(taps, code))
  <2> HIDE DEF taps, code
  <2> QED BY <1>1, <1>2, UnrolledKnown
<1> HIDE DEF code, taps
<1> DEFINE chan == Lit(1, from) \o Lit(3, to) \o Lit(0, to) \o Here(<<"chan", n>>) \o Lit(5, to + OutLen(l))
                   \o Cmp(3, 5) \o Goto("BRzp", <<"end", n>>) \o Bump(0, (l.h \div l.k) * (l.w \div l.k), 6)
<1>4. KnownCode(chan)
  BY MarkKnown, Pieces, WhileKnown, KnownCat
<1> HIDE DEF chan
<1> DEFINE row == chan \o While(<<"row", n>>, 3, 0, <<"chan_next", n>>) \o Ahead(7, 3, l.w \div l.k)
<1>5. KnownCode(row)
  BY <1>4, MarkKnown, Pieces, WhileKnown, KnownCat
<1> HIDE DEF row
<1> DEFINE pix == row \o While(<<"pix", n>>, 3, 7, <<"row_next", n>>) \o Ldr(4, 1) \o Addi(2, 1, 0)
                  \o Unrolled(taps, code) \o Str(4, 3) \o Addi(3, 3, 1) \o Addi(1, 1, l.k) \o Goto("BR", <<"pix", n>>)
<1>6. KnownCode(pix)
  BY <1>5, <1>3, MarkKnown, Pieces, WhileKnown, KnownCat
<1> HIDE DEF pix
<1> DEFINE rest == pix \o Here(<<"row_next", n>>) \o Bump(1, l.k * (l.w - l.w \div l.k), 6) \o Goto("BR", <<"row", n>>)
                   \o Here(<<"chan_next", n>>) \o Bump(1, (l.h - l.k * (l.h \div l.k)) * l.w, 6)
                   \o Goto("BR", <<"chan", n>>) \o Here(<<"end", n>>)
<1>7. KnownCode(rest)
  BY <1>6, MarkKnown, Pieces, WhileKnown, KnownCat
<1> HIDE DEF rest
<1> QED BY <1>7, Zenon DEF GenPool, taps, code, chan, row, pix, rest

\* The kernel of any layer.
LEMMA KernelKnown ==
  ASSUME NEW n, NEW l, NEW from, NEW to, NEW ws, IsLayer(l)
  PROVE  KnownCode(Kernel(n, l, from, to, ws))
<1>1. l.kind \in {"Dense", "Conv", "Pool"} /\ l.k \in Nat /\ (l.kind = "Pool" => l.k >= 1)
  BY DEF IsLayer
<1> QED BY <1>1, DenseKnown, ConvKnown, PoolKnown DEF Kernel

\* The epilogue.
LEMMA EpilogueKnown == ASSUME NEW from, NEW n PROVE KnownCode(Epilogue(from, n))
<1>1. \A a, b : KnownCode(<<Ins("RET", a), Ins("RET", b)>>)
  <2>1. \A a, b : <<Ins("RET", a), Ins("RET", b)>> = <<Ins("RET", a)>> \o <<Ins("RET", b)>>
    OBVIOUS
  <2> QED BY <2>1, Written, InsKnown, KnownCat
<1> DEFINE setup == Lit(2, MMIO_TX) \o Lit(3, n + 1) \o Str(3, 2) \o Lit(0, from) \o Lit(1, from + n)
                    \o Lit(4, 0) \o Lit(5, 0) \o Lit(6, 0)
<1>2. KnownCode(setup)
  BY MarkKnown, Pieces, WhileKnown, KnownCat
<1> HIDE DEF setup
<1> DEFINE body == setup \o While(<<"Lemit", 0>>, 0, 1, <<"Lemit_done", 0>>) \o Ldr(7, 0) \o Str(7, 2) \o Cmp(7, 4)
                   \o Goto("BRnz", <<"Lemit_next", 0>>) \o Addi(4, 7, 0) \o Addi(5, 6, 0)
<1>3. KnownCode(body)
  BY <1>2, MarkKnown, Pieces, WhileKnown, KnownCat
<1> HIDE DEF body
<1> DEFINE rest == body \o Here(<<"Lemit_next", 0>>) \o Addi(6, 6, 1) \o Addi(0, 0, 1) \o Goto("BR", <<"Lemit", 0>>)
                   \o Here(<<"Lemit_done", 0>>) \o Str(5, 2) \o <<Ins("RET", << >>), Ins("RET", << >>)>>
<1>4. KnownCode(rest)
  BY <1>3, <1>1, MarkKnown, Pieces, WhileKnown, KnownCat
<1> HIDE DEF rest
<1> QED BY <1>4, Zenon DEF Epilogue, setup, body, rest

-----------------------------------------------------------------------------
(* word_count against pass 1.                                               *)

\* How many of the first n lines of s have one of these mnemonics.
Having(s, ops, n) == Cardinality({k \in 1 .. n : s[k].op \in ops})

\* What word_count would say of the first n lines.
WordsTo(s, n) == n - Having(s, {""}, n) + 2 * Having(s, {"LDI"}, n) + 3 * Having(s, {"MAX"}, n)

\* One line more.
LEMMA HavingNext ==
  ASSUME NEW s, NEW ops, NEW n \in Nat
  PROVE  /\ Having(s, ops, n) \in Nat /\ Having(s, ops, 0) = 0
         /\ Having(s, ops, n + 1) = Having(s, ops, n) + (IF s[n + 1].op \in ops THEN 1 ELSE 0)
<1> DEFINE H(m) == {k \in 1 .. m : s[k].op \in ops}
<1>1. \A m \in Nat : IsFiniteSet(H(m)) /\ Cardinality(H(m)) \in Nat
  <2> SUFFICES ASSUME NEW m \in Nat PROVE IsFiniteSet(H(m)) /\ Cardinality(H(m)) \in Nat
    OBVIOUS
  <2>1. IsFiniteSet(1 .. m) /\ H(m) \in SUBSET (1 .. m)
    BY FS_Interval
  <2>2. IsFiniteSet(H(m))
    BY <2>1, FS_Subset
  <2> QED BY <2>2, FS_CardinalityType
<1>2. H(0) = {}
  OBVIOUS
<1>3. CASE s[n + 1].op \in ops
  <2>1. H(n + 1) = H(n) \cup {n + 1} /\ n + 1 \notin H(n)
    BY <1>3
  <2>2. Cardinality(H(n) \cup {n + 1}) = Cardinality(H(n)) + 1
    <3> HIDE DEF H
    <3> QED BY <1>1, <2>1, FS_AddElement
  <2> QED BY <1>1, <1>2, <1>3, <2>1, <2>2, FS_EmptySet DEF Having
<1>4. CASE s[n + 1].op \notin ops
  <2>1. H(n + 1) = H(n)
    BY <1>4
  <2>2. /\ Having(s, ops, n) = Cardinality(H(n)) /\ Having(s, ops, n + 1) = Cardinality(H(n + 1))
        /\ Having(s, ops, 0) = Cardinality(H(0))
    BY DEF Having
  <2>3. Cardinality(H(n)) \in Nat /\ Cardinality(H(0)) = 0
    BY <1>1, <1>2, FS_EmptySet
  <2> HIDE DEF H
  <2> QED BY <1>4, <2>1, <2>2, <2>3
<1> QED BY <1>3, <1>4

\* The words of a line are what it adds.
LEMMA WordsNext ==
  ASSUME NEW s, NEW n \in Nat
  PROVE  WordsTo(s, n) \in Int /\ WordsTo(s, 0) = 0 /\ WordsTo(s, n + 1) = WordsTo(s, n) + Size(s[n + 1])
<1> DEFINE op  == s[n + 1].op
           B   == {""}
           adds(ops) == IF op \in ops THEN 1 ELSE 0
<1>1. \A ops : /\ Having(s, ops, n) \in Nat /\ Having(s, ops, 0) = 0
               /\ Having(s, ops, n + 1) = Having(s, ops, n) + adds(ops)
  BY HavingNext
<1>2. 1 - adds(B) + 2 * adds({"LDI"}) + 3 * adds({"MAX"}) = Size(s[n + 1])
  <2>1. CASE Blank(s[n + 1])
    <3>1. Size(s[n + 1]) = 0
      BY <2>1, Zenon DEF Size, Blank
    <3>2. op \in B /\ op \notin {"LDI"} /\ op \notin {"MAX"}
      BY <2>1, Mnemonics DEF Blank
    <3> HIDE DEF op, B
    <3> QED BY <3>1, <3>2
  <2>2. CASE ~Blank(s[n + 1])
    <3>1. Size(s[n + 1]) = WordCount(op)
      BY <2>2, Zenon DEF Size, Blank
    <3>2. op \notin B
      BY <2>2 DEF Blank
    <3> HIDE DEF op, B
    <3> QED BY <3>1, <3>2 DEF WordCount
  <2> QED BY <2>1, <2>2
<1>3. \A m : WordsTo(s, m) = m - Having(s, B, m) + 2 * Having(s, {"LDI"}, m) + 3 * Having(s, {"MAX"}, m)
  BY DEF WordsTo
<1>4. adds(B) \in Nat /\ adds({"LDI"}) \in Nat /\ adds({"MAX"}) \in Nat
  OBVIOUS
<1> HIDE DEF adds, op, B
<1> QED BY <1>1, <1>2, <1>3, <1>4

\* Where pass 1 saw each line: behind the words of the lines before it.
Counted == \A k \in 1 .. Len(starts) : starts[k] = WordsTo(source, k - 1)

\* word_count's sum is the one over all the lines.
LEMMA WordsOfIs ==
  ASSUME NEW s, Len(s) \in Nat, DOMAIN s = 1 .. Len(s)
  PROVE  WordsOf(s) = WordsTo(s, Len(s)) /\ WordsOf(s) \in Int
<1>1. WordsOf(s) = WordsTo(s, Len(s))
  BY DEF WordsOf, WordsTo, Having
<1> QED BY <1>1, WordsNext

\* The address of pass 1 and the sum grow by the same word counts.
LEMMA CountedKeeps == IInv /\ Counted /\ AsmNext => Counted'
<1> SUFFICES ASSUME IInv, Counted, AsmNext PROVE Counted'
  OBVIOUS
<1>1. CASE Scan
  <2>1. /\ at \in 1 .. Len(source) /\ Len(starts) = at - 1 /\ pc = Reached(at) /\ starts \in Seq(Nat)
        /\ starts' = Append(starts, pc) /\ source' = source /\ pc \in Nat
    <3>1. /\ phase = "labels" /\ at <= Len(source) /\ starts' = Append(starts, pc) /\ source' = source
      BY <1>1 DEF Scan, Reading
    <3> QED BY <3>1 DEF IInv, Typed, FirstPass
  <2>2. Len(starts') = at /\ starts'[at] = pc /\ \A k \in 1 .. at - 1 : starts'[k] = starts[k]
    BY <2>1
  <2>3. pc = WordsTo(source, at - 1)
    <3>1. CASE at = 1
      BY <2>1, <3>1, WordsNext DEF Reached
    <3>2. CASE at # 1
      <4>1. at - 1 \in 1 .. Len(starts) /\ at - 2 \in Nat /\ (at - 1) - 1 = at - 2 /\ (at - 2) + 1 = at - 1
        BY <2>1, <3>2
      <4>2. starts[at - 1] = WordsTo(source, at - 2)
        BY <4>1 DEF Counted
      <4>3. WordsTo(source, at - 1) = WordsTo(source, at - 2) + Size(source[at - 1])
        BY <4>1, WordsNext
      <4>4. pc = starts[at - 1] + Size(source[at - 1])
        BY <2>1, <3>2 DEF Reached
      <4> QED BY <4>2, <4>3, <4>4
    <3> QED BY <3>1, <3>2
  <2> SUFFICES ASSUME NEW k \in 1 .. at PROVE starts'[k] = WordsTo(source, k - 1)
    BY <2>1, <2>2 DEF Counted
  <2>4. CASE k = at
    BY <2>2, <2>3, <2>4
  <2>5. CASE k # at
    BY <2>1, <2>2, <2>5 DEF Counted
  <2> QED BY <2>4, <2>5
<1>2. CASE Rewind \/ Emit \/ Exit \/ Finish
  BY <1>2 DEF Rewind, Emit, Exit, Finish, Counted
<1> QED BY <1>1, <1>2 DEF AsmNext

-----------------------------------------------------------------------------
\* The assembler has not been started.
NoText == InState(Fresh(<< >>))

\* It works on a kernel that the limit let through.
AtWork ==
  /\ source # << >> /\ KnownCode(source) /\ WordsOf(source) <= ROM_WORDS
  /\ IInv /\ Counted

Fitting == WordsOf(asm) <= ROM_WORDS

CodeInv ==
  /\ step = "generate" => i \in Nat \ {0}
  /\ KnownCode(asm)
  /\ step = "evaluate" => Fitting
  /\ step \notin {"asm", "run"} => NoText
  /\ step = "asm" => (NoText /\ Fitting) \/ AtWork

GInv == LowerInv /\ CodeInv

\* Known code has a length, and its lines are known.
LEMMA KnownLines ==
  ASSUME NEW s, KnownCode(s)
  PROVE  /\ Len(s) \in Nat /\ DOMAIN s = 1 .. Len(s) /\ \E S : s \in Seq(S)
         /\ \A k \in DOMAIN s : s[k].op \in Coded
<1>1. PICK S : s \in Seq(S) /\ \A l \in S : l.op \in Coded
  BY DEF KnownCode
<1> QED BY <1>1, ElementOfSeq

\* While the text stays empty the assembler stands where it stood.
LEMMA NoTextStays == NoText /\ UNCHANGED asmvars => NoText'
  BY DEF NoText, InState, Fresh, asmvars

\* Before the generators nothing is written.
LEMMA FrontKeepsCode == GInv /\ (Open \/ Lower \/ Plan) /\ UNCHANGED asmvars => CodeInv'
<1> SUFFICES ASSUME GInv, Open \/ Lower \/ Plan, UNCHANGED asmvars PROVE CodeInv'
  OBVIOUS
<1>1. /\ step \in {"open", "lower", "weights", "outputs", "check"} /\ asm' = asm
      /\ step' \notin {"asm", "run", "evaluate"} /\ (step' = "generate" => i' = 1)
  <2>1. CASE Open
    BY <2>1 DEF Open
  <2>2. CASE Lower
    BY <2>2 DEF Lower, LowerLinear, LowerConv, LowerPool, LowerFlatten, LowerArgmax, RejectGraph, At, Becomes, front
  <2>3. CASE Plan
    BY <2>3 DEF Plan, PlanStep, PlaceWeights, RejectWeights, WeightsPlaced, PlaceOutput, OutputsPlaced, Check, front
  <2> QED BY <2>1, <2>2, <2>3
<1>2. NoText'
  BY <1>1, NoTextStays DEF GInv, CodeInv
<1> QED BY <1>1, <1>2 DEF GInv, CodeInv

\* The kernels and the epilogue are known code, and the limit is compared.
LEMMA GenerateKeepsCode == GInv /\ (GenerateLayer \/ GenerateEpilogue) /\ UNCHANGED asmvars => CodeInv'
<1> SUFFICES ASSUME GInv, GenerateLayer \/ GenerateEpilogue, UNCHANGED asmvars PROVE CodeInv'
  OBVIOUS
<1>1. NoText' /\ i \in Nat \ {0} /\ KnownCode(asm) /\ step = "generate"
  BY NoTextStays DEF GInv, CodeInv, GenerateLayer, GenerateEpilogue
<1>2. CASE GenerateLayer
  <2>1. i <= Len(layers) /\ asm' = asm \o Kernel(i, layers[i], x[i], x[i + 1], w[i]) /\ i' = i + 1 /\ step' = step
    BY <1>2 DEF GenerateLayer
  <2>2. IsLayer(layers[i])
    BY <1>1, <2>1 DEF GInv, LowerInv, IsModel
  <2>3. KnownCode(asm')
    BY <1>1, <2>1, <2>2, KernelKnown, KnownCat
  <2> QED BY <1>1, <2>1, <2>3 DEF CodeInv
<1>3. CASE GenerateEpilogue
  <2>1. /\ asm' = asm \o Epilogue(x[i], OutLen(layers[i - 1]))
        /\ step' = IF WordsOf(asm') > ROM_WORDS THEN "rejected" ELSE "evaluate"
    BY <1>3 DEF GenerateEpilogue
  <2>2. KnownCode(asm')
    BY <1>1, <2>1, EpilogueKnown, KnownCat
  <2>3. WordsOf(asm') \in Int
    BY <2>2, KnownLines, WordsOfIs
  <2>4. step' = "evaluate" => Fitting'
    BY <2>1, <2>3, RomAssumption DEF Fitting
  <2> QED BY <1>1, <2>1, <2>2, <2>4 DEF CodeInv
<1> QED BY <1>2, <1>3

\* The files are written and the code in them is what was generated.
LEMMA EvaluateKeepsCode == GInv /\ (EvaluateLayer \/ WriteFiles) /\ UNCHANGED asmvars => CodeInv'
<1> SUFFICES ASSUME GInv, EvaluateLayer \/ WriteFiles, UNCHANGED asmvars PROVE CodeInv'
  OBVIOUS
<1>1. step = "evaluate" /\ step' \in {"evaluate", "asm"} /\ asm' = asm
  BY DEF EvaluateLayer, WriteFiles
<1>2. NoText' /\ Fitting'
  BY <1>1, NoTextStays DEF GInv, CodeInv, Fitting
<1> QED BY <1>1, <1>2 DEF GInv, CodeInv

\* The assembler takes over the lines as they are.
LEMMA OpenFileKeepsCode == GInv /\ OpenFile => CodeInv'
<1> SUFFICES ASSUME GInv, OpenFile PROVE CodeInv'
  OBVIOUS
<1>1. /\ step = "asm" /\ source = << >> /\ source' = asm /\ asm' = << >>
      /\ UNCHANGED <<step, phase, at, pc, labels, words, starts>>
  BY DEF OpenFile, planvars
<1>2. NoText /\ Fitting /\ KnownCode(asm)
  BY <1>1 DEF GInv, CodeInv, AtWork
<1>3. CASE asm = << >>
  <2>1. NoText' /\ Fitting'
    BY <1>1, <1>2, <1>3 DEF NoText, Fitting, InState, Fresh
  <2> QED BY <1>1, <2>1, KnownNone DEF CodeInv
<1>4. CASE asm # << >>
  <2>1. IInv'
    <3>1. ((\E S : source \in Seq(S)) /\ InState(Fresh(source)) => IInv)'
      BY Initially, PTL
    <3>2. InState(Fresh(source))'
      BY <1>1, <1>2 DEF NoText, InState, Fresh
    <3>3. (\E S : source \in Seq(S))'
      BY <1>1, <1>2, KnownLines
    <3> QED BY <3>1, <3>2, <3>3
  <2>2. Counted'
    BY <1>1, <1>2 DEF NoText, InState, Fresh, Counted
  <2>3. AtWork'
    BY <1>1, <1>2, <1>4, <2>1, <2>2 DEF AtWork, Fitting
  <2> QED BY <1>1, <2>3, KnownNone DEF CodeInv
<1> QED BY <1>3, <1>4

\* What the assembler does keeps its own invariant.
LEMMA AssembleKeepsCode == GInv /\ Assemble => CodeInv'
<1> SUFFICES ASSUME GInv, Assemble PROVE CodeInv'
  OBVIOUS
<1>1. /\ step = "asm" /\ source # << >> /\ AsmNext /\ UNCHANGED <<step, i, asm>> /\ KnownCode(asm)
  BY DEF Assemble, GInv, CodeInv, compiler, planvars, front
<1>2. AtWork
  BY <1>1 DEF GInv, CodeInv, NoText, InState, Fresh
<1>3. source' = source
  BY <1>1 DEF AsmNext, Scan, Rewind, Emit, Exit, Finish
<1>4. IInv'
  BY <1>1, <1>2, ScanKeeps, RewindKeeps, EmitKeeps, RestKeeps DEF AsmNext, AtWork
<1>5. Counted'
  BY <1>1, <1>2, CountedKeeps DEF AtWork
<1>6. AtWork'
  BY <1>1, <1>2, <1>3, <1>4, <1>5 DEF AtWork
<1> QED BY <1>1, <1>6 DEF CodeInv

\* The chip and a step of nobody.
LEMMA RestKeepsCode == GInv /\ (LoadAndStart \/ Execute \/ UNCHANGED vars) => CodeInv'
<1> SUFFICES ASSUME GInv, LoadAndStart \/ Execute \/ UNCHANGED vars PROVE CodeInv'
  OBVIOUS
<1>1. CASE LoadAndStart \/ Execute
  <2>1. step' = "run" /\ asm' = asm
    BY <1>1 DEF LoadAndStart, Execute, compiler, planvars, front
  <2> QED BY <2>1 DEF GInv, CodeInv
<1>2. CASE UNCHANGED vars
  <2>1. UNCHANGED <<step, i, asm>> /\ UNCHANGED asmvars
    BY <1>2 DEF vars, compiler, planvars, front
  <2>2. NoText' = NoText /\ Fitting' = Fitting
    BY <2>1 DEF NoText, Fitting, InState, Fresh, asmvars
  <2>3. AtWork => AtWork'
    <3>1. IInv /\ UNCHANGED asmvars => IInv'
      BY RestKeeps
    <3> QED BY <2>1, <3>1 DEF AtWork, Counted, asmvars
  <2> QED BY <2>1, <2>2, <2>3 DEF GInv, CodeInv
<1> QED BY <1>1, <1>2

\* The compiler's layers and code, and the assembler on them, where the file is opened ...
LEMMA GInitially == Init => GInv
<1> SUFFICES ASSUME Init PROVE GInv
  OBVIOUS
<1>1. LowerInv /\ step = "open" /\ asm = << >> /\ NoText
  <2>1. /\ graph \in Graphs /\ step = "open" /\ i = 1 /\ input = << >> /\ budget = 0 /\ layers = << >>
    BY DEF Init, PlanInit
  <2>2. IsModel(input, budget, layers) /\ layers \in Seq({})
    BY <2>1 DEF IsModel
  <2>3. asm = << >> /\ NoText
    BY DEF Init, FrontInit, NoText
  <2> QED BY <2>1, <2>2, <2>3 DEF LowerInv
<1> QED BY <1>1, KnownNone DEF GInv, CodeInv

\* ... and after every step ...
LEMMA GKeeps == GInv /\ [Next]_vars => GInv'
<1>1. GInv /\ Compile => CodeInv'
  BY FrontKeepsCode, GenerateKeepsCode, EvaluateKeepsCode DEF Compile, CompilerNext
<1> QED BY <1>1, StepsPlan, OpenFileKeepsCode, AssembleKeepsCode, RestKeepsCode DEF Next, GInv

\* ... so always.
THEOREM GraphInductive == Spec => []GInv
  BY GInitially, GKeeps, PTL DEF Spec

\* The words of the code of a model are those that word_count counts.
LEMMA Counts ==
  ASSUME AtWork, phase = "done"
  PROVE  Len(words) = WordsOf(source)
<1>1. /\ Len(source) \in Nat /\ DOMAIN source = 1 .. Len(source)
      /\ \A k \in DOMAIN source : source[k].op \in Known \cup {""}
  BY KnownLines DEF AtWork, Coded
<1>2. Len(words) = Reached(Len(source) + 1) /\ Len(starts) = Len(source)
  BY <1>1 DEF AtWork, IInv, SecondPass, AllKnown
<1>3. Reached(Len(source) + 1) = WordsTo(source, Len(source))
  <2>1. CASE Len(source) = 0
    BY <2>1, WordsNext DEF Reached
  <2>2. CASE Len(source) # 0
    <3> DEFINE n == Len(source) - 1
    <3>0. \A m \in Nat : m # 0 => m - 1 \in Nat /\ (m - 1) + 1 = m /\ m \in 1 .. m /\ m + 1 # 1 /\ (m + 1) - 1 = m
      OBVIOUS
    <3>1. n \in Nat /\ n + 1 = Len(source) /\ Len(source) \in 1 .. Len(starts)
      BY <1>1, <1>2, <2>2, <3>0, Zenon
    <3>2. starts[Len(source)] = WordsTo(source, n)
      BY <3>1 DEF AtWork, Counted
    <3>3. WordsTo(source, n + 1) = WordsTo(source, n) + Size(source[n + 1])
      BY <3>1, WordsNext
    <3>4. Reached(Len(source) + 1) = starts[Len(source)] + Size(source[Len(source)])
      BY <1>1, <2>2, <3>0 DEF Reached
    <3> QED BY <3>1, <3>2, <3>3, <3>4
  <2> QED BY <2>1, <2>2
<1>4. WordsOf(source) = WordsTo(source, Len(source))
  BY <1>1, WordsOfIs
<1> QED BY <1>2, <1>3, <1>4

\* For every graph that compiles, the assembler writes exactly the words that word_count
\* promised, and they fit the instruction memory (graph_compiler.rs:553-570 and 660, main.rs:80-200).
THEOREM WordCountAlwaysAgrees == Spec => []WordCountAgrees
<1>1. GInv => WordCountAgrees
  <2> SUFFICES ASSUME GInv, step = "asm", phase = "done"
               PROVE  Len(words) = WordsOf(source) /\ Len(words) <= ROM_WORDS
    BY DEF WordCountAgrees
  <2>1. AtWork
    BY DEF GInv, CodeInv, NoText, InState, Fresh
  <2>2. Len(words) = WordsOf(source)
    BY <2>1, Counts
  <2> QED BY <2>1, <2>2 DEF AtWork
<1> QED BY <1>1, GraphInductive, PTL
=============================================================================
