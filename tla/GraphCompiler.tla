--------------------------- MODULE GraphCompiler ---------------------------
(***************************************************************************)
(* graph_compiler.rs: a quantized graph is lowered node by node to layers, *)
(* planned (GraphPlanner), turned into one kernel and evaluated.           *)
(*                                                                         *)
(* A graph is [budget, tensors, nodes] of the JSON file; what the file may *)
(* leave out is an option: None or Some(value).                            *)
(***************************************************************************)
EXTENDS GraphKernels, SequencesExt

CONSTANT ROM_WORDS

ASSUME RomAssumption == ROM_WORDS \in Nat

VARIABLES
  graph,   \* the file
  cur,     \* lowering: the tensor that the next node must take
  shape,   \* lowering: its shape
  asm,     \* the lines generated so far
  acts,    \* the outputs of the layers evaluated so far
  expect   \* the reply that the host compares with

front == <<graph, cur, shape, asm, acts, expect>>

None          == << >>
Some(v)       == <<v>>
Or(option, d) == IF option = None THEN d ELSE option[1]

\* What serde reads: a file of another type is refused before lower sees it.
IsFile(g) ==
  /\ g.budget \in Nat /\ Len(g.nodes) \in Nat
  /\ \A n \in 1 .. Len(g.nodes) :
       /\ g.nodes[n].shift \in Nat
       /\ g.nodes[n].kernel_size # None => g.nodes[n].kernel_size[1] \in Nat
  /\ \A t \in DOMAIN g.tensors :
       /\ g.tensors[t].shape \in Seq(Nat)
       /\ g.tensors[t].data # None => g.tensors[t].data[1] \in Seq(Int)

NoLayer == [kind |-> "none", in_f |-> 0, out_f |-> 0, c |-> 0, h |-> 0, w |-> 0, k |-> 0, shift |-> 0, weights |-> << >>]
Volume(dims) == FoldLeft(LAMBDA a, b : a * b, 1, dims)

FrontInit == cur = "" /\ shape = << >> /\ asm = << >> /\ acts = << >> /\ expect = << >>

-----------------------------------------------------------------------------
(* lower.                                                                   *)
LEGAL == {"Linear", "Conv2d", "MaxPool2d", "Flatten", "Relu", "Argmax"}

Data(name) == IF name \in DOMAIN graph.tensors THEN graph.tensors[name].data ELSE None

Opens ==
  /\ graph.nodes # << >> /\ \A n \in DOMAIN graph.nodes : graph.nodes[n].op \in LEGAL
  /\ graph.nodes[1].inputs # << >>
  /\ LET x0 == graph.nodes[1].inputs[1]
     IN /\ Data(x0) # None
        /\ \A j \in DOMAIN Data(x0)[1] : Data(x0)[1][j] \in 0 .. 255
        /\ Volume(graph.tensors[x0].shape) = Len(Data(x0)[1])

Open ==
  /\ step = "open"
  /\ IF Opens
     THEN /\ step' = "lower" /\ cur' = graph.nodes[1].inputs[1] /\ shape' = graph.tensors[cur'].shape
          /\ input' = Data(cur')[1] /\ budget' = graph.budget
     ELSE step' = "rejected" /\ UNCHANGED <<cur, shape, input, budget>>
  /\ UNCHANGED <<i, layers, plan, graph, asm, acts, expect>>

node    == graph.nodes[i]
At(op)  == step = "lower" /\ i <= Len(graph.nodes) /\ node.op = op
Chained == node.inputs # << >> /\ node.inputs[1] = cur

\* The node after this one takes exactly its output.
Feeds(op) ==
  /\ i < Len(graph.nodes) /\ graph.nodes[i + 1].op = op /\ graph.nodes[i + 1].inputs = <<node.output>>

\* Its weights: [x, w] and no bias.
Weighted(dims) ==
  /\ Len(node.inputs) = 2 /\ Data(node.inputs[2]) # None
  /\ Len(graph.tensors[node.inputs[2]].shape) = dims
weight == graph.tensors[node.inputs[2]]

\* The node becomes a layer, and takes the Relu behind it along where it has to.
Becomes(layer, dims, relu) ==
  /\ layers' = Append(layers, layer)
  /\ shape' = dims
  /\ IF relu THEN cur' = graph.nodes[i + 1].output /\ i' = i + 2 ELSE cur' = node.output /\ i' = i + 1
  /\ UNCHANGED <<step, input, budget, plan, graph, asm, acts, expect>>

LinearFits ==
  /\ Chained /\ Weighted(2) /\ shape = <<weight.shape[2]>>
  /\ Feeds("Relu") \/ Feeds("Argmax")

LowerLinear ==
  /\ At("Linear") /\ LinearFits
  /\ Becomes([NoLayer EXCEPT !.kind = "Dense", !.in_f = weight.shape[2], !.out_f = weight.shape[1],
                             !.shift = node.shift, !.weights = weight.data[1]],
             <<weight.shape[1]>>, Feeds("Relu"))

ConvFits ==
  /\ Chained /\ Weighted(4) /\ weight.shape[3] = weight.shape[4] /\ weight.shape[2] = 1
  /\ Len(shape) = 3 /\ shape[1] = 1
  /\ Or(node.stride, 1) = 1 /\ Or(node.padding, 0) = 0
  /\ weight.shape[3] <= shape[2] /\ weight.shape[3] <= shape[3]
  /\ Feeds("Relu")

LowerConv ==
  /\ At("Conv2d") /\ ConvFits
  /\ LET cout == weight.shape[1]
         k    == weight.shape[3]
     IN Becomes([NoLayer EXCEPT !.kind = "Conv", !.c = cout, !.h = shape[2], !.w = shape[3], !.k = k,
                                !.shift = node.shift, !.weights = weight.data[1]],
                <<cout, shape[2] - k + 1, shape[3] - k + 1>>, TRUE)

\* Mutant: the height alone is compared with the window.
PoolFitsTall ==
  /\ Chained /\ node.kernel_size # None
  /\ LET k == node.kernel_size[1]
     IN /\ Or(node.stride, k) = k /\ Or(node.padding, 0) = 0
        /\ Len(shape) = 3 /\ k >= 1 /\ shape[2] >= k

PoolFits ==
  /\ Chained /\ node.kernel_size # None
  /\ LET k == node.kernel_size[1]
     IN /\ Or(node.stride, k) = k /\ Or(node.padding, 0) = 0
        /\ Len(shape) = 3 /\ k >= 1 /\ shape[2] >= k /\ shape[3] >= k

LowerPool ==
  /\ At("MaxPool2d") /\ PoolFits
  /\ LET k == node.kernel_size[1]
     IN Becomes([NoLayer EXCEPT !.kind = "Pool", !.c = shape[1], !.h = shape[2], !.w = shape[3], !.k = k],
                <<shape[1], shape[2] \div k, shape[3] \div k>>, FALSE)

\* No code: the buffer is contiguous already.
LowerFlatten ==
  /\ At("Flatten") /\ Chained
  /\ shape' = <<Volume(shape)>> /\ cur' = node.output /\ i' = i + 1
  /\ UNCHANGED <<step, model, plan, graph, asm, acts, expect>>

ArgmaxFits == Chained /\ i = Len(graph.nodes) /\ layers # << >>

LowerArgmax ==
  /\ At("Argmax") /\ ArgmaxFits
  /\ step' = "weights" /\ i' = 1
  /\ image' = input                     \* plan begins
  /\ UNCHANGED <<model, x, w, cursor, front>>

RejectGraph ==
  /\ step = "lower"
  /\ ~(At("Linear") /\ LinearFits) /\ ~(At("Conv2d") /\ ConvFits) /\ ~(At("MaxPool2d") /\ PoolFits)
  /\ ~(At("Flatten") /\ Chained) /\ ~(At("Argmax") /\ ArgmaxFits)
  /\ step' = "rejected"
  /\ UNCHANGED <<i, model, plan, front>>

Lower == LowerLinear \/ LowerConv \/ LowerPool \/ LowerFlatten \/ LowerArgmax \/ RejectGraph

-----------------------------------------------------------------------------
(* main.                                                                    *)
Plan == PlanStep /\ UNCHANGED front

GenerateLayer ==
  /\ step = "generate" /\ i <= Len(layers)
  /\ asm' = asm \o Kernel(i, layers[i], x[i], x[i + 1], w[i])
  /\ i' = i + 1
  /\ UNCHANGED <<step, model, plan, graph, cur, shape, acts, expect>>

\* The epilogue, and the limit of the instruction memory.
GenerateEpilogue ==
  /\ step = "generate" /\ i > Len(layers)
  /\ asm' = asm \o Epilogue(x[i], OutLen(layers[i - 1]))
  /\ i' = 1
  /\ step' = IF WordsOf(asm') > ROM_WORDS THEN "rejected" ELSE "evaluate"
  /\ UNCHANGED <<model, plan, graph, cur, shape, acts, expect>>

EvaluateLayer ==
  /\ step = "evaluate" /\ i <= Len(layers)
  /\ acts' = Append(acts, EvalLayer(layers[i], IF i = 1 THEN input ELSE acts[i - 1]))
  /\ i' = i + 1
  /\ UNCHANGED <<step, model, plan, graph, cur, shape, asm, expect>>

\* The three files are written: asm, data and the expected reply.
WriteFiles ==
  /\ step = "evaluate" /\ i > Len(layers)
  /\ LET scores == acts[i - 1]
     IN expect' = <<Len(scores) + 1>> \o scores \o <<Argmax(scores) - 1>>
  /\ step' = "asm"
  /\ UNCHANGED <<i, model, plan, graph, cur, shape, asm, acts>>

CompilerNext == Open \/ Lower \/ Plan \/ GenerateLayer \/ GenerateEpilogue \/ EvaluateLayer \/ WriteFiles
=============================================================================
