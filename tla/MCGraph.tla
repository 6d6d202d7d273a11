------------------------------ MODULE MCGraph ------------------------------
(* Graph with the sizes of the chip but for the memory: networks of every    *)
(* layer, buffers around address 63, constants around 64, planes and windows *)
(* that do not divide, the limits of check; and graphs with one mistake.     *)
EXTENDS Graph

MemSize == 256
MCBias == [d \in 0 .. 15 |-> 0]

-----------------------------------------------------------------------------
(* Files: parts are put in a chain behind the input "x".                    *)
Noise(n, seed)  == [j \in 1 .. n |-> (seed * j + (j * j * 13) \div 7) % 256]
Signed(n, seed) == [j \in 1 .. n |-> (Noise(n, seed)[j] % 192) - 73]

Node(op, in, out) ==
  [op |-> op, inputs |-> in, output |-> out, shift |-> 0, kernel_size |-> None, stride |-> None, padding |-> None]
Tensor(dims, data) == [shape |-> dims, data |-> data]
Outs == <<"a", "b", "c", "d", "e", "f", "g", "h", "i">>
Ws   == <<"wa", "wb", "wc", "wd", "we", "wf", "wg", "wh", "wi">>

Part(op, dims, shift, k, relu) == [op |-> op, dims |-> dims, shift |-> shift, k |-> k, relu |-> relu]
Linear(out, in, shift) == Part("Linear", <<out, in>>, shift, None, TRUE)
Logits(out, in, shift) == Part("Linear", <<out, in>>, shift, None, FALSE)
Conv(out, k, shift)    == Part("Conv2d", <<out, 1, k, k>>, shift, None, TRUE)
Pool(k)                == Part("MaxPool2d", << >>, 0, Some(k), FALSE)
Flatten                == Part("Flatten", << >>, 0, None, FALSE)

Add(g, p) ==
  LET n    == Len(g.nodes) + 1
      prev == IF n = 1 THEN "x" ELSE Outs[n - 1]
      in   == IF p.dims = << >> THEN <<prev>> ELSE <<prev, Ws[n]>>
      this == [Node(p.op, in, Outs[n]) EXCEPT !.shift = p.shift, !.kernel_size = p.k]
  IN [g EXCEPT !.nodes = @ \o <<this>> \o (IF p.relu THEN <<Node("Relu", <<Outs[n]>>, Outs[n + 1])>> ELSE << >>),
               !.tensors = IF p.dims = << >> THEN @
                           ELSE [t \in DOMAIN @ \cup {Ws[n]} |->
                                   IF t = Ws[n] THEN Tensor(p.dims, Some(Signed(Volume(p.dims), 29 + 6 * n))) ELSE @[t]]]

Net(size, dims, parts) ==
  LET g == FoldLeft(Add, [fate |-> "runs", budget |-> size, nodes |-> << >>,
                          tensors |-> [t \in {"x"} |-> Tensor(dims, Some(Noise(Volume(dims), 83)))]], parts)
  IN [g EXCEPT !.nodes = Append(@, Node("Argmax", <<Outs[Len(@)]>>, "y"))]

Image(bytes, parts) ==
  [Net(MemSize, <<Len(bytes)>>, parts) EXCEPT !.tensors["x"].data = Some(bytes)]

-----------------------------------------------------------------------------
\* Dense networks whose outputs lie before, up to, across and behind address 63.
Dense1(in, out) == Net(MemSize, <<in>>, <<Logits(out, in, 0)>>)
Mlp    == Net(MemSize, <<6>>, <<Linear(5, 6, 0), Linear(4, 5, 1), Logits(3, 4, 0)>>)
Ties   == Image(<<0, 0, 0>>, <<Logits(4, 3, 0)>>)
Extreme == [Image(<<255, 255, 254>>, <<Linear(4, 3, 0), Logits(3, 4, 7)>>)
              EXCEPT !.tensors["wa"].data = Some(<<127, 127, 127, -128, 127, 1, -128, -128, -128, 1, 1, -1>>),
                     !.tensors["wc"].data = Some(<<127, 127, 127, 127, -128, 0, 0, 0, 127, 127, 127, 127>>)]
Around == {Dense1(4, n) : n \in {10, 11, 12, 13}} \cup {Dense1(61, 1), Dense1(31, 1), Dense1(9, 7)}

\* Planes: windows that divide them or not, rows of which only some fit, far pointers.
Digit  == Net(MemSize, <<1, 6, 6>>, <<Conv(2, 3, 1), Pool(2), Flatten, Linear(4, 8, 0), Logits(3, 4, 0)>>)
Wide   == Net(MemSize, <<1, 2, 64>>, <<Conv(1, 2, 0), Flatten>>)
Flat   == Net(MemSize, <<1, 3, 5>>, <<Conv(3, 1, 2), Pool(1), Flatten>>)
Loose  == Net(MemSize, <<2, 5, 7>>, <<Pool(2), Pool(1), Flatten, Logits(2, 12, 7)>>)
Skip   == Net(MemSize, <<1, 7, 22>>, <<Pool(4), Flatten, Logits(3, 5, 0)>>)
Two    == Net(MemSize, <<2, 5, 22>>, <<Pool(3)>>)
Tall   == Net(MemSize, <<1, 9, 2>>, <<Conv(2, 2, 0), Flatten>>)
Whole  == Net(MemSize, <<1, 4, 4>>, <<Conv(5, 4, 0), Pool(1)>>)

\* The limits of check: a reply of 254 scores (255 in its length byte) is sent and one
\* of 255 is not, a kernel of 256 words is written and one of 257 is not.
Scores(n) == Net(2 * MemSize, <<1>>, <<Logits(n, 1, 0)>>)
Words256  == Net(MemSize, <<1, 5, 5>>, <<Conv(1, 4, 0), Pool(1), Pool(1), Pool(1), Pool(1), Flatten, Logits(3, 4, 0)>>)
Words257  == Net(MemSize, <<1, 4, 6>>, <<Conv(1, 3, 0), Pool(1), Pool(1), Pool(1), Pool(1), Pool(1), Flatten, Logits(2, 8, 0)>>)

Runs == {Scores(254), Words256} \cup {Mlp, Ties, Extreme, Digit, Wide, Flat, Loose, Skip, Two, Tall, Whole} \cup Around
          \cup {[Dense1(5, 5) EXCEPT !.budget = 35], [Net(MemSize, <<3>>, <<Flatten, Logits(2, 3, 7)>>) EXCEPT !.budget = 11]}

-----------------------------------------------------------------------------
\* One mistake each.
Drop(g, n) == [g EXCEPT !.nodes = SubSeq(@, 1, n - 1) \o SubSeq(@, n + 1, Len(@))]
Small == Dense1(3, 2)
Picture == Net(MemSize, <<1, 4, 4>>, <<Conv(2, 2, 0)>>)

Mistakes ==
  {[Dense1(5, 5) EXCEPT !.budget = 34],                                  \* a byte short
   [Small EXCEPT !.tensors["wa"].data = Some(<<1, 2, 3, 4, 5, 128>>)],   \* not int8
   [Small EXCEPT !.tensors["wa"].data = Some(<<1, 2, 3, 4, 5, -129>>)],
   [Small EXCEPT !.tensors["wa"].data = Some(<<1, 2, 3, 4, 5>>)], [Small EXCEPT !.tensors["wa"].data = None],
   [Small EXCEPT !.tensors["x"].data = Some(<<1, 2, 256>>)], [Small EXCEPT !.tensors["x"].data = Some(<<1, 2, -1>>)],
   [Small EXCEPT !.tensors["x"].data = Some(<<1, 2>>)], [Small EXCEPT !.tensors["x"].data = None],
   [Small EXCEPT !.tensors["x"].shape = <<1, 3>>], [Small EXCEPT !.tensors["wa"].shape = <<3, 2>>],
   [Small EXCEPT !.nodes[1].shift = 8], [Small EXCEPT !.nodes[1].inputs = <<"x">>],
   [Small EXCEPT !.nodes[1].inputs = <<"x", "wa", "bias">>], [Small EXCEPT !.nodes[1].inputs = <<"x", "nobody">>],
   [Small EXCEPT !.nodes[2].op = "Softmax"], [Small EXCEPT !.nodes[2].inputs = <<"x">>], [Small EXCEPT !.nodes = << >>],
   Drop(Small, 1), Drop(Small, 2), [Small EXCEPT !.nodes = @ \o <<Node("Flatten", <<"y">>, "z")>>],
   [Small EXCEPT !.nodes[2].op = "Flatten"], Drop(Mlp, 2), Drop(Mlp, 1),
   Drop(Picture, 2), [Picture EXCEPT !.nodes[1].stride = Some(2)], [Picture EXCEPT !.nodes[1].padding = Some(1)],
   [Picture EXCEPT !.tensors["x"].shape = <<4, 4>>], [Picture EXCEPT !.tensors["wa"].shape = <<1, 2, 2, 2>>],
   [Picture EXCEPT !.tensors["wa"].shape = <<2, 1, 2, 3>>], [Picture EXCEPT !.tensors["x"].shape = <<1, 16, 1>>],
   [Picture EXCEPT !.tensors["x"].shape = <<2, 2, 4>>], Net(MemSize, <<1, 4, 4>>, <<Conv(2, 2, 0), Conv(1, 2, 0)>>),
   Net(MemSize, <<1, 8, 8>>, <<Conv(1, 8, 0)>>), Net(MemSize, <<1, 2, 65>>, <<Conv(1, 2, 0)>>),
   Net(MemSize, <<1, 7, 7>>, <<Conv(1, 7, 0)>>), Net(MemSize, <<1, 8, 8>>, <<Pool(6)>>),
   Net(MemSize, <<1, 4, 4>>, <<Pool(5)>>), Net(MemSize, <<1, 5, 4>>, <<Pool(5)>>), Net(MemSize, <<1, 1, 64>>, <<Pool(1)>>),
   [Net(MemSize, <<1, 4, 4>>, <<Pool(2)>>) EXCEPT !.nodes[1].kernel_size = None],
   [Net(MemSize, <<1, 4, 4>>, <<Pool(2)>>) EXCEPT !.nodes[1].stride = Some(1)],
   [Net(MemSize, <<1, 4, 4>>, <<Pool(2)>>) EXCEPT !.nodes[1].padding = Some(1)],
   Scores(255), Words257}

MCGraphs == Runs \cup {[g EXCEPT !.fate = "refused"] : g \in Mistakes}

\* What the theorems about the run of a graph ask of its files holds of these.
ASSUME FilesAreOrdinary == NoEmpty /\ BudgetsFit
=============================================================================
