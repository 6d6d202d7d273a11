------------------------------ MODULE MCBoard ------------------------------
(* Board with bytes of 2 bits, 6 data and 8 program addresses, and two       *)
(* frames in a row: programs of up to 5 words (a size that needs the header's *)
(* high byte), up to 3 data bytes, kernels that emit up to two bytes per core. *)
EXTENDS Board

Words == <<<<1, 0>>, <<2, 3>>, <<0, 2>>, <<3, 1>>, <<1, 1>>>>
Bytes == <<2, 1, 2>>

Frame(words, bytes, e0, e1) ==
  [prog |-> SubSeq(Words, 1, words), data |-> SubSeq(Bytes, 1, bytes),
   emits |-> [c \in Cores |-> IF c = 0 THEN e0 ELSE e1]]

First  == {Frame(w, d, <<1>>, <<2>>) : w \in {0, 5}, d \in {0, 2}}
            \cup {Frame(1, 3, e0, e1) : e0 \in {<< >>, <<1, 2>>}, e1 \in {<< >>, <<3>>}}
Second == {Frame(w, d, <<3>>, <<1, 3>>) : w \in {0, 2}, d \in {0, 3}}
MCWorkloads == {<<f, g>> : f \in First, g \in Second}
=============================================================================
