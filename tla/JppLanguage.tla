---------------------------- MODULE JppLanguage ----------------------------
(***************************************************************************)
(* What a J++ program is and means, apart from any compiler: the tokens    *)
(* and the text that say a tree, and what one thread computes from it.     *)
(* The reference that the pipeline of Jpp is compared with.                *)
(***************************************************************************)
EXTENDS Parser, Coprocessor, SequencesExt

CONSTANTS WordSize, ByteSize, AddrSize, MMIO_TX, BlockId, BLOCK_DIM

-----------------------------------------------------------------------------
(* Writing: the operators of parser.rs bind < == loosest, then << >>, then  *)
(* + -, and * tightest; each level associates to the left.                  *)
Binding == [o \in Ops |-> CASE o \in {"<", "=="} -> 1 [] o \in {"<<", ">>"} -> 2
                            [] o \in {"+", "-"} -> 3 [] o = "*" -> 4]
Strength(e) == IF e.node \in Ops THEN Binding[e.node] ELSE 5

Kinds(kinds) == [i \in DOMAIN kinds |-> Token(kinds[i])]

RECURSIVE Bare(_)
\* The tokens of e where an operand of at least this strength is due.
Operands(e, strength) ==
  IF Strength(e) < strength THEN Kinds(<<"(">>) \o Bare(e) \o Kinds(<<")">>) ELSE Bare(e)

Bare(e) ==
  CASE e.node = "Number"   -> <<Num(e.num)>>
    [] e.node = "Variable" -> <<Ident(e.name)>>
    [] e.node \in Identity -> <<Ident(<<e.node>>)>>
    [] e.node = "mem"      -> <<Ident(<<"mem">>)>> \o Kinds(<<"[">>) \o Bare(e.args[1]) \o Kinds(<<"]">>)
    [] e.node = "max"      -> <<Ident(<<"max">>)>> \o Kinds(<<"(">>) \o Bare(e.args[1])
                                \o Kinds(<<",">>) \o Bare(e.args[2]) \o Kinds(<<")">>)
    [] e.node \in Ops      -> Operands(e.args[1], Binding[e.node]) \o Kinds(<<e.node>>)
                                \o Operands(e.args[2], Binding[e.node] + 1)

RECURSIVE Say(_)
SayAll(body) == FlattenSeq([i \in DOMAIN body |-> Say(body[i])])

Say(s) ==
  LET kw       == Kinds(<<s.stmt>>)
      e(i)     == Bare(s.exprs[i])
      name     == <<Ident(s.name)>>
      end      == Kinds(<<";">>)
      number   == <<Num(s.num)>>
      Brackets(open, tokens, close) == Kinds(<<open>>) \o tokens \o Kinds(<<close>>)
  IN CASE s.stmt = "manifest" -> kw \o name \o Kinds(<<"=">>) \o e(1) \o end
       [] s.stmt = "assign"   -> name \o Kinds(<<"=">>) \o e(1) \o end
       [] s.stmt = "store"    -> <<Ident(<<"mem">>)>> \o Brackets("[", e(1), "]") \o Kinds(<<"=">>) \o e(2) \o end
       [] s.stmt \in {"grind_until", "if"} -> kw \o Brackets("(", e(1), ")") \o Brackets("{", SayAll(s.body), "}")
       [] s.stmt = "yeet"     -> kw \o e(1) \o end
       [] s.stmt = "fc_mac"   -> kw \o e(1) \o Kinds(<<",">>) \o e(2) \o end
       [] s.stmt = "crunch_push" -> kw \o e(1) \o (IF Len(s.exprs) = 2 THEN Kinds(<<",">>) \o e(2) ELSE << >>) \o end
       [] s.stmt = "crunch_fire" -> kw \o name \o (IF s.num > 0 THEN Kinds(<<",">>) \o number ELSE << >>) \o end
       [] s.stmt = "fc_best"  -> kw \o name \o end
       [] s.stmt = "advance"  -> kw \o (IF s.num # 1 THEN number ELSE << >>) \o end
       [] s.stmt = "wbase"    -> kw \o number \o end
       [] s.stmt \in {"fc_reset", "fc_finalize"} -> kw \o end

\* The text of tokens: tight, with a blank between two words only; spaced, with
\* blanks everywhere; or with a comment after every semicolon.
Figures(n) ==
  LET upto[k \in 0 .. 5] == IF n < 10^k /\ k > 0 THEN << >> ELSE Append(upto[k + 1], Digits[1 + ((n \div 10^k) % 10)])
  IN upto[0]

Twice == [k \in {"<<", ">>", "=="} |-> CASE k = "<<" -> "<" [] k = ">>" -> ">" [] k = "==" -> "="]
Spelled(token) ==
  CASE token.kind = "Num"         -> Figures(token.num)
    [] token.kind = "Ident"       -> token.name
    [] token.kind \in DOMAIN Twice -> <<Twice[token.kind], Twice[token.kind]>>
    [] token.kind \notin {"Num", "Ident"} \cup DOMAIN Twice -> <<token.kind>>

Wordy(token) == token.kind \in {"Num", "Ident"} \cup Keywords

Gap(style, left, right) ==
  CASE style = "tight"     -> IF Wordy(left) /\ Wordy(right) THEN <<" ">> ELSE << >>
    [] style = "spaced"    -> <<" ">>
    [] style = "commented" -> IF left.kind = ";" THEN <<"/", "/", "x", ";", "/", "\n">> ELSE <<"\n">>

Text(tokens, style) ==
  FlattenSeq([i \in DOMAIN tokens |->
    Spelled(tokens[i]) \o (IF i < Len(tokens) THEN Gap(style, tokens[i], tokens[i + 1]) ELSE << >>)])

-----------------------------------------------------------------------------
(* Meaning: a thread's variables, memory, windows, output and its view of   *)
(* the shared units, before and after a statement.                          *)
Begin(tid, data) ==
  [tid |-> tid, vars |-> << >>, first |-> << >>, mem |-> data, base |-> 0, wbase |-> 0,
   out |-> << >>, unit |-> Cleared]

Mul(a, b) == (a * (b % 256) + 256 * ((a * (b \div 256)) % WordSize)) % WordSize

\* An operator, given the values v of its operands.
Value(e, m, v) ==
  CASE e.node = "Number"   -> e.num
    [] e.node = "Variable" -> m.vars[e.name]
    [] e.node = "tid"      -> m.tid
    [] e.node = "bid"      -> BlockId
    [] e.node = "bdim"     -> BLOCK_DIM
    [] e.node = "mem"      -> m.mem[(m.base + v[1]) % AddrSize]
    [] e.node = "max"      -> IF v[1] > v[2] THEN v[1] ELSE v[2]
    [] e.node = "+"        -> (v[1] + v[2]) % WordSize
    [] e.node = "-"        -> (v[1] - v[2]) % WordSize
    [] e.node = "*"        -> Mul(v[1], v[2])
    [] e.node = "<<"       -> (v[1] * 2^(v[2] % 16)) % WordSize
    [] e.node = ">>"       -> v[1] \div 2^(v[2] % 16)
    [] e.node = "<"        -> v[1] < v[2]
    [] e.node = "=="       -> v[1] = v[2]

RECURSIVE Eval(_, _)
Eval(e, m) == Value(e, m, [i \in DOMAIN e.args |-> Eval(e.args[i], m)])

Bind(m, x, v) == [m EXCEPT !.vars = [y \in DOMAIN @ \cup {x} |-> IF y = x THEN v ELSE @[y]]]

Stored(m, address, v) ==
  IF address = MMIO_TX THEN [m EXCEPT !.out = Append(@, v % ByteSize)]
  ELSE [m EXCEPT !.mem[(m.wbase + address) % AddrSize] = v % ByteSize]

RECURSIVE Does(_, _)
RECURSIVE While(_, _)
DoesAll(m, body) == FoldLeft(Does, m, body)
While(m, s) == IF Eval(s.exprs[1], m) THEN While(DoesAll(m, s.body), s) ELSE m

\* The weight of a crunch_push that names none is the variable declared first.
FirstVariable(m) == IF m.first = << >> THEN 0 ELSE m.vars[m.first]

Fetched(m, x, unit, byte) == [Bind(m, x, byte) EXCEPT !.unit = unit]

\* A statement, given the values v of its expressions; a loop looks at its
\* condition again.
Acts(m, s, v) ==
  CASE s.stmt = "manifest" ->
         [Bind(m, s.name, v[1]) EXCEPT !.first = IF @ = << >> THEN s.name ELSE @]
    [] s.stmt = "assign"      -> Bind(m, s.name, v[1])
    [] s.stmt = "store"       -> Stored(m, v[1], v[2])
    [] s.stmt = "yeet"        -> Stored(m, MMIO_TX, v[1])
    [] s.stmt = "if"          -> IF v[1] THEN DoesAll(m, s.body) ELSE m
    [] s.stmt = "grind_until" -> While(m, s)
    [] s.stmt = "crunch_push" ->
         [m EXCEPT !.unit = Macl(@, v[1], IF Len(v) = 2 THEN v[2] ELSE FirstVariable(m))]
    [] s.stmt = "crunch_fire" -> Fetched(m, s.name, Fired(m.unit), ByteOf(MacResult(m.unit), s.num))
    [] s.stmt = "fc_reset"    -> [m EXCEPT !.unit = FcReset(@)]
    [] s.stmt = "fc_mac"      -> [m EXCEPT !.unit = FcMac(@, v[1], v[2])]
    [] s.stmt = "fc_finalize" -> [m EXCEPT !.unit = FcFinalize(@)]
    [] s.stmt = "fc_best"     -> Fetched(m, s.name, m.unit, m.unit.best_idx)
    [] s.stmt = "advance"     -> [m EXCEPT !.base = (@ + s.num) % AddrSize]
    [] s.stmt = "wbase"       -> [m EXCEPT !.wbase = (@ + s.num) % AddrSize]

Does(m, s) == Acts(m, s, [i \in DOMAIN s.exprs |-> Eval(s.exprs[i], m)])

Meaning(tree, tid, data) == DoesAll(Begin(tid, data), tree)
=============================================================================
