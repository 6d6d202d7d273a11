------------------------------- MODULE Parser -------------------------------
(***************************************************************************)
(* software/src/parser.rs: recursive descent from tokens to the tree of    *)
(* ast.rs.  Every parse_* function but the expression levels consumes a    *)
(* fixed row of tokens, names, numbers, expressions and bodies: the rows   *)
(* are Shape, and Row is the consuming.                                    *)
(***************************************************************************)
EXTENDS Lexer

-----------------------------------------------------------------------------
(* ast.rs.  An expression is a node with its subexpressions, a statement is *)
(* its keyword with the parts its kind has.                                 *)
Expr(node, args)  == [node |-> node, name |-> << >>, num |-> 0, args |-> args]
Number(n)         == [Expr("Number", << >>) EXCEPT !.num = n]
Variable(x)       == [Expr("Variable", << >>) EXCEPT !.name = x]
Identity          == {"tid", "bid", "bdim"}

\* Mutant: shifts bind tighter than sums.
LevelsSwapped == <<{"<", "=="}, {"+", "-"}, {"<<", ">>"}, {"*"}>>

\* The operators from the loosest to the tightest level.
Levels == <<{"<", "=="}, {"<<", ">>"}, {"+", "-"}, {"*"}>>
Ops    == UNION {Levels[i] : i \in DOMAIN Levels}

NoParts == [name |-> << >>, num |-> 0, exprs |-> << >>, body |-> << >>]
Join(a, b) == [name |-> a.name \o b.name, num |-> a.num + b.num,
               exprs |-> a.exprs \o b.exprs, body |-> a.body \o b.body]
Stmt(kind, parts) == [stmt |-> kind, name |-> parts.name, num |-> parts.num,
                      exprs |-> parts.exprs, body |-> parts.body]

-----------------------------------------------------------------------------
(* A parse is what was built and the position of the next token, or failed. *)
Built(tree, at) == [ok |-> TRUE, tree |-> tree, at |-> at]
Failed          == [ok |-> FALSE, tree |-> NoParts, at |-> 0]

KindAt(toks, p) == IF p <= Len(toks) THEN toks[p].kind ELSE "end"     \* peek
IsWord(toks, p, word) == p <= Len(toks) /\ toks[p] = Ident(<<word>>)

RECURSIVE Level(_, _, _)
RECURSIVE Row(_, _, _)
RECURSIVE Body(_, _, _)

\* An operand, or a parenthesised expression, max(a, b) or mem[i] as a row.
Operand(toks, p) ==
  LET Wrapped(node, row) ==
        LET r == Row(toks, p, row)
        IN IF r.ok THEN Built(IF node = "()" THEN r.tree.exprs[1] ELSE Expr(node, r.tree.exprs), r.at)
           ELSE Failed
  IN CASE KindAt(toks, p) = "(" -> Wrapped("()", <<"(", "Expr", ")">>)
       [] KindAt(toks, p) = "Num" -> Built(Number(toks[p].num), p + 1)
       [] \E id \in Identity : IsWord(toks, p, id) -> Built(Expr(toks[p].name[1], << >>), p + 1)
       [] IsWord(toks, p, "max") /\ KindAt(toks, p + 1) = "(" ->
            Wrapped("max", <<"skip", "(", "Expr", ",", "Expr", ")">>)
       [] IsWord(toks, p, "mem") /\ KindAt(toks, p + 1) = "[" ->
            Wrapped("mem", <<"skip", "[", "Expr", "]">>)
       [] KindAt(toks, p) = "Ident" /\ \A id \in Identity : ~IsWord(toks, p, id)
          /\ ~(IsWord(toks, p, "max") /\ KindAt(toks, p + 1) = "(")
          /\ ~(IsWord(toks, p, "mem") /\ KindAt(toks, p + 1) = "[") ->
            Built(Variable(toks[p].name), p + 1)
       [] OTHER -> Failed

\* While an operator of this level follows, take it and its right operand.
RECURSIVE LeftAssociated(_, _, _)
LeftAssociated(toks, left, level) ==
  IF left.ok /\ KindAt(toks, left.at) \in Levels[level]
  THEN LET right == Level(toks, left.at + 1, level + 1)
       IN IF right.ok
          THEN LeftAssociated(toks, Built(Expr(KindAt(toks, left.at), <<left.tree, right.tree>>), right.at), level)
          ELSE Failed
  ELSE left

\* parse_comparison, parse_shift, parse_additive, parse_multiplicative: each
\* calls the next level for its operands.
Level(toks, p, level) ==
  IF level > Len(Levels) THEN Operand(toks, p)
  ELSE LeftAssociated(toks, Level(toks, p, level + 1), level)

Expression(toks, p) == Level(toks, p, 1)

-----------------------------------------------------------------------------
\* One item of a row: the parts it contributes.
Item(toks, p, item) ==
  LET kind == KindAt(toks, p)
      One(parse) == IF parse.ok THEN Built([NoParts EXCEPT !.exprs = <<parse.tree>>], parse.at) ELSE Failed
      Numeral    == Built([NoParts EXCEPT !.num = toks[p].num], p + 1)
  IN CASE item = "skip"  -> Built(NoParts, p + 1)
       [] item = "Expr"  -> One(Expression(toks, p))
       [] item = "Ident" -> IF kind = "Ident" THEN Built([NoParts EXCEPT !.name = toks[p].name], p + 1) ELSE Failed
       [] item = "Num"   -> IF kind = "Num" THEN Numeral ELSE Failed
       [] item = "Body"  -> Body(toks, p, << >>)
       \* the optional tails: a weight, a byte 0..3, a count (1 by default)
       [] item = ", Expr" -> IF kind = "," THEN One(Expression(toks, p + 1)) ELSE Built(NoParts, p)
       [] item = ", Byte" -> IF kind # "," THEN Built(NoParts, p)
                             ELSE IF KindAt(toks, p + 1) = "Num" /\ toks[p + 1].num <= 3
                             THEN Built([NoParts EXCEPT !.num = toks[p + 1].num], p + 2) ELSE Failed
       [] item = "Count" -> IF kind = "Num" THEN Numeral ELSE Built([NoParts EXCEPT !.num = 1], p)
       [] OTHER          -> IF kind = item THEN Built(NoParts, p + 1) ELSE Failed    \* consume

Row(toks, p, row) ==
  IF row = << >> THEN Built(NoParts, p)
  ELSE LET first == Item(toks, p, Head(row))
           rest  == Row(toks, first.at, Tail(row))
       IN IF first.ok /\ rest.ok THEN Built(Join(first.tree, rest.tree), rest.at) ELSE Failed

\* What the parse function of each statement consumes, and the default:
\* assignment, where `mem` starts a store.
Block == <<"(", "Expr", ")", "{", "Body", "}">>
Shape ==
  [manifest    |-> <<"manifest", "Ident", "=", "Expr", ";">>,
   yeet        |-> <<"yeet", "Expr", ";">>,
   grind_until |-> <<"grind_until">> \o Block,
   if          |-> <<"if">> \o Block,
   crunch_push |-> <<"crunch_push", "Expr", ", Expr", ";">>,
   crunch_fire |-> <<"crunch_fire", "Ident", ", Byte", ";">>,
   fc_reset    |-> <<"fc_reset", ";">>,
   fc_finalize |-> <<"fc_finalize", ";">>,
   advance     |-> <<"advance", "Count", ";">>,
   wbase       |-> <<"wbase", "Num", ";">>,
   fc_mac      |-> <<"fc_mac", "Expr", ",", "Expr", ";">>,
   fc_best     |-> <<"fc_best", "Ident", ";">>,
   store       |-> <<"skip", "[", "Expr", "]", "=", "Expr", ";">>,
   assign      |-> <<"Ident", "=", "Expr", ";">>]

Statement(toks, p) ==
  LET kind == IF KindAt(toks, p) \in Keywords THEN KindAt(toks, p)
              ELSE IF IsWord(toks, p, "mem") THEN "store" ELSE "assign"
      row  == Row(toks, p, Shape[kind])
  IN IF row.ok THEN Built(Stmt(kind, row.tree), row.at) ELSE Failed

\* Statements up to the brace that closes the body; at the end of the tokens
\* parse_statement fails.
Body(toks, p, before) ==
  IF KindAt(toks, p) = "}" THEN Built([NoParts EXCEPT !.body = before], p)
  ELSE LET s == Statement(toks, p)
       IN IF s.ok THEN Body(toks, s.at, Append(before, s.tree)) ELSE Failed

RECURSIVE ParseFrom(_, _, _)
ParseFrom(toks, p, before) ==
  IF p > Len(toks) THEN Built(before, p)
  ELSE LET s == Statement(toks, p)
       IN IF s.ok THEN ParseFrom(toks, s.at, Append(before, s.tree)) ELSE Failed

ParseProgram(toks) == ParseFrom(toks, 1, << >>)
=============================================================================
