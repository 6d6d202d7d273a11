-------------------------------- MODULE Lexer --------------------------------
(***************************************************************************)
(* software/src/lexer.rs: from the text of a J++ program to its tokens.    *)
(*                                                                         *)
(* A text is a sequence of characters.  A run of letters, which the lexer  *)
(* never takes apart, counts as one character; digits are single, so a     *)
(* name may mix both and a number may be followed by letters.              *)
(***************************************************************************)
EXTENDS Naturals, Sequences

CONSTANT NumLimit  \* the first number read_number's u16 does not hold: 2^16

Blank    == {" ", "\n"}
Singles  == {";", "(", ")", "{", "}", "[", "]", ",", "+", "-", "*"}
Digits   == <<"0", "1", "2", "3", "4", "5", "6", "7", "8", "9">>
IsDigit(ch) == \E i \in DOMAIN Digits : Digits[i] = ch
Keywords == {"manifest", "grind_until", "yeet", "crunch_push", "crunch_fire", "fc_reset",
             "fc_mac", "fc_finalize", "fc_best", "advance", "wbase", "if"}
Words    == Keywords \cup {"JoseIgnacioYeet", "tid", "bid", "bdim", "mem", "max", "x", "y", "z"}

\* Tokens of one kind differ in their name (Ident) or their number (Num) only.
Token(kind)  == [kind |-> kind, name |-> << >>, num |-> 0]
Ident(name)  == [Token("Ident") EXCEPT !.name = name]
Num(n)       == [Token("Num") EXCEPT !.num = n]

CharAt(text, p) == IF p <= Len(text) THEN text[p] ELSE "end"

\* The position after the characters that satisfy Part, from p on.
RunEnd(text, p, Part(_)) ==
  CHOOSE q \in p .. Len(text) + 1 :
    /\ \A r \in p .. q - 1 : Part(text[r])
    /\ q <= Len(text) => ~Part(text[q])

\* Mutant: a comment runs to the end of the text.
CommentToEnd(text, p) == Len(text) + 1

CommentEnd(text, p) == RunEnd(text, p, LAMBDA c : c # "\n")

\* read_number's digits as a decimal number.
Decimal(digits) ==
  LET upto[i \in 0 .. Len(digits)] ==
        IF i = 0 THEN 0
        ELSE 10 * upto[i - 1] + (CHOOSE d \in 0 .. 9 : Digits[d + 1] = digits[i])
  IN upto[Len(digits)]

NumberToken(digits) == IF Decimal(digits) < NumLimit THEN Num(Decimal(digits)) ELSE Token("error")

WordToken(word) ==
  CASE word \in {<<k>> : k \in Keywords} -> Token(word[1])
    [] word = <<"JoseIgnacioYeet">>      -> Token("yeet")
    [] OTHER                             -> Ident(word)

\* What tokenize does with the character at p: the tokens it pushes (none or
\* one) and where it goes on.  An error is a token too, and the last one.
LexemeAt(text, p) ==
  LET ch == text[p]
      twin == CharAt(text, p + 1) = ch
      Take(tokens, next) == [tokens |-> tokens, next |-> next]
      digitsEnd == RunEnd(text, p, IsDigit)
      wordEnd   == RunEnd(text, p, LAMBDA c : c \in Words \/ IsDigit(c))
  IN CASE ch \in Blank                     -> Take(<< >>, p + 1)
       [] ch \in Singles                   -> Take(<<Token(ch)>>, p + 1)
       [] ch \in {"<", ">", "="} /\ twin   -> Take(<<Token(ch \o ch)>>, p + 2)
       [] ch \in {"<", "="} /\ ~twin       -> Take(<<Token(ch)>>, p + 1)
       [] ch = "/" /\ twin                 -> Take(<< >>, CommentEnd(text, p))
       [] ch \in Words                     -> Take(<<WordToken(SubSeq(text, p, wordEnd - 1))>>, wordEnd)
       [] IsDigit(ch)                      -> Take(<<NumberToken(SubSeq(text, p, digitsEnd - 1))>>, digitsEnd)
       [] OTHER                            -> Take(<<Token("error")>>, Len(text) + 1)

\* One round of tokenize's loop: the tokens so far and the text that is left.
Tokenized(tokens, text) ==
  LET lexeme == LexemeAt(text, 1)
  IN [error  |-> lexeme.tokens = <<Token("error")>>,
      tokens |-> tokens \o lexeme.tokens,
      rest   |-> SubSeq(text, lexeme.next, Len(text))]
=============================================================================
