------------------------------ MODULE Lexicon -------------------------------
(***************************************************************************)
(* The lexical grammar, as predicates on strings that know nothing of the  *)
(* branches of Lexer: lexemes, of which the longest is taken at every      *)
(* place.                                                                  *)
(***************************************************************************)
EXTENDS Lexer

-----------------------------------------------------------------------------
(* Lexemes: the words and comments of docs/syntax-design.md, the operators *)
(* of type_table and the numbers of the comment in num_gen, which are      *)
(* decimal.                                                                *)

Every(s, S) == \A k \in DOMAIN s : s[k] \in S
Part(s, j, k) == SubSeq(s, j, k)

\* A character of more than one byte is a letter.
IsWord(s) ==
  /\ s # << >>
  /\ \A k \in DOMAIN s :
       \/ s[k] \in Letters
       \/ k > 1 /\ s[k] \in Digits
       \/ s[k] = "h1" /\ k < Len(s) /\ s[k + 1] = "c"
       \/ s[k] = "h2" /\ k + 1 < Len(s) /\ s[k + 1] = "c" /\ s[k + 2] = "c"
       \/ s[k] = "c" /\ k > 1 /\ (s[k - 1] \in {"h1", "h2"} \/ (k > 2 /\ s[k - 2] = "h2"))
IsDigits(s) == s # << >> /\ Every(s, Digits)
IsDecimal(s) ==
  IsDigits(s) \/ \E k \in DOMAIN s : s[k] = "." /\ IsDigits(Part(s, 1, k - 1))
                                     /\ IsDigits(Part(s, k + 1, Len(s)))
IsExponent(s) == IsDigits(s) \/ (s # << >> /\ s[1] \in Signs /\ IsDigits(Part(s, 2, Len(s))))
IsNumber(s) ==
  IsDecimal(s) \/ \E k \in DOMAIN s : s[k] = "e" /\ IsDecimal(Part(s, 1, k - 1))
                                      /\ IsExponent(Part(s, k + 1, Len(s)))

\* The literals that docs/syntax-design.md:61-66 has and the scanner has not:
\* hexadecimal and octal.
IsPrefixed(s) ==
  /\ Len(s) > 2 /\ s[1] = "0"
  /\ \/ s[2] = "x" /\ Every(Part(s, 3, Len(s)), Digits \cup {"e", "f"})
     \/ s[2] = "o" /\ Every(Part(s, 3, Len(s)), Digits)

IsLine(s) == Len(s) >= 2 /\ s[1] = "/" /\ s[2] = "/" /\ Every(s, Chars \ {"n"})
Stars(s) == {k \in 3 .. Len(s) - 1 : s[k] = "*" /\ s[k + 1] = "/"}
IsBlock(s) == Len(s) >= 4 /\ s[1] = "/" /\ s[2] = "*" /\ Stars(s) = {Len(s) - 1}
IsSpace(s) == Len(s) = 1 /\ s[1] \in Blanks

Lexical(s) == IsWord(s) \/ IsNumber(s) \/ s \in TypeTable
Skipped(s) == IsSpace(s) \/ IsLine(s) \/ IsBlock(s)

KindOf(s) == IF s \in TypeTable THEN s ELSE IF IsNumber(s) THEN <<"num">> ELSE <<"id">>

\* Where a lexeme, a comment or a blank that begins at p may end.
Ends(p) == {q \in p .. Len(text) : Lexical(Part(text, p, q)) \/ Skipped(Part(text, p, q))}
Longest(p) == CHOOSE q \in Ends(p) : \A r \in Ends(p) : r <= q

\* The tokens from p on, by longest match; the last one is <<"none">> if there is
\* a place at which nothing matches.
TokensAt(tokens, p) ==
  LET q == Longest(p)  s == Part(text, p, q) IN
  IF p > Len(text) THEN << >>
  ELSE IF Ends(p) = {} THEN <<[type |-> <<"none">>, at |-> p, upto |-> p]>>
  ELSE (IF Skipped(s) THEN << >> ELSE <<[type |-> KindOf(s), at |-> p, upto |-> q]>>) \o tokens[q + 1]

TokensFrom == LET tokens[p \in 1 .. Len(text) + 1] == TokensAt(tokens, p) IN tokens
Reference == TokensFrom[1]

Found == [k \in 1 .. Len(toks) - 1 |->
            [type |-> toks[k].type, at |-> toks[k].at, upto |-> toks[k].upto]]

\* A byte that continues a character, where no character is.
Stray ==
  \E k \in DOMAIN text :
    /\ text[k] = "c"
    /\ ~(k > 1 /\ text[k - 1] \in {"h1", "h2"})
    /\ ~(k > 2 /\ text[k - 1] = "c" /\ text[k - 2] = "h2")

-----------------------------------------------------------------------------
\* A text that is scanned without an error and without a token that has no type
\* becomes the tokens of its lexemes, the longest one at every place, whatever
\* blanks and comments are between them.
MaximalMunch ==
  done /\ ~errs /\ ~Stray /\ (\A k \in DOMAIN toks : toks[k].type # Null) => Found = Reference

\* Where what stands between blanks begins.
Bare == {k \in 1 .. Len(text) + 1 : Ch(k) \notin Blanks /\ (k = 1 \/ Ch(k - 1) \in Blanks)}
Separated == \A k \in Bare : k > Len(text) \/ Lexical(Word(k, Past(k, Chars \ Blanks)))

\* No error is reported on lexemes that blanks separate.
AcceptsLexemes == done /\ Separated => ~errs

\* A hexadecimal or octal literal of docs/syntax-design.md:61-66 is not one token: num_gen
\* ends after its 0, the rest becomes (the beginning of) an identifier, and
\* nothing is reported.
PrefixesSplit ==
  /\ \A k \in DOMAIN toks : \A q \in DOMAIN text :
       toks[k].type = <<"num">> /\ IsPrefixed(Part(text, toks[k].at, q)) =>
         /\ toks[k].upto = toks[k].at
         /\ k < Len(toks) => /\ toks[k + 1].type = <<"id">>
                             /\ toks[k + 1].at = toks[k].at + 1 /\ toks[k + 1].upto >= q
  /\ IsPrefixed(text) => ~errs
=============================================================================
