------------------------------- MODULE Lexer --------------------------------
(***************************************************************************)
(* The scanner of src/lexer/lexer.cpp: one action for each branch of the   *)
(* loop in lexer::scan, which consumes a lexeme, a comment or an invalid   *)
(* character.                                                              *)
(*                                                                         *)
(* A text is a sequence of characters, each of which stands for its class: *)
(*   e f i o x  themselves; a the other letters; 0 the digits              *)
(*   n          line break; b other blanks                                 *)
(*   . : + - < > = ! / *  themselves; ( an operator that never joins the   *)
(*              next                                                       *)
(*   @          an invalid character                                       *)
(*   h1 h2      the head of a UTF-8 character with 1 or 2 more bytes       *)
(*   c          a byte that continues one                                  *)
(* Characters count from 1 here, so ptr is one more than in the code.      *)
(***************************************************************************)
EXTENDS Naturals, FiniteSets, SequencesExt

CONSTANTS
  Texts,       \* the files
  MaxInvalid   \* 10: with more invalid characters than this, scan stops

Letters == {"a", "e", "f", "i", "o", "x"}
Digits == {"0"}
Blanks == {"n", "b"}
High == {"h1", "h2", "c"}      \* bytes that are negative as a char
Single == {"("}
Signs == {"+", "-"}
Calc == Signs \cup {"=", "*", "!", "/", "<", ">"}
Chars == Letters \cup Digits \cup Blanks \cup High \cup Single \cup Calc \cup {".", ":", "@"}

ASSUME TextsAssumption == MaxInvalid \in Nat /\ \A t \in Texts : t \in Seq(Chars)

\* The words that are not identifiers; one of the keywords is here.
TypeTable ==
  {<<"i", "f">>, <<"(">>, <<".">>, <<":">>, <<":", ":">>, <<"+">>, <<"-">>, <<"*">>, <<"/">>,
   <<"=">>, <<"=", "=">>, <<"!", "=">>, <<"<">>, <<"<", "=">>, <<">">>, <<">", "=">>, <<"-", ">">>}

VARIABLES
  text,     \* res
  ptr, line, column,
  invalid,  \* invalid_char
  toks,     \* the tokens: type, where they begin (line, column) and, which the
            \* code does not keep, the characters they stand for (at .. upto)
  errs,     \* an error was reported
  done      \* scan has returned

vars == <<text, ptr, line, column, invalid, toks, errs, done>>

-----------------------------------------------------------------------------
Null == << >>
Type(str) == IF str \in TypeTable THEN str ELSE Null
IdType(str) == IF str \in TypeTable THEN str ELSE <<"id">>

Ch(k) == IF k <= Len(text) THEN text[k] ELSE "eof"
Word(from, next) == SubSeq(text, from, next - 1)

\* The first place from k on whose character is not in S.
Past(k, S) ==
  CHOOSE j \in k .. Len(text) + 1 : Ch(j) \notin S /\ \A m \in k .. j - 1 : text[m] \in S

Scanning == ~done /\ invalid <= MaxInvalid
At(S) == Scanning /\ Ch(ptr) \in S
IsNote == Ch(ptr) = "/" /\ Ch(ptr + 1) = "/"
IsComment == Ch(ptr) = "/" /\ Ch(ptr + 1) = "*"
IsArrow == Ch(ptr) \in {"-", "="} /\ Ch(ptr + 1) = ">"

\* A lexeme ends; n of its characters are invalid.
Count(bad, n) ==
  /\ invalid' = invalid + n
  /\ errs' = (errs \/ bad \/ n > 0)
  /\ UNCHANGED done

Token(type, next) ==
  [type |-> type, at |-> ptr, upto |-> next - 1, line |-> line, column |-> column]

\* A token from ptr up to next on this line.
Emit(type, next, columns, bad, n) ==
  /\ toks' = Append(toks, Token(type, next))
  /\ ptr' = next /\ column' = column + columns
  /\ Count(bad, n)
  /\ UNCHANGED <<text, line>>

Lexeme(type, next, bad) == Emit(type, next, next - ptr, bad, 0)
Skips(next) == ptr' = next /\ UNCHANGED <<text, toks>>

-----------------------------------------------------------------------------
SkipBlank ==
  /\ At(Blanks) /\ Skips(ptr + 1)
  /\ IF Ch(ptr) = "n" THEN line' = line + 1 /\ column' = 0
     ELSE column' = column + 1 /\ UNCHANGED line
  /\ UNCHANGED <<invalid, errs, done>>

\* The line break is left, which resets the column.
SkipNote ==
  /\ Scanning /\ IsNote /\ Skips(Past(ptr, Chars \ {"n"}))
  /\ Count(FALSE, 0) /\ UNCHANGED <<line, column>>

\* Fault: line breaks are not counted.
CommentLinesNone(from, to) == 0
CommentLines(from, to) == Cardinality({k \in from .. to : text[k] = "n"})

\* Where the comment ends; the column counts from the last line break, itself
\* included.
SkipMultiLineComment ==
  /\ Scanning /\ IsComment
  /\ LET ends == {k \in ptr + 2 .. Len(text) - 1 : text[k] = "*" /\ text[k + 1] = "/"}
         closed == ends # {}
         next == IF closed THEN (CHOOSE k \in ends : \A j \in ends : k <= j) + 2
                 ELSE Len(text) + 1
         breaks == {k \in ptr + 2 .. next - 1 : text[k] = "n"}
         last == CHOOSE k \in breaks : \A j \in breaks : j <= k
     IN  /\ Skips(next) /\ Count(~closed, 0)
         /\ line' = line + CommentLines(ptr, next - 1)
         /\ LET end == IF closed THEN next ELSE next - 1 IN
            column' = IF breaks = {} THEN column + (end - ptr) ELSE end - last

\* Continuation bytes that a head announces: utf8_hdchk.
Utf8Hdchk == [h1 |-> 1, h2 |-> 2, c |-> 0]
Announced(c) == IF c \in High THEN Utf8Hdchk[c] ELSE 0

\* Fault: a digit ends an identifier.
InWordLetters == Letters
InWord == Letters \cup Digits

\* The end of an identifier that goes on at p, the columns it takes, the bytes of
\* its name and the UTF-8 characters in it that are broken.  A byte that is not
\* a head is passed over; a head passes over as many bytes as it announces.
RestAt(rest, p) ==
  LET c == Ch(p)
      n == Announced(c)
      found == {k \in 1 .. n : Ch(p + k) = "c"}
      bytes == [k \in 1 .. Cardinality(found) |-> "c"]
      short == IF found = 1 .. n THEN 0 ELSE 1
      r == rest[p + 1 + n]
  IN  CASE c \in InWord ->
             [r EXCEPT !.columns = @ + 1, !.name = <<c>> \o @]
        [] c \in High /\ n = 0 -> [r EXCEPT !.columns = @ + 1]
        [] c \in High /\ n > 0 ->
             [r EXCEPT !.columns = @ + 2 + short, !.name = <<c>> \o bytes \o @,
                       !.broken = @ + short]
        [] OTHER -> [next |-> p, columns |-> 0, name |-> << >>, broken |-> 0]

Rest == LET rest[p \in 1 .. Len(text) + 3] == RestAt(rest, p) IN rest

IdGen ==
  /\ At(Letters \cup High)
  /\ LET r == Rest[ptr] IN Emit(IdType(r.name), r.next, r.columns, FALSE, r.broken)

\* Fault: a dot ends a number that has digits after it.
FractionNone(p) == p

\* A dot and digits that continue a number at p; a dot alone does not.
Fraction(p) ==
  IF Ch(p) = "." /\ Past(p + 1, Digits) > p + 1 THEN Past(p + 1, Digits) ELSE p

\* The e is the number's, even if no digits follow.  A number that ends in a
\* dot is returned before the exponent is looked at.
NumGen ==
  /\ At(Digits)
  /\ LET whole == Past(ptr, Digits)
         fraction == Fraction(whole)
         dot == Ch(whole) = "." /\ fraction = whole
         sign == IF Ch(fraction + 1) \in Signs THEN fraction + 2 ELSE fraction + 1
         exponent == Past(sign, Digits)
     IN  IF Ch(fraction) = "e" /\ ~dot THEN Lexeme(<<"num">>, exponent, exponent = sign)
         ELSE Lexeme(<<"num">>, fraction, FALSE)

\* => is taken for an arrow, and has no type.
ArrowGen == Scanning /\ IsArrow /\ Lexeme(Type(Word(ptr, ptr + 2)), ptr + 2, FALSE)

SingleOpr == At(Single) /\ Lexeme(Type(<<Ch(ptr)>>), ptr + 1, FALSE)

\* Three dots are one token, without a type.
Dots ==
  /\ At({"."})
  /\ LET next == IF Ch(ptr + 1) = "." /\ Ch(ptr + 2) = "." THEN ptr + 3 ELSE ptr + 1 IN
     Lexeme(Type(Word(ptr, next)), next, FALSE)

Colons ==
  /\ At({":"})
  /\ LET next == IF Ch(ptr + 1) = ":" THEN ptr + 2 ELSE ptr + 1 IN
     Lexeme(Type(Word(ptr, next)), next, FALSE)

\* Fault: an operator is one character.
CalcEndShort(p) == p + 1
CalcEnd(p) == IF Ch(p + 1) = "=" THEN p + 2 ELSE p + 1

CalcOpr ==
  /\ At(Calc) /\ ~IsNote /\ ~IsComment /\ ~IsArrow
  /\ LET next == CalcEnd(ptr)  type == Type(Word(ptr, next)) IN
     Lexeme(type, next, type = Null)

ErrChar ==
  /\ At({"@"}) /\ Skips(ptr + 1)
  /\ column' = column + 1 /\ Count(FALSE, 1) /\ UNCHANGED line

\* The file has ended, or has too many invalid characters, which is reported too.
\* The token for its end is where the last one is.
ScanEnd ==
  /\ ~done /\ (ptr > Len(text) \/ invalid > MaxInvalid)
  /\ toks' = Append(toks, IF toks = << >> THEN Token(<<"eof">>, ptr)
                          ELSE [Last(toks) EXCEPT !.type = <<"eof">>])
  /\ done' = TRUE /\ UNCHANGED <<text, ptr, line, column, invalid, errs>>

Init ==
  /\ text \in Texts
  /\ ptr = 1 /\ line = 1 /\ column = 0
  /\ invalid = 0 /\ toks = << >> /\ errs = FALSE /\ done = FALSE

Next ==
  \/ SkipBlank \/ SkipNote \/ SkipMultiLineComment \/ IdGen \/ NumGen \/ ArrowGen
  \/ SingleOpr \/ Dots \/ Colons \/ CalcOpr \/ ErrChar \/ ScanEnd

Spec == Init /\ [][Next]_vars

-----------------------------------------------------------------------------
\* The line breaks before k, and the last one.
Breaks(k) == {j \in 1 .. k - 1 : text[j] = "n"}
LineStart(k) == Max({0} \cup Breaks(k))

\* Between the line break and k is no character of several bytes, and no end of a
\* comment that began on a line above.
Plain(k) ==
  /\ \A j \in LineStart(k) + 1 .. k - 1 : text[j] \notin High
  /\ \/ \A j \in LineStart(k) + 1 .. k - 1 : ~(text[j] = "*" /\ Ch(j + 1) = "/")
     \/ \A j \in 1 .. LineStart(k) : ~(text[j] = "/" /\ Ch(j + 1) = "*")

\* A token without an error before it is on the line it says, which the parser
\* reads to end statements; and in the column, if what stands before it on the line
\* is plain.
Positions ==
  ~errs => \A k \in DOMAIN toks :
    LET t == toks[k] IN
    /\ t.line = Cardinality(Breaks(t.at)) + 1
    /\ Plain(t.at) /\ t.type # <<"eof">> => t.column = t.at - LineStart(t.at) - 1
=============================================================================
