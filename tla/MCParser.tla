------------------------------ MODULE MCParser ------------------------------
(***************************************************************************)
(* Streams for the parser, of two kinds.                                   *)
(*                                                                         *)
(* Every string of up to MaxWords tokens of an alphabet in the place of an *)
(* expression: for id in <string> .. num { }.  The two dots end the        *)
(* expression, so the program is a sentence iff the string is one.  Two    *)
(* alphabets, because a(b * c) needs operators and a(b,) needs commas but  *)
(* the strings over everything would be too many.                          *)
(*                                                                         *)
(* Whole programs: sentences of the grammar that use every statement and   *)
(* declaration, and every program one edit away from them (a token lost,   *)
(* a token replaced or inserted, a line break added or removed, the file   *)
(* cut short), on which the parser has to recover.                         *)
(***************************************************************************)
EXTENDS Parser

CONSTANTS
  MaxWords, Operators, Brackets,
  Edits  \* the tokens an edit may put in

G == INSTANCE Grammar
LOCAL INSTANCE SequencesExt

-----------------------------------------------------------------------------
(* Expressions. *)

\* Values nested up to twice, ((a)), enough for MaxWords = 5.
Values0 == {G!Id} \cup G!Calls({}) \cup G!Tensors({})
Nest(E) ==
  LET V == G!Upto(MaxWords,
             Values0 \cup G!Parens(E) \cup G!Calls(G!Upto(MaxWords - 3, E))
             \cup G!Indexes(G!Upto(MaxWords - 3, E))
             \cup G!Tensors(G!Upto(MaxWords - 2, E)))
      U == G!Upto(MaxWords, V \cup G!Negs(V))
      U2 == G!Upto(MaxWords, U \cup G!Negs(U))
      U3 == G!Upto(MaxWords, U2 \cup G!Negs(U2))
  IN  G!Exprs(MaxWords, G!Upto(MaxWords, U3 \cup G!Negs(U3)))

Expressions == Nest(Nest(Nest({})))

Around(e) ==
  G!Program(<<G!Proc(G!Phrase(<< >>),
                G!Block(<<G!ExprStmt(
                  G!For(G!RangeOf(e, G!Num), G!Phrase(<< >>), G!Block(<< >>)))>>))>>)

\* A string has no tree; only its words are used.
AsWords(w) == [words |-> [i \in DOMAIN w |-> [type |-> w[i], nl |-> FALSE]],
               tree |-> << >>]
Strings(n, A) == UNION {[1 .. k -> A] : k \in 0 .. n}
Strung ==
  {Around(AsWords(w)).words :
     w \in Strings(MaxWords, Operators) \cup Strings(MaxWords - 1, Brackets)}

-----------------------------------------------------------------------------
(* Programs. *)

None == G!Phrase(<< >>)
Two(a, b) == G!Phrase(<<a, G!W("comma"), b>>)
Call == G!Phrase(<<G!Id, G!N("Begin"), G!W("lparen"), G!Num, G!W("rparen"), G!N("CallExpr")>>)
Sum == G!Phrase(<<G!Id, G!W("add"), G!Num, G!N("Add")>>)
Quotient == G!Phrase(<<G!Num, G!W("div"), G!Id, G!N("Div")>>)
Semi == G!W("semi")

\* A brace-less branch is a block of one statement.
Bare(stmt) == G!Phrase(<<G!N("Begin"), stmt, G!N("BlockStmt")>>)

IfValue == G!IfElse(G!Id, G!Block(<<G!Yield(G!Num)>>), G!Block(<<G!Yield(G!Id)>>))
ElseIf ==
  G!IfElse(G!Id, G!Block(<< >>),
           Bare(G!ExprStmt(G!IfElse(G!Num, Bare(G!ExprStmt(Call)), G!Block(<< >>)))))
Loop ==
  G!For(G!RangeOf(Quotient, Sum),
        G!Inits(Two(G!InitPair(G!Num), G!InitPair(Call))),
        G!Block(<<G!Yield(Two(G!Id, Sum))>>))

Bodies ==
  {<< >>,
   <<G!VarDecl2(Loop), G!ExprStmt(Call)>>,
   <<G!OnNewLine(G!VarDecl(IfValue)), Semi, G!OnNewLine(G!Return(G!Id))>>,
   <<G!ReturnVoid, G!OnNewLine(G!ExprStmt(Call))>>,
   <<G!ReturnVoid, Semi, Semi, G!ExprStmt(Call)>>,
   <<G!Yield(Sum), G!OnNewLine(G!VarDecl(G!True))>>,
   <<G!ExprStmt(ElseIf)>>}

Params == {None, Two(G!Param(G!Type(G!Dim)), G!Param(G!Type(Two(G!Dim, G!Dim))))}

Complete ==
  {G!Program(<<G!Proc(None, G!Block(b))>>) : b \in Bodies}
  \cup {G!Program(<<G!Func(p, G!Type(None), G!Block(<<G!Return(G!Num)>>)),
                    G!Proc(None, G!Block(<< >>))>>) : p \in Params}

Eof == [type |-> "eof", nl |-> FALSE]
Body(s) == SubSeq(s, 1, Len(s) - 1)  \* without eof

OneEdit(s) ==
  LET b == Body(s) IN
  UNION {{RemoveAt(b, i), [b EXCEPT ![i].nl = ~@], SubSeq(b, 1, i)}
         \cup {[b EXCEPT ![i].type = t] : t \in Edits}
         \cup {InsertAt(b, i, [type |-> t, nl |-> FALSE]) : t \in Edits}
           : i \in DOMAIN b}

Edited == {Append(b, Eof) : b \in UNION {OneEdit(s.words) : s \in Complete}}

MCSentences == {Around(e) : e \in Expressions} \cup Complete
MCStreams == Strung \cup {s.words : s \in Complete} \cup Edited

-----------------------------------------------------------------------------
\* What is not in the language is reported: no stray token is dropped or
\* absorbed without an error (parser.cpp).  Of the edited programs nobody lists
\* those that are in the language.
OnlySentencesParse ==
  Done /\ errs = 0 => tokens \in Programs \cup Edited
=============================================================================
