------------------------------ MODULE Grammar -------------------------------
(***************************************************************************)
(* The language of docs/syntax-design.md, stated independently of the      *)
(* parser: a sentence is a record of its words (tokens) and of its tree,   *)
(* the sequence of its nodes in the order their last child is complete.    *)
(* Productions take sets of sentences to sets of sentences, so a bounded   *)
(* part of the language is the value of an ordinary expression.            *)
(***************************************************************************)
LOCAL INSTANCE Naturals
LOCAL INSTANCE Sequences
LOCAL INSTANCE SequencesExt

\* One word that builds nothing, and a node that has no word of its own.
W(type) == [words |-> <<[type |-> type, nl |-> FALSE]>>, tree |-> << >>]
N(kind) == [words |-> << >>, tree |-> <<kind>>]

\* The sentence made of parts, in order.
Phrase(parts) ==
  [words |-> FlattenSeq([i \in DOMAIN parts |-> parts[i].words]),
   tree  |-> FlattenSeq([i \in DOMAIN parts |-> parts[i].tree])]

\* The same sentence, starting on a new line.
OnNewLine(s) == [s EXCEPT !.words[1].nl = TRUE]

Upto(n, S) == {s \in S : Len(s.words) <= n}

Id == Phrase(<<N("Identifier"), W("id")>>)
Num == Phrase(<<N("Number"), W("num")>>)
True == Phrase(<<W("true"), N("Bool")>>)

\* Up to two items between commas; a comma may also end the list.
Lists(E) ==
  {Phrase(<< >>)} \cup E \cup {Phrase(<<e, W("comma")>>) : e \in E}
  \cup {Phrase(<<e, W("comma"), f>>) : e, f \in E}

Calls(E) ==
  {Phrase(<<Id, N("Begin"), W("lparen"), l, W("rparen"), N("CallExpr")>>) :
     l \in Lists(E)}

Indexes(E) ==
  {Phrase(<<Id, W("lbracket"), e, W("rbracket"), N("IndexAccess")>>) : e \in E}

Tensors(E) ==
  {Phrase(<<N("Begin"), W("lbracket"), l, W("rbracket"), N("Tensor")>>) :
     l \in Lists(E)}

Parens(E) == {Phrase(<<W("lparen"), e, W("rparen")>>) : e \in E}

Negs(V) == {Phrase(<<W("sub"), v, N("Neg")>>) : v \in V}

\* One binary operator between an operand of L and one of R, at most n words.
Binary(n, L, R, op, node) ==
  UNION {{Phrase(<<l, W(op), r, N(node)>>) : r \in Upto(n - 1 - Len(l.words), R)}
           : l \in L}

\* Left-associative chains of up to two operators of one precedence level.
\* Ops is a set of <<token, node>>.
Chains(n, V, Ops) ==
  LET Once(L) == UNION {Binary(n, L, V, o[1], o[2]) : o \in Ops}
  IN  V \cup Once(V) \cup Once(Once(V))

\* The expressions of at most n words whose values are V: the precedence
\* table, lowest level last.  Comparison does not associate.
Exprs(n, V) ==
  LET mul == Chains(n, V, {<<"mul", "Mul">>, <<"div", "Div">>})
      add == Chains(n, mul, {<<"add", "Add">>, <<"sub", "Sub">>})
  IN  add \cup Binary(n, add, add, "cmp", "Cmp")

\* Statements and what they are made of.
VarDecl(e) ==
  Phrase(<<N("Begin"), W("var"), N("Name"), W("id"), W("eq"), e, N("VarDecl")>>)
VarDecl2(e) ==
  Phrase(<<N("Begin"), W("var"), N("Name"), W("id"), W("comma"), N("Name"),
           W("id"), W("eq"), e, N("VarDecl")>>)
ExprStmt(e) == Phrase(<<e, N("ExprStmt")>>)
Return(e) == Phrase(<<N("Begin"), W("ret"), e, N("ReturnStmt")>>)
ReturnVoid == Phrase(<<N("Begin"), W("ret"), N("ReturnStmt")>>)
Yield(l) == Phrase(<<N("Begin"), W("yield"), l, N("YieldStmt")>>)

Block(stmts) ==
  Phrase(<<N("Begin"), W("lbrace")>> \o stmts \o <<W("rbrace"), N("BlockStmt")>>)

If(c, b) == Phrase(<<N("Begin"), W("if"), c, b, N("IfExpr")>>)
IfElse(c, b, d) ==
  Phrase(<<N("Begin"), W("if"), c, b, W("else"), d, N("IfExpr")>>)

RangeOf(a, b) == Phrase(<<a, W("dot"), W("dot"), b, N("RangeExpr")>>)
InitPair(e) == Phrase(<<N("Name"), W("id"), W("eq"), e>>)
For(r, inits, b) ==
  Phrase(<<N("Begin"), W("for"), N("Name"), W("id"), W("in"), r, inits, b,
           N("ForExpr")>>)
Inits(l) == Phrase(<<W("init"), W("lparen"), l, W("rparen")>>)

Type(dims) ==
  Phrase(<<N("Begin"), W("id"), W("lbracket"), dims, W("rbracket"), N("TypeDef")>>)
Dim == Phrase(<<N("Dim"), W("num")>>)
Param(t) == Phrase(<<N("Begin"), W("id"), W("colon"), t, N("Param")>>)
Func(params, type, body) ==
  Phrase(<<N("Begin"), W("func"), W("id"), W("lparen"), params, W("rparen"),
           W("arrow"), type, body, N("FuncDecl")>>)
Proc(params, body) ==
  Phrase(<<N("Begin"), W("func"), W("id"), W("lparen"), params, W("rparen"),
           body, N("FuncDecl")>>)

Program(funcs) == Phrase(<<N("Begin")>> \o funcs \o <<W("eof"), N("Root")>>)
=============================================================================
