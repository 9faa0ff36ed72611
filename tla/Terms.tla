------------------------------- MODULE Terms --------------------------------
(***************************************************************************)
(* Programs as terms, each with its type, stated independently of the walk *)
(* over the tree: a term is a record of its kind, names and subterms, of   *)
(* its type (type) and of whether it obeys the typing rules (ok).  What a  *)
(* block yields is its type.  A name is a term with the type it has where  *)
(* it stands; the builder of a term puts it only where it is in scope.     *)
(***************************************************************************)
EXTENDS Types, SequencesExt

Term(kind, names, kids, type, rule) ==
  [kind |-> kind, names |-> names, kids |-> kids, types |-> << >>, type |-> type,
   ok |-> rule /\ \A k \in DOMAIN kids : kids[k].ok]
TypesOf(terms) == [k \in DOMAIN terms |-> terms[k].type]

Integral == Term("int", << >>, << >>, Scalar("i64"), TRUE)
Float == Term("float", << >>, << >>, Scalar("f64"), TRUE)
True == Term("bool", << >>, << >>, Bool, TRUE)
Id(name, type) == Term("id", <<name>>, << >>, type, TRUE)
Undeclared(name) == Term("id", <<name>>, << >>, Unknown, FALSE)

Arith(a, b) == Term("arith", << >>, <<a, b>>, a.type, a.type = b.type)
Cmp(a, b) == Term("cmp", << >>, <<a, b>>, TensorOf("bool", a.type.shape), a.type = b.type)
Neg(a) == Term("neg", << >>, <<a>>, a.type, TRUE)
IndexOf(a, i) ==
  LET rule == IsTensor(a.type) /\ a.type.shape # << >> /\ i.type \in Ints IN
  Term("index", << >>, <<a, i>>,
       IF rule THEN TensorOf(a.type.elem, Tail(a.type.shape)) ELSE Unknown, rule)
Elems(terms) ==
  LET rule == terms # << >> /\ \A k \in DOMAIN terms : terms[k].type = terms[1].type IN
  Term("tensor", << >>, terms,
       IF rule THEN TensorOf(terms[1].type.elem, <<Len(terms)>> \o terms[1].type.shape)
       ELSE Unknown, rule)

\* Calls of a function whose arguments have types args.
Call(f, args, result, terms) ==
  Term("call", << >>, <<Id(f, FunctionType(args, result))>> \o terms, result,
       TypesOf(terms) = args)
Relu(a) == Term("call", << >>, <<Id("relu", Unknown), a>>, a.type,
                IsTensor(a.type) /\ a.type.elem # "bool")
Shown(terms) == Term("call", << >>, <<Id("print", Unknown)>> \o terms, Void, TRUE)

Var(names, e) ==
  LET types == IF e.type.con = "tuple" THEN e.type.parts ELSE <<e.type>> IN
  Term("var", names, <<e>>, Void,
       Len(types) = Len(names) /\ \A k \in DOMAIN types : types[k] # Void)
ExprStmt(e) == Term("expr_stmt", << >>, <<e>>, Void, TRUE)
Empty == Term("expr_stmt", << >>, << >>, Void, TRUE)
Return(terms, ret) ==
  Term("return", << >>, terms, Void, ret = IF terms = << >> THEN Void ELSE terms[1].type)
Yield(terms) == Term("yield", << >>, terms, TupleType(TypesOf(terms)), terms # << >>)
Block(stmts) ==
  LET ys == SelectSeq(stmts, LAMBDA s : s.kind = "yield") IN
  Term("block", << >>, stmts, IF ys = << >> THEN Void ELSE ys[1].type,
       \A k \in DOMAIN stmts : stmts[k].kind # "return")

If(c, b) == Term("if", << >>, <<c, b>>, Void, c.type = Bool /\ b.type = Void)
IfElse(c, b, d) ==
  Term("if", << >>, <<c, b, d>>, b.type, c.type = Bool /\ b.type = d.type)
RangeOf(a, b) ==
  Term("range", << >>, <<a, b>>, a.type, a.type = b.type /\ a.type \in Ints)
For(i, range, names, inits, b) ==
  LET type == IF inits = << >> THEN Void ELSE TupleType(TypesOf(inits)) IN
  Term("for", <<i>> \o names, <<range, b>> \o inits, type, b.type = type)

\* How a type is written; a parameter without one has the name "".
Written(t) ==
  [base |-> CASE IsTensor(t) -> t.elem [] t = Null -> "" [] OTHER -> t.con, dims |-> t.shape]

\* A function; types are those of its parameters and of its result.
Func(name, params, types, stmts) ==
  LET b == [Block(stmts) EXCEPT !.ok = \A k \in DOMAIN stmts : stmts[k].ok]
      ret == types[Len(types)]
      rule == /\ b.type = Void
              /\ ret # Void => \E k \in DOMAIN stmts : stmts[k].kind = "return"
              /\ \A k \in DOMAIN types : types[k] \notin {Null, Unknown}
              /\ \A k \in DOMAIN types : IsTensor(types[k]) => types[k].elem \in Elements
  IN  [Term("func", <<name>> \o params, <<b>>, Void, rule) EXCEPT !.types = [k \in DOMAIN types |-> Written(types[k])]]

-----------------------------------------------------------------------------
\* The nodes of a term, the last one its root, numbered from base + 1.
RECURSIVE Nodes(_, _)
Nodes(t, base) ==
  LET Add(acc, kid) ==
        LET nodes == acc.nodes \o Nodes(kid, base + Len(acc.nodes)) IN
        [nodes |-> nodes, roots |-> Append(acc.roots, base + Len(nodes))]
      kids == FoldLeft(Add, [nodes |-> << >>, roots |-> << >>], t.kids)
  IN  Append(kids.nodes,
             [kind |-> t.kind, names |-> t.names, kids |-> kids.roots, types |-> t.types])

\* The program of some functions, as Ast has it; typed if all obey the rules.
Program(funcs) ==
  LET Add(acc, f) ==
        LET nodes == acc.node \o Nodes(f, Len(acc.node)) IN
        [node |-> nodes, funcs |-> Append(acc.funcs, Len(nodes)), typed |-> acc.typed /\ f.ok]
  IN  FoldLeft(Add, [node |-> << >>, funcs |-> << >>, typed |-> TRUE], funcs)
=============================================================================
