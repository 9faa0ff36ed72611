----------------------------- MODULE MCFrontend -----------------------------
(***************************************************************************)
(* Programs for Frontend: a function f(x: i64, b: bool, t: f64[2]) with a  *)
(* few statements and an expression in every place that can hold one, and  *)
(* a function g it may call.                                               *)
(***************************************************************************)
EXTENDS Frontend

T == INSTANCE Terms

i64 == Scalar("i64")
f64x2 == TensorOf("f64", <<2>>)
i64x2 == TensorOf("i64", <<2>>)

x == T!Id("x", i64)
b == T!Id("b", Bool)
t == T!Id("t", f64x2)
i == T!Id("i", i64)       \* the iterator of a loop
a == T!Id("a", i64)       \* what it carries
Simple == {x, b, t, T!Undeclared("u"), T!Integral, T!Float, T!True}

CallG(terms) == T!Call("g", <<i64>>, i64, terms)

\* An expression made of two members of A.
Compound(A) ==
  {T!Arith(p, q) : p, q \in A} \cup {T!Cmp(p, q) : p, q \in A}
  \cup {T!Neg(p) : p \in A} \cup {T!IndexOf(p, q) : p \in {x, t}, q \in A}
  \cup {CallG(<<p>>) : p \in A} \cup {T!Relu(p) : p \in A}
  \cup {T!Elems(<<p, q>>) : p, q \in A} \cup {T!Elems(<<p>>) : p \in A}
  \cup {CallG(<< >>), CallG(<<x, x>>), T!Elems(<< >>), T!Neg(T!Arith(x, x)),
        T!IndexOf(T!IndexOf(t, x), x), T!Elems(<<T!Elems(<<x, x>>), T!Elems(<<x, x>>)>>)}
Values ==
  Simple \cup Compound(Simple)
  \cup Compound({T!Arith(x, x), T!Cmp(x, x), T!Neg(t), T!Relu(t), T!IndexOf(t, x), CallG(<<x>>)})

\* What may be done with an iterator: an operation that converts it.
IteratorUses ==
  UNION {{T!Arith(i, p), T!Arith(p, i), T!Cmp(i, p), T!Cmp(p, i)} : p \in Simple}
  \cup {T!Neg(i), CallG(<<i>>), T!Relu(i), T!IndexOf(t, i), T!IndexOf(b, i), a, T!Arith(a, i)}

Show(p) == T!ExprStmt(T!Shown(<<p>>))
V(type) == T!Id("v", type)
Counted(names, inits, stmts) ==
  T!For("i", T!RangeOf(T!Integral, x), names, inits, T!Block(stmts))
Choice(p, q) == T!IfElse(b, T!Block(<<T!Yield(<<p>>)>>), T!Block(<<T!Yield(<<q>>)>>))

FTypes == <<i64, Bool, f64x2>>
F(ret, stmts) == T!Func("f", <<"x", "b", "t">>, FTypes \o <<ret>>, stmts)
G1 == T!Func("g", <<"y">>, <<i64, i64>>, <<T!Return(<<T!Id("y", i64)>>, i64)>>)
Main(stmts) == T!Program(<<F(Void, stmts), G1>>)
MainFor(names, inits, stmts) == Main(<<T!ExprStmt(Counted(names, inits, stmts))>>)

\* An expression e in every place.
Around(e) ==
  {Main(<<T!Var(<<"v">>, e), Show(V(e.type))>>),
   T!Program(<<G1, F(i64, <<T!Return(<<e>>, i64)>>)>>),
   Main(<<T!ExprStmt(T!If(e, T!Block(<<Show(e), T!Empty>>))),
          T!ExprStmt(T!IfElse(b, T!Block(<< >>), T!Block(<<T!ExprStmt(T!If(e, T!Block(<< >>)))>>))),
          T!Return(<< >>, Void)>>),
   Main(<<T!Var(<<"v">>, Choice(e, x)), Show(V(i64))>>),
   Main(<<T!Var(<<"v", "w">>, T!IfElse(e, T!Block(<<T!Yield(<<x, t>>)>>),
                                          T!Block(<<T!Yield(<<e, t>>)>>)))>>),
   Main(<<T!Var(<<"v">>, T!For("i", T!RangeOf(T!Integral, e), <<"a">>, <<x>>,
                               T!Block(<<T!Yield(<<a>>)>>)))>>),
   Main(<<T!Var(<<"v", "w">>, Counted(<<"a", "c">>, <<e, t>>, <<T!Yield(<<x, t>>)>>)),
          Show(T!Id("w", f64x2))>>),
   Main(<<T!Var(<<"v">>, e),
          T!Block(<<T!Var(<<"v">>, T!Float), Show(T!Arith(V(Scalar("f64")), T!Float))>>),
          Show(T!Arith(V(e.type), x))>>),
   Main(<<T!Block(<<T!Var(<<"v">>, e)>>), Show(T!Undeclared("v"))>>)}

\* A use e of the iterator, or of what is carried, in the body of a loop.
AroundIterator(e) ==
  LET c == T!Id("c", e.type) IN
  {MainFor(<<"a">>, <<x>>, <<T!Yield(<<e>>)>>),
   MainFor(<<"a">>, <<x>>, <<T!Var(<<"w">>, e), Show(T!Id("w", e.type)), T!Yield(<<a>>)>>),
   MainFor(<<"a">>, <<x>>,
           <<T!Var(<<"c">>, T!For("j", T!RangeOf(i, x), <<"c">>, <<e>>, T!Block(<<T!Yield(<<c>>)>>))),
             T!Yield(<<c>>)>>),
   MainFor(<<"a">>, <<x>>,
           <<T!Var(<<"c">>, T!IfElse(T!Cmp(i, x), T!Block(<<T!Yield(<<e>>)>>),
                                                  T!Block(<<T!Yield(<<a>>)>>))),
             T!Yield(<<c>>)>>),
   MainFor(<<"a">>, <<x>>,
           <<T!ExprStmt(T!For("j", T!RangeOf(x, i), << >>, << >>, T!Block(<<T!ExprStmt(e)>>))),
             T!Yield(<<a>>)>>)}

RulePrograms ==
  UNION {Around(e) : e \in Values} \cup UNION {AroundIterator(e) : e \in IteratorUses}

-----------------------------------------------------------------------------
(* Programs on which the two walks need not agree. *)

g == T!Id("g", FunctionType(<<i64>>, i64))
Nothing == T!Call("h", << >>, Void, << >>)
Odd == {g, i, a, T!Shown(<<x>>), T!Shown(<< >>), Nothing, Choice(x, x), T!If(b, T!Block(<< >>)),
        T!IfElse(b, T!Block(<<T!Yield(<< >>)>>), T!Block(<<T!Yield(<< >>)>>)),
        Counted(<<"a">>, <<x>>, <<T!Yield(<<a>>)>>)}
OddValues == Odd \cup Simple \cup Compound(Odd \cup {x}) \cup {T!Elems(<<T!Elems(<<x>>), i>>)}

H == T!Func("h", << >>, <<Void>>, << >>)
OddMain(stmts) == T!Program(<<F(Void, stmts), G1, H>>)

AroundOdd(e) ==
  {OddMain(<<T!Var(<<"v">>, e), T!Var(<<"v">>, T!Float), Show(T!Arith(V(e.type), x))>>),
   OddMain(<<T!Var(<<"x">>, e), T!ExprStmt(e), T!Yield(<<e>>)>>),
   T!Program(<<G1, F(i64, <<T!Return(<<e>>, i64)>>), H>>),
   T!Program(<<F(Void, <<T!Return(<<e>>, Void), Show(e)>>), G1, H>>),
   T!Program(<<G1, F(i64, <<T!ExprStmt(T!If(b, T!Block(<<T!Return(<<e>>, i64)>>)))>>), H>>),
   OddMain(<<T!ExprStmt(T!If(e, T!Block(<<T!Yield(<<e>>)>>)))>>),
   OddMain(<<T!ExprStmt(T!IfElse(b, T!Block(<< >>), T!Block(<<T!Yield(<<e>>)>>)))>>),
   OddMain(<<T!ExprStmt(T!If(b, T!Block(<<T!Block(<<T!Yield(<<e>>)>>)>>)))>>),
   OddMain(<<T!ExprStmt(Counted(<<"a">>, <<e>>, <<T!Yield(<<e>>)>>))>>),
   OddMain(<<T!Var(<<"v">>, Counted(<<"a", "b">>, <<x, a>>, <<T!Yield(<<e, x>>)>>))>>),
   OddMain(<<T!ExprStmt(Counted(<<"a">>, <<x>>,
               <<T!ExprStmt(Counted(<<"v">>, <<e>>, <<T!Yield(<<V(e.type)>>)>>)), T!Yield(<<a>>), Show(e)>>))>>),
   OddMain(<<T!ExprStmt(Counted(<<"a">>, <<e>>, << >>)),
             T!ExprStmt(T!For("i", T!RangeOf(i, e), << >>, << >>, T!Block(<<T!Yield(<<e>>)>>)))>>)}

\* Headers that are wrong: a name taken twice, a parameter without a type or of
\* an unknown one, or of type void, or a tensor of either.
Header(names, types) ==
  T!Program(<<T!Func("f", names, types, <<Show(x), T!Return(<<x>>, i64)>>), G1, H>>)
OddHeaders ==
  {Header(<<"x", "b">>, <<p, q, i64>>) : p, q \in {i64, Void, Null, Unknown, f64x2, TensorOf("void", <<2>>), TensorOf("unknown", <<2>>)}}
  \cup {Header(<<"x", "x">>, <<i64, q, i64>>) : q \in {i64, Bool}}
  \cup {T!Program(<<G1, T!Func("g", << >>, <<Void>>, <<Show(CallG(<<x>>)), T!Return(<<x>>, i64)>>)>>)}

\* An initial value that reads the iterator, or the one before it; a function that
\* is read as a variable.
NamePrograms ==
  {OddMain(<<T!ExprStmt(Counted(<<"a">>, <<i>>, <<T!Yield(<<a>>)>>))>>),
   OddMain(<<T!ExprStmt(Counted(<<"a", "c">>, <<x, a>>, <<T!Yield(<<x, x>>)>>))>>),
   OddMain(<<T!ExprStmt(g)>>)}

CalleePrograms == {Main(<<Show(p)>>) : p \in Simple} \cup {Main(<<T!ExprStmt(T!Relu(t))>>)}
                  \cup {Main(<<T!ExprStmt(CallG(<<p>>))>>) : p \in Simple}

IteratorPrograms == UNION {AroundIterator(e) : e \in {i, T!Elems(<<i, x>>)}}

OddPrograms == UNION {AroundOdd(e) : e \in OddValues} \cup OddHeaders

\* The programs of both kinds, and which kind they are.
Marked(programs, plain) == {p @@ [plain |-> plain] : p \in programs}
AllPrograms == Marked(RulePrograms, TRUE) \cup Marked(OddPrograms, FALSE)

-----------------------------------------------------------------------------
\* Semantic analysis reports an error on a program exactly when the program
\* breaks a typing rule, as Terms states them.
Verdict == prog.plain /\ Done => (reported <=> ~prog.typed)

\* A program that semantic analysis accepts becomes a module that MLIR accepts:
\* no assertion, no missing value, no operation that a verifier rejects.  Every
\* value has an MLIR type on the way, and in the end every scope and every block
\* has been left.
Compiles == G!TypeOK /\ G!Closed /\ (prog.plain => fault = "none")

\* "variable not found, semantic check should catch this": code generation finds
\* every name that semantic analysis has found.
NamesFound == fault # "lost"

\* "i is i64": in the body of a loop the iterator may stand wherever a value of
\* type i64 may.
IteratorIsI64 == prog.typed => fault = "none"
=============================================================================
