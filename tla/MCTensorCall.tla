---------------------------- MODULE MCTensorCall ----------------------------
(***************************************************************************)
(* Expressions on small tensors: every intrinsic, with shapes, lists and   *)
(* indices that fit and that do not.                                       *)
(***************************************************************************)
EXTENDS TensorCall

\* Inverse to each other at v and 11 - v, and never 10.
MCExp == [v \in 0 .. 10 |-> <<1, 2, 4, 5, 7, 1, 1, 8, 9, 3, 6>>[v + 1]]

Dims == 1 .. 3
Cubes == {<<2, 1, 3>>, <<2, 2, 2>>, <<1, 3, 2>>}
Vectors == {<<d>> : d \in Dims}
Matrices == {<<c, d>> : c \in Dims, d \in Dims}
Shapes == {<< >>, <<0>>, <<2, 0>>} \cup Vectors \cup Matrices \cup Cubes
Few == {<< >>, <<3>>, <<2, 2>>, <<2, 1, 3>>}

\* Elements that differ: ascending and descending, of both signs.
Data(elem, shape) ==
  Tensor(elem, shape, [p \in Points(shape) |->
    IF elem = "bool" THEN Offset(shape, p) % 2 = 1
    ELSE IF IsFloat(elem) THEN 2 - Offset(shape, p) ELSE Offset(shape, p) - 3])
Of(elem, values) ==
  Tensor(elem, <<Len(values)>>, [p \in Points(<<Len(values)>>) |-> values[p[1] + 1]])
ScalarOf(elem, value) == Tensor(elem, << >>, [p \in {<< >>} |-> value])

Named(t) == Argument("identifier", << >>, << >>, TypeOf(t), t)
Array(lits) == Argument("tensor", lits, << >>, TensorOf("i64", <<Len(lits)>>), Of("i64", lits))
Number(n) == Argument("int_literal", <<n>>, << >>, Scalar("i64"), ScalarOf("i64", n))
\* Calls without a value: of a function without a result, and print().
Nothing == Argument("call", << >>, << >>, Void, Garbage)
Printing == Argument("call", << >>, << >>, Unknown, Garbage)

\* A literal with other expressions than integers.
Literal(items) ==
  LET found == resolve_tensor(items) IN
  Argument("tensor", << >>, items, found.type,
    IF found.reported \/ \E i \in DOMAIN items : items[i].value = Garbage THEN Garbage
    ELSE Abstract!Stacked([i \in DOMAIN items |-> items[i].value], <<Len(items)>>))
Variable == Literal(<<Named(ScalarOf("i64", 1))>>)

Call(name, args) == [name |-> name, args |-> args]
Some(elem, shape) == Named(Data(elem, shape))

Lists == UNION {[1 .. n -> 0 .. 3] : n \in 1 .. 3} \cup {<<-2>>, <<-1, -3>>, <<2, -1>>}

WithLists ==
  {Call(name, <<Some(elem, shape), Array(list)>>) :
     name \in {"broadcast", "reduce_sum", "reduce_max", "reshape", "transpose"},
     elem \in {"i64"}, shape \in Shapes, list \in Lists}
  \cup {Call(name, <<Some(elem, shape), Array(list)>>) :
     name \in {"broadcast", "reduce_sum", "reduce_max"}, elem \in {"f64"},
     shape \in Few, list \in {<<0>>, <<1>>, <<2, 0>>, <<2, 2, 3>>}}
  \cup {Call("reshape", <<Some("i64", <<1>>), Array(<<5, 13>>)>>)}
  \cup {Call(name, args) : name \in {"broadcast", "reduce_sum", "reshape", "transpose"},
          args \in {<< >>, <<Nothing, Array(<<1>>)>>, <<Some("i64", <<1>>), Variable>>,
                    <<Some("i64", <<1>>), Number(1)>>}}

MatMuls ==
  {Call("matmul", <<Some(elem, s), Some(elem, t)>>) :
     elem \in {"i64", "f32"}, s \in Matrices \cup {<<2>>}, t \in Matrices \cup {<<2, 1, 1>>}}
  \cup {Call("matmul", <<Some("i64", s), Some("i64", t)>>) :
     s \in {<<2, 1, 2>>, <<2, 2, 3>>, <<1, 3, 2>>, <<1, 2, 2, 1>>},
     t \in {<<2, 2, 1>>, <<2, 3, 2>>, <<1, 2, 2>>, <<1, 2, 1, 2>>}}

Indices ==
  {Of("i64", values) : values \in {<<0>>, <<1, 0>>, <<0, 1, 1>>, <<2, 1>>, <<-1>>}}
  \cup {ScalarOf("i64", 0), Data("i64", <<2, 2>>), Data("f32", <<2>>)}
Gathers ==
  {Call("gather", <<Some("f32", shape), Named(ind), axis>>) :
     shape \in Few \cup {<<2, 3>>, <<3, 2>>}, ind \in Indices,
     axis \in {Number(0), Number(1), Number(2), Number(3), Array(<<0>>)}}

Stacks ==
  {Call("stack", [i \in 1 .. n |-> Named(Data(IF i = 2 THEN "f64" ELSE "i64", shape))]) :
     n \in 1 .. 2, shape \in Few}
  \cup {Call("stack", <<Some("i64", s), Named(Tensor("i64", t, [p \in Points(t) |-> 9]))>>) :
     s \in Few, t \in Few}
  \cup {Call("stack", << >>), Call("stack", <<Nothing>>)}

\* The k-th element of a literal is all k.
Filled(shape, k) == Named(Tensor("i64", shape, [p \in Points(shape) |-> k]))
\* The literals in a literal, with the leaves in order.
RECURSIVE Nested(_, _)
Nested(outer, leaves) ==
  IF Len(outer) = 1 THEN leaves
  ELSE LET n == Count(Tail(outer)) IN
       [i \in 1 .. outer[1] |->
          Literal(Nested(Tail(outer), SubSeq(leaves, (i - 1) * n + 1, i * n)))]
Literals ==
  {Call("elements", Nested(outer, [k \in 1 .. Count(outer) |-> Filled(inner, k)])) :
     outer \in {<<1>>, <<3>>, <<2, 2>>, <<2, 3>>, <<3, 2>>, <<2, 1, 3>>},
     inner \in {<< >>, <<2>>, <<2, 1>>}}
  \cup {Call("elements", items) :
     items \in {<< >>, <<Nothing>>, <<Nothing, Nothing>>, <<Printing>>, <<Printing, Nothing>>,
       <<Literal(<<Printing>>)>>,
       <<Filled(<<2>>, 1), Filled(<<3>>, 2)>>, <<Filled(<< >>, 1), Some("i32", << >>)>>,
       <<Literal(<<Filled(<<1>>, 1), Filled(<< >>, 2)>>)>>, <<Literal(<<Nothing>>)>>,
       <<Variable, Filled(<<1>>, 2)>>, <<Filled(<<1>>, 2), Variable>>,
       <<Literal(<<Variable, Variable>>), Literal(<<Filled(<<1>>, 5), Variable>>)>>}}

Slices ==
  {Call("slice", <<Some("i32", shape), Named(ScalarOf("i64", i))>>) :
     shape \in Vectors \cup Matrices \cup Cubes, i \in -1 .. 2}
  \cup {Call("slice", <<Some("i32", <<2>>), ind>>) :
     ind \in {Named(ScalarOf("i32", 1)), Named(ScalarOf("f64", 1)), Some("i64", <<1>>), Nothing, Printing}}
  \cup {Call("slice", <<t, Number(0)>>) : t \in {Some("i32", << >>), Nothing}}

Extremes == Named(Of("i64", <<Lowest, -5, 0, 31>>))
Others == Named(Of("i64", <<3, -2, 1, -1>>))
\* The quotient of Extremes by it, or by itself, does not exist.
Minus == Named(Of("i64", <<-1, 2, -1, 7>>))
Unaries ==
  {Call(name, <<Some(elem, shape)>>) :
     name \in Calculations \cup FloatFunctions, elem \in {"i64", "f64", "bool"}, shape \in Few}
  \cup {Call(name, args) : name \in Calculations \cup {"exp"},
          args \in {<< >>, <<Nothing>>, <<Extremes>>, <<Extremes, Extremes>>}}
  \cup {Call("neg", <<a>>) : a \in {Extremes, Others, Some("f32", <<2, 2>>), Nothing, Printing}}

Binaries ==
  {Call(name, <<a, b>>) : name \in Arithmetic \cup Comparisons,
     a \in {Extremes, Others, Nothing, Printing}, b \in {Others, Extremes, Minus, Nothing, Printing, Some("i32", <<4>>)}}
  \cup {Call(name, <<Some("f64", s), Some("f64", t)>>) :
     name \in Comparisons \cup Arithmetic, s \in Few, t \in Few}

Prints ==
  {Call("print", [i \in 1 .. n |-> Some(elem, shape)]) :
     n \in 0 .. 2, elem \in {"i64", "bool", "f64"}, shape \in Few \cup Cubes \cup {<<2, 3>>}}
  \cup {Call("print", <<a>>) : a \in {Nothing, Printing}}

MCExprs ==
  WithLists \cup MatMuls \cup Gathers \cup Stacks \cup Literals \cup Slices
    \cup Unaries \cup Binaries \cup Prints
=============================================================================
