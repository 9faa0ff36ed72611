---------------------------- MODULE Operations ------------------------------
(***************************************************************************)
(* The operations of the dialect: how src/codegen/intrinsic.cpp and        *)
(* generator.cpp create them, which result type the builders of            *)
(* src/dialect/colgm give them, and what their verifiers demand.  An       *)
(* operation has its operands, the integers of its attribute and the type  *)
(* of its result.                                                          *)
(***************************************************************************)
EXTENDS Intrinsics

Op(kind, args, attr, type) == [kind |-> kind, args |-> args, attr |-> attr, type |-> type]
None == Op("none", << >>, << >>, Null)

-----------------------------------------------------------------------------
(* Literals that became an attribute leave their operations behind: an     *)
(* array its constants, which are the operands of its last operation, a    *)
(* number a constant.  uses holds the operands of each.                    *)

LiteralOps(a) ==
  IF a.node = "tensor" THEN Append([k \in DOMAIN a.lits |-> << >>], [k \in DOMAIN a.lits |-> k])
  ELSE <<<< >>>>
Users(ops, k) == {u \in DOMAIN ops : k \in ToSet(ops[u])}

\* Operands first; only those without another use.
Chain(ops) ==
  LET collect[k \in DOMAIN ops] ==
        FlattenSeq([j \in DOMAIN ops[k] |->
          IF Cardinality(Users(ops, ops[k][j])) = 1 THEN collect[ops[k][j]] ELSE << >>]) \o <<k>>
  IN  collect[Len(ops)]

\* Fault: in the order they were collected in.
EraseInOrder(ops) == Chain(ops)
erase_dead_value(ops) == Reverse(Chain(ops))

\* Nothing is erased before what uses it.
ErasedSafely(ops) ==
  LET erased == erase_dead_value(ops) IN
  \A i \in DOMAIN erased : Users(ops, erased[i]) \subseteq ToSet(SubSeq(erased, 1, i - 1))

-----------------------------------------------------------------------------
(* Builders: the type of the result. *)

\* The dimensions that the bits of reduced leave, counted from 1.
Kept(shape, axes) ==
  LET kept[n \in 0 .. Len(shape)] ==
        IF n = 0 THEN << >>
        ELSE IF \E i \in DOMAIN axes : axes[i] = n - 1 THEN kept[n - 1] ELSE Append(kept[n - 1], n)
  IN  kept[Len(shape)]
reduce_build(t, axes) ==
  TensorOf(t.elem, [i \in DOMAIN Kept(t.shape, axes) |-> t.shape[Kept(t.shape, axes)[i]]])

matmul_build(l, r) ==
  LET n == Len(l.shape) IN
  TensorOf(l.elem, SubSeq(l.shape, 1, n - 2) \o <<l.shape[n - 1], r.shape[Len(r.shape)]>>)

transpose_build(t, perm) == TensorOf(t.elem, [i \in DOMAIN perm |-> t.shape[perm[i] + 1]])

\* Fault: the dimensions of the indices come first.
gather_build_first(t, ind, axis) == TensorOf(t.elem, ind.shape \o RemoveAt(t.shape, axis + 1))
gather_build(t, ind, axis) ==
  TensorOf(t.elem, SubSeq(t.shape, 1, axis) \o ind.shape \o SubSeq(t.shape, axis + 2, Len(t.shape)))

stack_build(values, target) == TensorOf(values[1].elem, target \o values[1].shape)
elements_build(values, shape) == TensorOf(values[1].elem, shape)
slice_build(t, axis) == TensorOf(t.elem, RemoveAt(t.shape, axis + 1))

-----------------------------------------------------------------------------
(* Generators.  values are the operands, a the arguments. *)

WithList(kind, values, a) ==
  LET t == values[1]  list == a[2].lits IN
  Op(kind, <<t>>, list,
     CASE kind \in {"broadcast", "reshape"} -> TensorOf(t.elem, list)
       [] kind \in {"reduce_sum", "reduce_max"} -> reduce_build(t, list)
       [] kind = "transpose" -> transpose_build(t, list))

\* The elements of the literals among the items, in their places.
Unnested(items) ==
  FlattenSeq([i \in DOMAIN items |->
    IF items[i].node = "tensor" THEN items[i].items ELSE <<items[i]>>])

\* The same depth times. The code goes on as long as there is a literal; what sema accepts
\* has none left after as many times as its first element has dimensions (Types_proof,
\* AllOpened).
flatten_tensor(items, depth) ==
  LET level[n \in 0 .. depth] == IF n = 0 THEN items ELSE Unnested(level[n - 1])
  IN  level[depth]

\* What is evaluated to be an operand.
Operands(name, args) ==
  IF name = "elements" THEN flatten_tensor(args, Len(args[1].type.shape)) ELSE args

\* A literal, of the type sema gave it: the first value tells whether the elements
\* are scalars or tensors.
generate_tensor(values, shape) ==
  LET inner == values[1].shape IN
  IF inner = << >> THEN Op("elements", values, shape, elements_build(values, shape))
  ELSE LET target == SubSeq(shape, 1, Len(shape) - Len(inner)) IN
       Op("stack", values, target, stack_build(values, target))

\* shape is that of the type of the expression.
Generate(name, a, shape) ==
  LET values == [i \in DOMAIN a |-> a[i].value]  v == values[1] IN
  CASE name \in Calculations \cup FloatFunctions \cup {"neg"} -> Op(name, <<v>>, << >>, TypeOf(v))
    [] name = "print" -> Op(name, values, << >>, Void)
    [] name = "matmul" -> Op(name, values, << >>, matmul_build(v, values[2]))
    [] name \in {"broadcast", "reduce_sum", "reduce_max", "reshape", "transpose"} ->
         WithList(name, values, a)
    [] name = "gather" ->
         Op(name, <<v, values[2]>>, a[3].lits, gather_build(v, values[2], a[3].lits[1]))
    [] name = "stack" -> Op(name, values, <<Len(values)>>, stack_build(values, <<Len(values)>>))
    [] name \in Arithmetic -> Op(name, values, << >>, TypeOf(v))
    [] name \in Comparisons -> Op(name, values, << >>, TensorOf("bool", shape))
    [] name = "elements" -> generate_tensor(values, shape)
    [] name = "slice" -> Op(name, values, <<0>>, slice_build(v, 0))

\* The literals an intrinsic turns into attributes.
Consumed(name, a) ==
  IF name \in {"broadcast", "reduce_sum", "reduce_max", "reshape", "transpose"} THEN <<a[2]>>
  ELSE IF name = "gather" THEN <<a[3]>> ELSE << >>

\* A dimension below zero, which a type cannot have, or an operation that is
\* erased while it is used.
Undefined(op, name, a) ==
  \/ IsTensor(op.type) /\ \E d \in DOMAIN op.type.shape : op.type.shape[d] < 0
  \/ \E i \in DOMAIN Consumed(name, a) : ~ErasedSafely(LiteralOps(Consumed(name, a)[i]))

-----------------------------------------------------------------------------
(* Verifiers. *)

\* Right-aligned, a dimension is kept or was 1.
broadcast_verify(t, out) ==
  /\ Len(t.shape) <= Len(out.shape)
  /\ \A i \in 0 .. Len(t.shape) - 1 :
       LET from == t.shape[Len(t.shape) - i]  to == out.shape[Len(out.shape) - i] IN
       from = to \/ (from < to /\ from = 1)

reduce_verify(t, axes, out) ==
  /\ \A i \in DOMAIN axes : axes[i] \in 0 .. Len(t.shape) - 1
  /\ IsInjective(axes)
  /\ out = reduce_build(t, axes)

reshape_verify(t, out) == Elems(t.shape) = Elems(out.shape)

transpose_verify(t, perm, out) ==
  /\ Len(perm) = Len(t.shape) /\ IsInjective(perm)
  /\ \A i \in DOMAIN perm : perm[i] \in 0 .. Len(t.shape) - 1
  /\ \A i \in DOMAIN perm : t.shape[perm[i] + 1] = out.shape[i]

matmul_verify(l, r) ==
  LET n == Len(l.shape) IN
  /\ n >= 2 /\ Len(r.shape) = n
  /\ SubSeq(l.shape, 1, n - 2) = SubSeq(r.shape, 1, n - 2)
  /\ l.shape[n] = r.shape[n - 1]

gather_verify(t, ind, axis, out) ==
  LET n == Len(t.shape)  m == Len(ind.shape) IN
  /\ IsInteger(ind.elem) \/ ind.elem = "bool"
  /\ axis \in 0 .. n - 1 /\ out.elem = t.elem /\ Len(out.shape) = n + m - 1
  /\ \A i \in 1 .. axis : t.shape[i] = out.shape[i]
  /\ \A i \in 1 .. m : ind.shape[i] = out.shape[axis + i]
  /\ \A i \in axis + 2 .. n : t.shape[i] = out.shape[i + m - 1]

\* elements and stack: operands of one type, as many as target has places.
literal_verify(values, target, out) ==
  /\ \A i \in DOMAIN values : TypeOf(values[i]) = TypeOf(values[1])
  /\ out.shape = target \o values[1].shape
  /\ Len(values) = Elems(target)

slice_verify(t, ind, axis, out) ==
  /\ axis \in 0 .. Len(t.shape) - 1 /\ ind.shape = << >>
  /\ IsInteger(ind.elem) \/ ind.elem = "bool"
  /\ out = TensorOf(t.elem, RemoveAt(t.shape, axis + 1))

cmp_verify(l, r, out) == TypeOf(l) = TypeOf(r) /\ out = TensorOf("bool", l.shape)

Verified(op) ==
  LET v == op.args IN
  CASE op.kind \in Calculations \cup {"neg", "print"} -> TRUE
    [] op.kind \in FloatFunctions -> IsFloat(v[1].elem)
    [] op.kind \in Arithmetic -> TypeOf(v[1]) = TypeOf(v[2])
    [] op.kind \in Comparisons -> cmp_verify(v[1], v[2], op.type)
    [] op.kind = "broadcast" -> broadcast_verify(v[1], op.type)
    [] op.kind \in {"reduce_sum", "reduce_max"} -> reduce_verify(v[1], op.attr, op.type)
    [] op.kind = "reshape" -> reshape_verify(v[1], op.type)
    [] op.kind = "transpose" -> transpose_verify(v[1], op.attr, op.type)
    [] op.kind = "matmul" -> matmul_verify(v[1], v[2])
    [] op.kind = "gather" -> gather_verify(v[1], v[2], op.attr[1], op.type)
    [] op.kind \in {"elements", "stack"} -> literal_verify(v, op.attr, op.type)
    [] op.kind = "slice" -> slice_verify(v[1], v[2], op.attr[1], op.type)
=============================================================================
