----------------------------- MODULE Intrinsics -----------------------------
(***************************************************************************)
(* The types of the calls of intrinsics (src/sema/intrinsic.cpp), and of   *)
(* operators, indices and literals on tensors (src/sema/sema.cpp).  An     *)
(* argument is an expression: the kind of its node, what is in an array    *)
(* literal (the integers if it has nothing else in it, or the items), its  *)
(* resolved type and, for the later stages, the tensor it stands for.      *)
(***************************************************************************)
EXTENDS Tensors

Argument(node, lits, items, type, value) ==
  [node |-> node, lits |-> lits, items |-> items, type |-> type, value |-> value]

Answer(type, reported) == [type |-> type, reported |-> reported]
Failed == Answer(Unknown, TRUE)
Inferred(ok, elem, shape) == IF ok THEN Answer(TensorOf(elem, shape), FALSE) ELSE Failed

is_calculation_type(t) == IsTensor(t) /\ (IsInteger(t.elem) \/ IsFloat(t.elem))
is_float_type(t) == IsTensor(t) /\ IsFloat(t.elem)

\* relu and abs.
calculation_infer(args) ==
  IF Len(args) = 1 /\ is_calculation_type(args[1].type)
  THEN Answer(args[1].type, FALSE) ELSE Failed

\* exp, log, sqrt, tanh, sigmoid, sin, cos and gelu.
float_infer(args) ==
  IF Len(args) = 1 /\ is_float_type(args[1].type)
  THEN Answer(args[1].type, FALSE) ELSE Failed

\* Without an argument there is only a warning.
print_infer(args) == Answer(IF args = << >> THEN Unknown ELSE Void, FALSE)

matmul_infer(args) ==
  LET l == args[1].type  r == args[2].type  rank == Len(l.shape) IN
  Inferred(/\ Len(args) = 2 /\ IsTensor(l) /\ IsTensor(r)
           /\ rank >= 2 /\ Len(r.shape) = rank
           /\ \A i \in 1 .. rank - 2 : l.shape[i] = r.shape[i]
           /\ l.shape[rank] = r.shape[rank - 1],
           l.elem, Append(Front(l.shape), r.shape[rank]))

extract_i64_array(args) == args[2].node = "tensor" /\ args[2].items = << >>

\* broadcast, reduce_sum, reduce_max, reshape and transpose: a tensor and a list.
TensorAndList(args) == Len(args) = 2 /\ IsTensor(args[1].type) /\ extract_i64_array(args)

\* The dimensions are left to the verifier; a rank that is too large is reported
\* and has a type nevertheless.
broadcast_infer(args) ==
  LET t == args[1].type  target == args[2].lits IN
  IF TensorAndList(args)
  THEN Answer(TensorOf(t.elem, target), Len(t.shape) > Len(target)) ELSE Failed

output_shape(shape, axes) ==
  LET output[n \in 0 .. Len(shape)] ==
        IF n = 0 THEN << >>
        ELSE IF n - 1 \in ToSet(axes) THEN output[n - 1] ELSE Append(output[n - 1], shape[n])
  IN  output[Len(shape)]

\* reduce_sum and reduce_max: an axis may be named twice.
reduce_infer(args) ==
  LET t == args[1].type  axes == args[2].lits  IN
  Inferred(TensorAndList(args) /\ \A i \in DOMAIN axes : axes[i] \in 0 .. Len(t.shape) - 1,
           t.elem, output_shape(t.shape, axes))

\* The products are those of 64-bit integers.
Elems(shape) ==
  LET elems[n \in 0 .. Len(shape)] == IF n = 0 THEN 1 ELSE Wrap(elems[n - 1] * shape[n])
  IN  elems[Len(shape)]
reshape_infer(args) ==
  LET t == args[1].type IN
  Inferred(TensorAndList(args) /\ Elems(t.shape) = Elems(args[2].lits), t.elem, args[2].lits)

transpose_infer(args) ==
  LET t == args[1].type  perm == args[2].lits  rank == Len(t.shape) IN
  Inferred(TensorAndList(args) /\ Len(perm) = rank
             /\ (\A i \in DOMAIN perm : perm[i] \in 0 .. rank - 1) /\ IsInjective(perm),
           t.elem, [i \in DOMAIN perm |-> t.shape[perm[i] + 1]])

gather_infer(args) ==
  LET t == args[1].type  ind == args[2].type  axis == args[3].lits[1] IN
  Inferred(/\ Len(args) = 3 /\ IsTensor(t) /\ IsTensor(ind) /\ IsInteger(ind.elem)
           /\ args[3].node = "int_literal" /\ axis \in 0 .. Len(t.shape) - 1,
           t.elem, SubSeq(t.shape, 1, axis) \o ind.shape
                     \o SubSeq(t.shape, axis + 2, Len(t.shape)))

stack_infer(args) ==
  LET first == args[1].type IN
  Inferred(args # << >> /\ IsTensor(first) /\ \A i \in DOMAIN args : args[i].type = first,
           first.elem, <<Len(args)>> \o first.shape)

\* intrinsic_registry
Calculations == {"relu", "abs"}
FloatFunctions == {"exp", "log", "sqrt", "tanh", "sigmoid", "sin", "cos", "gelu"}
Registered == Calculations \cup FloatFunctions \cup
  {"print", "matmul", "broadcast", "reduce_sum", "reduce_max", "reshape", "transpose",
   "gather", "stack"}
Infer(name, args) ==
  CASE name \in Calculations -> calculation_infer(args)
    [] name \in FloatFunctions -> float_infer(args)
    [] name = "print" -> print_infer(args)
    [] name = "matmul" -> matmul_infer(args)
    [] name = "broadcast" -> broadcast_infer(args)
    [] name \in {"reduce_sum", "reduce_max"} -> reduce_infer(args)
    [] name = "reshape" -> reshape_infer(args)
    [] name = "transpose" -> transpose_infer(args)
    [] name = "gather" -> gather_infer(args)
    [] name = "stack" -> stack_infer(args)

-----------------------------------------------------------------------------
(* Operators and literals (sema.cpp). *)

Arithmetic == {"add", "sub", "mul", "div"}
Comparisons == {"cmp_eq", "cmp_ne", "cmp_lt", "cmp_le", "cmp_gt", "cmp_ge"}

\* A type is all that is asked of the operands, not that it is one of tensors.
resolve_binary_expr(name, l, r) ==
  Answer(IF name \notin Comparisons THEN l ELSE IF IsTensor(l) THEN TensorOf("bool", l.shape) ELSE Bool,
         l # r)

\* A literal that is unknown has been reported; print() is unknown without an error.
resolve_tensor(items) ==
  LET first == items[1].type IN
  IF items = << >> \/ \E i \in DOMAIN items : items[i].type # first THEN Failed
  ELSE Answer(TensorOf(ElementOf(first), <<Len(items)>> \o first.shape),
              first = Unknown /\ \E i \in DOMAIN items : items[i].node = "tensor")

resolve_index_access(t, ind) ==
  Inferred(IsTensor(t) /\ ind \in Ints /\ t.shape # << >>, t.elem, Tail(t.shape))

Resolve(name, args) ==
  CASE name \in Registered -> Infer(name, args)
    [] name \in Arithmetic \cup Comparisons ->
         resolve_binary_expr(name, args[1].type, args[2].type)
    [] name = "neg" -> Answer(args[1].type, FALSE)
    [] name = "elements" -> resolve_tensor(args)
    [] name = "slice" -> resolve_index_access(args[1].type, args[2].type)
=============================================================================
