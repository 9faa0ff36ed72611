------------------------------ MODULE Lowering ------------------------------
(***************************************************************************)
(* The lowering of operations on tensors to the linalg, tensor and arith   *)
(* dialects: src/dialect/pass/lowering.cpp and lowering/.  An operation    *)
(* becomes a kernel, or none if no pattern takes it or what the pattern    *)
(* creates is invalid.  print becomes calls of the runtime.                *)
(***************************************************************************)
EXTENDS Operations

-----------------------------------------------------------------------------
(* What a point computes. *)

Bigger(a, b) == IF a < b THEN b ELSE a

\* Toward zero; undefined for a divisor of zero and for a quotient that is too large.
DivSI(a, b) ==
  LET abs(n) == IF n < 0 THEN -n ELSE n
      q == abs(a) \div abs(b) IN
  IF b = 0 \/ (a = Lowest /\ b = -1) THEN Garbage
  ELSE IF (a < 0) = (b < 0) THEN q ELSE -q

\* Of the quotient of two floats nothing is said.
Binary(kind, elem, x, y) ==
  CASE kind = "add" -> Rounded(elem, x + y)
    [] kind = "sub" -> Rounded(elem, x - y)
    [] kind = "mul" -> Rounded(elem, x * y)
    [] kind = "div" -> IF IsFloat(elem) THEN <<"div", x, y>> ELSE DivSI(x, y)

\* Signed, and ordered for floats.
Compare(kind, x, y) ==
  CASE kind = "cmp_eq" -> x = y  [] kind = "cmp_ne" -> x # y
    [] kind = "cmp_lt" -> x < y  [] kind = "cmp_le" -> x <= y
    [] kind = "cmp_gt" -> x > y  [] kind = "cmp_ge" -> x >= y

\* Negation is a subtraction from zero.
Unary(kind, elem, x) ==
  CASE kind = "neg" -> Rounded(elem, 0 - x)
    [] kind = "relu" -> Bigger(0, x)
    [] kind = "abs" -> IF x < 0 THEN Rounded(elem, -x) ELSE x

\* Functions of the math dialect; but for exp, nothing is said of them.
lowering_math_unary(kind, x) == IF kind = "exp" THEN Exp[x % Modulus] ELSE <<kind, x>>

lowering_sigmoid(x) == DivF(1, AddF(1, Exp[SubF(0, x)]))

lowering_gelu(x) ==
  LET x3 == MulF(MulF(x, x), x)
      t3 == MulF(coeff2, AddF(x, MulF(coeff1, x3)))
      t5 == MulF(half, AddF(1, TanhF(t3)))
  IN  MulF(x, t5)

\* old is the element that is there, x and y are read.
Combine(body, elem, read, old) ==
  LET x == read[1]  y == read[2] IN
  CASE body = "copy" -> x
    [] body = "reduce_sum" -> Rounded(elem, x + old)
    [] body = "reduce_max" -> Bigger(x, old)
    [] body = "matmul" -> Rounded(elem, old + x * y)
    [] body \in Arithmetic -> Binary(body, elem, x, y)
    [] body \in Comparisons -> Compare(body, x, y)
    [] body \in {"neg", "relu", "abs"} -> Unary(body, elem, x)
    [] body = "sigmoid" -> lowering_sigmoid(x % Modulus)
    [] body = "gelu" -> lowering_gelu(x % Modulus)
    [] OTHER -> lowering_math_unary(body, x)

Computed(k) == Execute(k, Combine)

-----------------------------------------------------------------------------
(* Patterns. *)

\* One operation of linalg for matrices and one for batches of them, which
\* takes no more than one batch dimension.
lowering_matmul(op) ==
  Generic(op.args, op.type,
    IF Len(op.type.shape) = 2 THEN <<<<1, 3>>, <<3, 2>>, <<1, 2>>>>
    ELSE <<<<1, 2, 4>>, <<1, 4, 3>>, <<1, 2, 3>>>>,
    Append(Parallel(IF Len(op.type.shape) = 2 THEN 2 ELSE 3), "reduction"), 0, "matmul")

\* The scalars in a row, and that row in the shape of the result.
lowering_elements(op) ==
  LET row == Tensor(op.type.elem, <<Len(op.args)>>,
                    [p \in Points(<<Len(op.args)>>) |-> Element(op.args[p[1] + 1], << >>)])
  IN  <<Reshape(row, op.type)>>

\* Fault: the last dimension of target is the slowest.
StackPositionColumns(target, n) ==
  [d \in DOMAIN target |-> (n \div Count(SubSeq(target, 1, d - 1))) % target[d]]

\* The place of the n-th operand, the last dimension of target first.
StackPosition(target, n) ==
  LET remaining[d \in DOMAIN target] ==
        IF d = Len(target) THEN n ELSE remaining[d + 1] \div target[d + 1]
  IN  [d \in DOMAIN target |-> remaining[d] % target[d]]

\* One insert_slice after the other.
lowering_stack(op) ==
  LET inner == op.args[1].shape
      dom == <<Len(op.args)>> \o inner
      points == Points(dom)
  IN  <<Kernel(dom, <<"sequential">> \o Parallel(Len(inner)), op.args,
               [p \in points |-> <<<<p[1] + 1, Tail(p)>>>>],
               [p \in points |-> StackPosition(op.attr, p[1]) \o Tail(p)],
               op.type, Garbage, "copy")>>

lowering_reshape(op) == <<Reshape(op.args[1], op.type)>>

\* linalg.transpose: dimension i of the result is dimension perm[i] of the input.
lowering_transpose(op) ==
  <<Copy(op.args, op.type, LAMBDA p :
      <<1, [d \in DOMAIN p |-> p[CHOOSE i \in DOMAIN p : op.attr[i] = d - 1]]>>)>>

\* Where an element of the input is read: aligned at the right.
broadcast_map(from, target) ==
  LET offset == Len(target) - Len(from) IN
  [k \in DOMAIN from |-> IF from[k] = 1 /\ target[offset + k] > 1 THEN 0 ELSE offset + k]

\* The input itself if the shapes are the same.
lowering_broadcast(op) ==
  LET in == op.args[1]  target == op.attr IN
  IF in.shape = target THEN <<Copy(op.args, op.type, LAMBDA p : <<1, p>>)>>
  ELSE Generic(op.args, op.type,
         <<broadcast_map(in.shape, target), [d \in DOMAIN target |-> d]>>,
         Parallel(Len(target)), Garbage, "copy")

\* Fault: every loop is parallel.
iter_types_parallel(shape, axes) == Parallel(Len(shape))
iter_types(shape, axes) ==
  [d \in DOMAIN shape |-> IF d - 1 \in ToSet(axes) THEN "reduction" ELSE "parallel"]

Reduction(op, init) ==
  LET shape == op.args[1].shape IN
  Generic(op.args, op.type, <<[d \in DOMAIN shape |-> d], Kept(shape, op.attr)>>,
          iter_types(shape, op.attr), init, op.kind)

lowering_reduce_sum(op) == Reduction(op, 0)

\* From the identity of the maximum.
lowering_reduce_max(op) == Reduction(op, IF IsFloat(op.type.elem) THEN NegInf ELSE Lowest)

\* The element of the params that position p of the result is: index is the
\* position in the indices.
GatherKernel(op, index(_)) ==
  LET t == op.args[1]  ind == op.args[2]  axis == op.attr[1]
      points == Points(op.type.shape)
  IN  <<Kernel(op.type.shape, Parallel(Len(op.type.shape)), <<t, ind>>,
          [p \in points |-> <<<<1, [p EXCEPT ![axis + 1] = Element(ind, <<index(p)>>)]>>,
                              <<2, <<index(p)>>>>>>],
          [p \in points |-> p], op.type, Garbage, "copy")>>

\* Fault: the first dimension of the result instead of the axis.
lowering_gather_first(op) ==
  IF Len(op.args[2].shape) # 1 THEN << >> ELSE GatherKernel(op, LAMBDA p : p[1])

\* Only for a list of indices.
lowering_gather(op) ==
  IF Len(op.args[2].shape) # 1 THEN << >>
  ELSE GatherKernel(op, LAMBDA p : p[op.attr[1] + 1])

\* Without a check of the index.
lowering_slice(op) ==
  <<Copy(op.args, op.type, LAMBDA p : <<1, <<op.args[2].at[<< >>]>> \o p>>)>>

Lower(op) ==
  CASE op.kind = "matmul" -> lowering_matmul(op)
    [] op.kind = "elements" -> lowering_elements(op)
    [] op.kind = "stack" -> lowering_stack(op)
    [] op.kind = "reshape" -> lowering_reshape(op)
    [] op.kind = "transpose" -> lowering_transpose(op)
    [] op.kind = "broadcast" -> lowering_broadcast(op)
    [] op.kind = "reduce_sum" -> lowering_reduce_sum(op)
    [] op.kind = "reduce_max" -> lowering_reduce_max(op)
    [] op.kind = "gather" -> lowering_gather(op)
    [] op.kind = "slice" -> lowering_slice(op)
    [] OTHER -> Elementwise(op.args, op.type, op.kind)

-----------------------------------------------------------------------------
(* print: a loop for every dimension, with the calls of src/runtime/print. *)

emit_print_scalar(t, p) == <<t.elem, t.at[p]>>

\* What is printed at the indices that the outer loops have reached.
emit_print_tensor(t) ==
  LET prefixes == UNION {Points(SubSeq(t.shape, 1, d)) : d \in 0 .. Len(t.shape)}
      emit[p \in prefixes] ==
        IF Len(p) = Len(t.shape) THEN <<emit_print_scalar(t, p)>>
        ELSE <<OpenBracket>>
               \o FlattenSeq([i \in 1 .. t.shape[Len(p) + 1] |->
                    (IF i = 1 THEN << >> ELSE <<Comma>>) \o emit[Append(p, i - 1)]])
               \o <<CloseBracket>>
  IN  emit[<< >>]

lowering_print(op) ==
  FlattenSeq([i \in DOMAIN op.args |-> Append(emit_print_tensor(op.args[i]), Newline)])
=============================================================================
