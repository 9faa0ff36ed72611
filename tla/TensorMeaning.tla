--------------------------- MODULE TensorMeaning ----------------------------
(***************************************************************************)
(* What an expression on tensors means, by the definitions of mathematics: *)
(* no loops, maps or memory.  The specification is abstract: an expression *)
(* is answered with its meaning in one step, or never.                     *)
(*                                                                         *)
(* An expression has a name and arguments, of which the meaning is known.  *)
(***************************************************************************)
EXTENDS Tensors

VARIABLES expr, answer

Unanswered == << >>

\* p comes before q in the order in which the elements of a literal are written.
Before(p, q) ==
  \E d \in DOMAIN p : p[d] < q[d] /\ \A c \in 1 .. d - 1 : p[c] = q[c]
Rank(shape, p) == Cardinality({q \in Points(shape) : Before(q, p)})

\* The tensor whose elements are f(p).
Where(elem, shape, f(_)) == Tensor(elem, shape, [p \in Points(shape) |-> f(p)])

Sum(elem, S, f(_)) == Rounded(elem, MapThenSumSet(f, S))
Greatest(elem, S) == IF S = {} THEN IF IsFloat(elem) THEN NegInf ELSE Lowest ELSE Max(S)

MatMul(a, b) ==
  LET n == Len(a.shape)
      inner == a.shape[n]
      at(p) == Sum(a.elem, 0 .. inner - 1, LAMBDA k :
                 a.at[[p EXCEPT ![n] = k]] * b.at[[p EXCEPT ![n - 1] = k]])
  IN  Where(a.elem, [a.shape EXCEPT ![n] = b.shape[n]], at)

\* A dimension of size 1 is repeated, and so are the ones that are missing.
Broadcast(a, target) ==
  LET skip == Len(target) - Len(a.shape) IN
  Where(a.elem, target, LAMBDA p :
    a.at[[d \in DOMAIN a.shape |-> IF a.shape[d] = 1 THEN 0 ELSE p[d + skip]]])

\* The positions that differ from p on the axes only.
Reduced(a, axes) ==
  LET kept == SelectSeq([d \in DOMAIN a.shape |-> d], LAMBDA d : d - 1 \notin ToSet(axes)) IN
  [shape |-> [i \in DOMAIN kept |-> a.shape[kept[i]]],
   of |-> [p \in Points([i \in DOMAIN kept |-> a.shape[kept[i]]]) |->
             {q \in Points(a.shape) : \A i \in DOMAIN kept : q[kept[i]] = p[i]}]]

ReduceSum(a, axes) ==
  LET r == Reduced(a, axes) IN
  Where(a.elem, r.shape, LAMBDA p : Sum(a.elem, r.of[p], LAMBDA q : a.at[q]))
ReduceMax(a, axes) ==
  LET r == Reduced(a, axes) IN
  Where(a.elem, r.shape, LAMBDA p : Greatest(a.elem, {a.at[q] : q \in r.of[p]}))

Reshaped(a, shape) ==
  Where(a.elem, shape, LAMBDA p :
    a.at[CHOOSE q \in Points(a.shape) : Rank(a.shape, q) = Rank(shape, p)])

\* Position q of the operand goes to the position p with p[i] = q[perm[i]].
Transposed(a, perm) ==
  LET shape == [i \in DOMAIN perm |-> a.shape[perm[i] + 1]] IN
  Where(a.elem, shape, LAMBDA p :
    a.at[CHOOSE q \in Points(a.shape) : \A i \in DOMAIN perm : q[perm[i] + 1] = p[i]])

\* The slices of a along the axis, at the indices.
Gather(a, ind, axis) ==
  LET shape == SubSeq(a.shape, 1, axis) \o ind.shape
                 \o SubSeq(a.shape, axis + 2, Len(a.shape))
      m == Len(ind.shape)
  IN  Where(a.elem, shape, LAMBDA p :
        a.at[SubSeq(p, 1, axis) \o <<ind.at[SubSeq(p, axis + 1, axis + m)]>>
               \o SubSeq(p, axis + m + 1, Len(p))])

\* The operands at the positions of target, in the order they are written.
Stacked(values, target) ==
  LET m == Len(target) IN
  Where(values[1].elem, target \o values[1].shape, LAMBDA p :
    values[Rank(target, SubSeq(p, 1, m)) + 1].at[SubSeq(p, m + 1, Len(p))])

Sliced(a, i) == Where(a.elem, Tail(a.shape), LAMBDA p : a.at[<<i>> \o p])

EachElement(elem, args, f(_)) ==
  Where(elem, args[1].shape, LAMBDA p : f([i \in DOMAIN args |-> args[i].at[p]]))

\* sigmoid(x) = exp x / (exp x + 1), and gelu by the tanh approximation, which is
\* x sigmoid(2u).
Sigmoid(x) == DivF(Exp[x], AddF(Exp[x], 1))
Gelu(x) ==
  LET u == MulF(coeff2, AddF(x, MulF(coeff1, MulF(x, MulF(x, x))))) IN
  MulF(x, Sigmoid(AddF(u, u)))

Quotient(a, b) == CHOOSE q \in Lowest .. -Lowest :
  LET r == a - q * b IN r * r < b * b /\ r * a >= 0

ScalarMeaning(name, elem, x) ==
  CASE name = "add" -> Rounded(elem, x[1] + x[2])
    [] name = "sub" -> Rounded(elem, x[1] - x[2])
    [] name = "mul" -> Rounded(elem, x[1] * x[2])
    [] name = "div" -> IF IsFloat(elem) THEN <<name, x[1], x[2]>> ELSE Quotient(x[1], x[2])
    [] name = "neg" -> Rounded(elem, -x[1])
    [] name = "abs" -> Rounded(elem, Max({x[1], -x[1]}))
    [] name = "relu" -> IF x[1] > 0 THEN x[1] ELSE 0
    [] name = "cmp_eq" -> x[1] = x[2]
    [] name = "cmp_ne" -> ~(x[1] = x[2])
    [] name = "cmp_lt" -> ~(x[1] >= x[2])
    [] name = "cmp_le" -> ~(x[1] > x[2])
    [] name = "cmp_gt" -> ~(x[1] <= x[2])
    [] name = "cmp_ge" -> ~(x[1] < x[2])
    [] name = "exp" -> Exp[x[1] % Modulus]
    [] name = "sigmoid" -> Sigmoid(x[1] % Modulus)
    [] name = "gelu" -> Gelu(x[1] % Modulus)
    [] OTHER -> <<name, x[1]>>

\* A tensor is printed like a list of its rows: between two elements, as many
\* brackets are closed and opened as rows end there.
PrintedTensor(t) ==
  LET n == Len(t.shape)
      ends(p) == Cardinality({d \in DOMAIN p : \A c \in d .. n : p[c] = 0})
      times(token, k) == [i \in 1 .. k |-> token]
      before(p) == times(CloseBracket, ends(p)) \o <<Comma>> \o times(OpenBracket, ends(p))
      at(k) == CHOOSE p \in Points(t.shape) : Rank(t.shape, p) = k
      element(k) == (IF k = 0 THEN << >> ELSE before(at(k))) \o <<<<t.elem, t.at[at(k)]>>>>
  IN  times(OpenBracket, n)
        \o FlattenSeq([k \in 1 .. Count(t.shape) |-> element(k - 1)])
        \o times(CloseBracket, n)

Compares(name) == name \in {"cmp_eq", "cmp_ne", "cmp_lt", "cmp_le", "cmp_gt", "cmp_ge"}

Meaning(e) ==
  LET a == [i \in DOMAIN e.args |-> e.args[i].value]
      list == e.args[2].lits
  IN
  CASE e.name = "matmul" -> <<MatMul(a[1], a[2])>>
    [] e.name = "broadcast" -> <<Broadcast(a[1], list)>>
    [] e.name = "reduce_sum" -> <<ReduceSum(a[1], list)>>
    [] e.name = "reduce_max" -> <<ReduceMax(a[1], list)>>
    [] e.name = "reshape" -> <<Reshaped(a[1], list)>>
    [] e.name = "transpose" -> <<Transposed(a[1], list)>>
    [] e.name = "gather" -> <<Gather(a[1], a[2], e.args[3].lits[1])>>
    [] e.name = "stack" -> <<Stacked(a, <<Len(a)>>)>>
    [] e.name = "elements" -> <<Stacked(a, <<Len(a)>>)>>
    [] e.name = "slice" -> <<Sliced(a[1], a[2].at[<< >>])>>
    [] e.name = "print" ->
         FlattenSeq([i \in DOMAIN a |-> Append(PrintedTensor(a[i]), Newline)])
    [] OTHER -> <<EachElement(IF Compares(e.name) THEN "bool" ELSE a[1].elem, a,
                              LAMBDA x : ScalarMeaning(e.name, a[1].elem, x))>>

\* The program says nothing else than that there is a tensor: an index that it
\* computed is out of range, a shape has more elements than integers count, or a
\* quotient of integers does not exist.
Meaningless(e) ==
  LET a == e.args IN
  \/ e.name = "slice" /\ a[2].value.at[<< >>] \notin 0 .. a[1].value.shape[1] - 1
  \/ /\ e.name = "gather"
     /\ \E p \in DOMAIN a[2].value.at :
          a[2].value.at[p] \notin 0 .. a[1].value.shape[a[3].lits[1] + 1] - 1
  \/ e.name = "reshape" /\ Count(a[1].value.shape) # Count(a[2].lits)
  \/ /\ e.name = "div" /\ IsInteger(a[1].value.elem)
     /\ LET x == a[1].value.at  y == a[2].value.at IN
        \E p \in DOMAIN y : y[p] = 0 \/ (x[p] = Lowest /\ y[p] = -1)

-----------------------------------------------------------------------------
Init == answer = Unanswered
Next ==
  /\ answer = Unanswered /\ answer' # Unanswered
  /\ Meaningless(expr) \/ answer' = Meaning(expr)
  /\ UNCHANGED expr

Spec == Init /\ [][Next]_<<expr, answer>>
=============================================================================
