------------------------------ MODULE Tensors -------------------------------
(***************************************************************************)
(* Tensors with their elements, and the operations of MLIR's tensor and    *)
(* linalg dialects that src/dialect/pass lowers to, as loops over them.    *)
(*                                                                         *)
(* A kernel is a loop nest over the points of dom.  At every point it      *)
(* reads elements of its operands, combines them and the element it is to  *)
(* write by body, and writes that one.  What nobody wrote is Garbage.      *)
(***************************************************************************)
EXTENDS Types, Scalars, SequencesExt

CONSTANT Garbage  \* an element that was not written, or read outside of a tensor

Count(shape) ==
  LET count[n \in 0 .. Len(shape)] == IF n = 0 THEN 1 ELSE count[n - 1] * shape[n]
  IN  count[Len(shape)]

Points(shape) ==
  {p \in [DOMAIN shape -> UNION {0 .. shape[d] - 1 : d \in DOMAIN shape}] :
     \A d \in DOMAIN shape : p[d] < shape[d]}

\* The n-th point in row-major order, counted from 0; outside of every shape
\* beyond the last one.
Point(shape, n) ==
  IF n >= Count(shape) THEN <<-1>>
  ELSE [d \in DOMAIN shape |->
          (n \div Count(SubSeq(shape, d + 1, Len(shape)))) % shape[d]]
Offset(shape, p) ==
  LET offset[n \in 0 .. Len(shape)] == IF n = 0 THEN 0 ELSE offset[n - 1] * shape[n] + p[n]
  IN  offset[Len(shape)]

Tensor(elem, shape, at) == [elem |-> elem, shape |-> shape, at |-> at]
TypeOf(t) == TensorOf(t.elem, t.shape)
Element(t, p) == IF p \in DOMAIN t.at THEN t.at[p] ELSE Garbage

-----------------------------------------------------------------------------
(* Kernels.  reads and writes are functions of the point: the elements     *)
(* <<operand, position>> that are read, and the position that is written.  *)

Kernel(dom, iters, ins, reads, writes, type, init, body) ==
  [dom |-> dom, iters |-> iters, ins |-> ins, reads |-> reads, writes |-> writes,
   type |-> type, init |-> init, body |-> body]

Parallel(n) == [d \in 1 .. n |-> "parallel"]

\* A kernel that writes every element of the result once: a copy of the element
\* of an operand that from(p) names.
Copy(ins, type, from(_)) ==
  LET points == Points(type.shape) IN
  Kernel(type.shape, Parallel(Len(type.shape)), ins,
         [p \in points |-> <<from(p)>>], [p \in points |-> p], type, Garbage, "copy")

\* An affine map gives every dimension of an operand: 0 for the constant 0, d
\* for the d-th loop.
Apply(map, p) == [i \in DOMAIN map |-> IF map[i] = 0 THEN 0 ELSE p[map[i]]]

\* linalg.generic: the operands' shapes and the result's give the ranges of the
\* loops.  No kernel, if the shapes do not agree.
Generic(ins, type, maps, iters, init, body) ==
  LET shapes == Append([i \in DOMAIN ins |-> ins[i].shape], type.shape)
      loops == DOMAIN iters
      ranges == [d \in loops |-> UNION {{shapes[i][k] : k \in
                   {j \in DOMAIN maps[i] : maps[i][j] = d}} : i \in DOMAIN maps}]
      dom == [d \in loops |-> CHOOSE r \in ranges[d] : TRUE]
      points == Points(dom)
      out == maps[Len(maps)]
  IN  IF \A i \in DOMAIN maps : Len(maps[i]) = Len(shapes[i]) /\
           \A k \in DOMAIN maps[i] :
             IF maps[i][k] = 0 THEN shapes[i][k] >= 1 ELSE ranges[maps[i][k]] = {shapes[i][k]}
      THEN <<Kernel(dom, iters, ins,
                    [p \in points |-> [i \in DOMAIN ins |-> <<i, Apply(maps[i], p)>>]],
                    [p \in points |-> Apply(out, p)], type, init, body)>>
      ELSE << >>

\* convert-elementwise-to-linalg.
Elementwise(ins, type, body) ==
  LET identity == [d \in DOMAIN type.shape |-> d] IN
  Generic(ins, type, [i \in 1 .. Len(ins) + 1 |-> identity],
          Parallel(Len(type.shape)), Garbage, body)

\* tensor.reshape reads the elements in the order of memory.
Reshape(in, type) == Copy(<<in>>, type, LAMBDA p : <<1, Point(in.shape, Offset(type.shape, p))>>)

\* What a kernel leaves behind, its points taken in order; combine(body, elem,
\* read, old) is the element a point writes.
Execute(k, combine(_, _, _, _)) ==
  LET step(at, p) ==
        LET read == [i \in DOMAIN k.reads[p] |->
                       Element(k.ins[k.reads[p][i][1]], k.reads[p][i][2])]
        IN  [at EXCEPT ![k.writes[p]] = combine(k.body, k.type.elem, read, @)]
      at[n \in 0 .. Count(k.dom)] ==
        IF n = 0 THEN [p \in Points(k.type.shape) |-> k.init]
        ELSE step(at[n - 1], Point(k.dom, n - 1))
  IN  Tensor(k.type.elem, k.type.shape, at[Count(k.dom)])
=============================================================================
