------------------------------- MODULE Types --------------------------------
(***************************************************************************)
(* The types of src/sema/type.hpp.  Interning makes equal types one        *)
(* object, so they are values here; a tensor of rank 0 is a scalar.        *)
(***************************************************************************)
EXTENDS Naturals, Sequences

Elements == {"i32", "i64", "f32", "f64", "bool"}

Type(con, elem, shape, parts) ==
  [con |-> con, elem |-> elem, shape |-> shape, parts |-> parts]
TensorOf(elem, shape) == Type("tensor", elem, shape, << >>)
Scalar(elem) == TensorOf(elem, << >>)
Void == Type("void", "", << >>, << >>)
Unknown == Type("unknown", "", << >>, << >>)
FunctionType(args, ret) == Type("function", "", << >>, Append(args, ret))
TupleType(types) == Type("tuple", "", << >>, types)

\* resolve_type_ before it is set: a type without an object.
Null == Type("null", "", << >>, << >>)

IsTensor(t) == t.con = "tensor"
\* Fault: the result is taken for an argument.
Parts(t) == t.parts
Arguments(t) == SubSeq(t.parts, 1, Len(t.parts) - 1)
Result(t) == t.parts[Len(t.parts)]
Ints == {Scalar("i32"), Scalar("i64")}
Bool == Scalar("bool")

\* What a tensor of elements of type t is a tensor of; no element type when t
\* has none.
ElementOf(t) == IF IsTensor(t) THEN t.elem ELSE t.con
=============================================================================
