----------------------------- MODULE TypeValues -----------------------------
(***************************************************************************)
(* What the type storage promises: types are values.  Whoever asks for the *)
(* type of a constructor, components and dimensions gets that type, and    *)
(* two types are the same exactly when they are equal.                     *)
(***************************************************************************)
EXTENDS Naturals, Sequences

CONSTANTS
  Dims,      \* lists of dimensions
  MaxArity   \* bound on the components of a type

Base == <<"unknown", "i32", "i64", "f32", "f64", "bool", "void">>

VARIABLES
  known,   \* the types asked for, and the base types
  asked,   \* the one that was asked for last
  result   \* the one that was returned

Value(kind, of, dims) == [kind |-> kind, of |-> of, dims |-> dims]
BaseValue(k) == Value(Base[k], << >>, << >>)

Init ==
  /\ known = {BaseValue(k) : k \in DOMAIN Base}
  /\ asked = BaseValue(1) /\ result = asked

Answer(t) == known' = known \cup {t} /\ asked' = t /\ result' = t

Lists(n) == UNION {[1 .. k -> known] : k \in 0 .. n}

Get ==
  \/ \E of \in Lists(MaxArity), t \in known : Answer(Value("function", Append(of, t), << >>))
  \/ \E t \in known, dims \in Dims : Answer(Value("tensor", <<t>>, dims))
  \/ \E of \in Lists(MaxArity) : Answer(Value("tuple", of, << >>))

Spec == Init /\ [][Get]_<<known, asked, result>>
=============================================================================
