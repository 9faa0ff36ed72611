------------------------------ MODULE Scalars -------------------------------
(***************************************************************************)
(* The numbers of the compiled program, as the arith and math dialects of  *)
(* MLIR compute with them, and what src/runtime/print.cpp prints.          *)
(*                                                                         *)
(* Integers wrap.  Floats are exact integers where they are added,         *)
(* multiplied and compared; a quotient of them is a term of which nothing  *)
(* is said.  In sigmoid and gelu, which are formulas over exp, they are    *)
(* the numbers modulo a prime, where division is exact, and exp is any     *)
(* function that inverts when its argument is negated.                     *)
(***************************************************************************)
EXTENDS Integers

CONSTANTS
  Width,   \* bits of an integer
  Modulus, \* a prime
  Exp      \* exp on the numbers modulo the prime

ASSUME WidthAssumption == Width \in Nat \ {0}
ASSUME ModulusAssumption == Modulus \in Nat /\ Modulus > 2
ASSUME ExpAssumption ==
  /\ Exp \in [0 .. Modulus - 1 -> 1 .. Modulus - 2]
  /\ \A v \in 1 .. Modulus - 1 : (Exp[v] * Exp[Modulus - v]) % Modulus = 1

IsInteger(elem) == elem \in {"i32", "i64"}
IsFloat(elem) == elem \in {"f32", "f64"}

\* Two's complement: there are Half negative numbers, and as many others.
Half ==
  LET power[w \in 0 .. Width - 1] == IF w = 0 THEN 1 ELSE 2 * power[w - 1]
  IN  power[Width - 1]
Lowest == -Half
Wrap(n) == ((n + Half) % (2 * Half)) - Half
Rounded(elem, n) == IF IsInteger(elem) THEN Wrap(n) ELSE n

\* Minus infinity: less than every float.
NegInf == Lowest - 1

\* The floats of sigmoid and gelu.
AddF(a, b) == (a + b) % Modulus
SubF(a, b) == (a - b) % Modulus
MulF(a, b) == (a * b) % Modulus
DivF(a, b) == CHOOSE c \in 0 .. Modulus - 1 : MulF(c, b) = a
TanhF(v) == LET e == Exp[AddF(v, v)] IN DivF(SubF(e, 1), AddF(e, 1))

\* 0.5, 0.044715 and the square root of 2/pi.
half == DivF(1, 2)
coeff1 == 3
coeff2 == 5

\* The calls of the runtime, with the element that is printed.
OpenBracket == <<"open", 0>>
CloseBracket == <<"close", 0>>
Comma == <<"comma", 0>>
Newline == <<"newline", 0>>
=============================================================================
