----------------------------- MODULE ConstFold ------------------------------
(***************************************************************************)
(* The constant-folding pass, src/dialect/pass/constfold.cpp.              *)
(*                                                                         *)
(* A function is a graph of operations in SSA form: op[i].args names the   *)
(* operations whose results i reads.  The greedy driver (external) applies *)
(* any pattern that matches, in any order, until none does.  An erased     *)
(* operation is freed: erased[i] counts how often that was done to i.  A   *)
(* constant that replaces an operation takes over its name.                *)
(*                                                                         *)
(* Kinds: arg is a block argument; pack is colgm.elements and colgm.stack; *)
(* other is every operation the pass does not rewrite (print, return ...), *)
(* whose operands are what the program observes.  The elements of a tensor *)
(* are a sequence of integers of Width bits.                               *)
(***************************************************************************)
EXTENDS Integers, Sequences, SequencesExt

CONSTANTS
  N,       \* number of operations of the function
  Width,   \* bits of an element
  Graphs   \* the functions the pass may be run on: [op, attr] records

ASSUME NAssumption == N \in Nat /\ Width \in Nat \ {0}

Ids == 1 .. N
Kinds == {"arg", "const", "neg", "pack", "add", "sub", "mul", "div", "other"}
Ops == [kind : Kinds, args : Seq(Ids)]

\* SSA form: an operation comes after its operands, and has as many as its kind
\* takes.
WellFormed(o) ==
  \A i \in Ids :
    /\ \A k \in DOMAIN o[i].args : o[i].args[k] < i
    /\ o[i].kind \in {"arg", "const"} => o[i].args = << >>
    /\ o[i].kind = "neg" => Len(o[i].args) = 1
    /\ o[i].kind \in {"add", "sub", "mul", "div"} => Len(o[i].args) = 2

\* The pass is run on what the verifier accepted.
ASSUME GraphsAssumption ==
  \A g \in Graphs :
    g.op \in [Ids -> Ops] /\ DOMAIN g.attr = Ids /\ WellFormed(g.op)

VARIABLES
  op,      \* the operations
  attr,    \* the value attribute of the constants; the value of an argument
  erased,  \* how often each operation was erased
  start    \* the function the pass was run on

vars == <<op, attr, erased, start>>

-----------------------------------------------------------------------------
Live == {i \in Ids : erased[i] = 0}

\* use_empty, in the graph o when the operations in gone are erased
UseEmpty(o, gone, i) ==
  \A j \in Ids \ gone : \A k \in DOMAIN o[j].args : o[j].args[k] # i

Gone == Ids \ Live

IsConst(i) == op[i].kind = "const"

\* Fault: the replacement is put in the place of the value it replaces.
ReplaceAllUsesSwapped(e, v) ==
  [j \in Ids |-> [op[j] EXCEPT !.args =
     [k \in DOMAIN op[j].args |-> IF op[j].args[k] = v THEN e ELSE op[j].args[k]]]]

\* Every use of the result of e becomes a use of v.
ReplaceAllUses(e, v) ==
  [j \in Ids |-> [op[j] EXCEPT !.args =
     [k \in DOMAIN op[j].args |-> IF op[j].args[k] = e THEN v ELSE op[j].args[k]]]]

\* Fault: the new constant is made, and never replaces e.
BecomeConstUnused(e) == op

\* e is replaced by a new constant, which takes over its name and its uses.
BecomeConst(e) == [op EXCEPT ![e] = [kind |-> "const", args |-> << >>]]

\* After an operation over freed memory anything may happen; the pass is only
\* followed while every operand is alive.
OperandsAlive(e) == \A k \in DOMAIN op[e].args : op[e].args[k] \in Live

Pos(e, c) == {k \in DOMAIN op[e].args : op[e].args[k] = c}

-----------------------------------------------------------------------------
(* The patterns. *)

Mod == 2 ^ Width
NegAttr(a) == [k \in DOMAIN a |-> (Mod - a[k]) % Mod]

\* try_fold_neg: the input is erased when this was its last use.
FoldNeg(e) ==
  LET c == op[e].args[1]  o == BecomeConst(e) IN
  /\ op[e].kind = "neg" /\ IsConst(c)
  /\ op' = o
  /\ attr' = [attr EXCEPT ![e] = NegAttr(attr[c])]
  /\ erased' = IF UseEmpty(o, Gone, c) THEN [erased EXCEPT ![c] = @ + 1]
               ELSE erased

\* Fault: a pack folds only when every operand is the same constant.
FoldPackSplat(e) ==
  LET args == op[e].args  c == args[1] IN
  /\ op[e].kind = "pack" /\ IsConst(c) /\ \A k \in DOMAIN args : args[k] = c
  /\ op' = BecomeConst(e)
  /\ attr' = [attr EXCEPT ![e] = FlattenSeq([k \in DOMAIN args |-> attr[c]])]
  /\ UNCHANGED erased

\* try_fold_pack_op: source_ops lists a constant once for each operand it is,
\* and each entry that has no use left is erased.
FoldPack(e) ==
  LET args == op[e].args  o == BecomeConst(e) IN
  /\ op[e].kind = "pack" /\ \A k \in DOMAIN args : IsConst(args[k])
  /\ op' = o
  /\ attr' = [attr EXCEPT ![e] = FlattenSeq([k \in DOMAIN args |-> attr[args[k]]])]
  /\ erased' = [c \in Ids |->
       IF Pos(e, c) = {} \/ ~UseEmpty(o, Gone, c) THEN erased[c]
       ELSE IF \E i, j \in Pos(e, c) : i # j THEN 2 ELSE 1]

\* isSplat() and the splat value is v
IsSplat(a, v) == \A k \in DOMAIN a : a[k] = v

\* Fault: the operand that survives is the one that is erased.
CanonicalizeErasesLhs(e, kinds, v) ==
  LET lhs == op[e].args[1]  rhs == op[e].args[2] IN
  /\ op[e].kind \in kinds /\ IsConst(rhs) /\ IsSplat(attr[rhs], v)
  /\ op' = ReplaceAllUses(e, lhs)
  /\ erased' = [erased EXCEPT ![e] = 1, ![lhs] = 1]
  /\ UNCHANGED attr

\* try_canonicalize_rhs_zero and _rhs_one: e is replaced by its left operand,
\* then its right operand is erased, whoever else uses it.
Canonicalize(e, kinds, v) ==
  LET lhs == op[e].args[1]  rhs == op[e].args[2] IN
  /\ op[e].kind \in kinds /\ IsConst(rhs) /\ IsSplat(attr[rhs], v)
  /\ op' = ReplaceAllUses(e, lhs)
  /\ erased' = [erased EXCEPT ![e] = 1, ![rhs] = 1]
  /\ UNCHANGED attr

\* Fault: the pattern is registered for multiplications as well.
CanonicalizeZeroMul(e) == Canonicalize(e, {"add", "sub", "mul"}, 0)

CanonicalizeZero(e) == Canonicalize(e, {"add", "sub"}, 0)
CanonicalizeOne(e) == Canonicalize(e, {"mul", "div"}, 1)

Init ==
  /\ start \in Graphs
  /\ op = start.op /\ attr = start.attr
  /\ erased = [i \in Ids |-> 0]

\* One application of a pattern by the driver.
Rewrite(e) ==
  /\ e \in Live /\ OperandsAlive(e)
  /\ FoldNeg(e) \/ FoldPack(e) \/ CanonicalizeZero(e) \/ CanonicalizeOne(e)
  /\ UNCHANGED start

Next == \E e \in Ids : Rewrite(e)

Spec == Init /\ [][Next]_vars

-----------------------------------------------------------------------------
(* Functions on which the erasures of the pass are sound. *)

\* Every result is read at most once, that of an argument excepted.
SingleUse ==
  \A i \in Ids : op[i].kind # "arg" =>
    \A j, m \in Live : \A k \in DOMAIN op[j].args, l \in DOMAIN op[m].args :
      op[j].args[k] = i /\ op[m].args[l] = i => j = m /\ k = l

\* There is nothing to canonicalize, and no pack reads a result twice.
FoldOnly ==
  \A e \in Live :
    /\ op[e].kind \notin {"add", "sub", "mul", "div"}
    /\ op[e].kind = "pack" => IsInjective(op[e].args)

Careful == SingleUse \/ FoldOnly

CarefulInit == Init /\ Careful

CarefulSpec == CarefulInit /\ [][Next]_vars

\* The driver keeps going while a pattern matches.
FairSpec == CarefulSpec /\ WF_vars(Next)

-----------------------------------------------------------------------------
(* Properties. *)

\* Every rewrite leaves a function in SSA form, whose values can be computed in
\* order.
TypeOK ==
  /\ op \in [Ids -> Ops] /\ DOMAIN attr = Ids
  /\ erased \in [Ids -> 0 .. 2]
  /\ WellFormed(op)

\* No operation is freed twice, and none that is alive reads one that was freed.
MemorySafe ==
  /\ \A i \in Ids : erased[i] <= 1
  /\ \A i \in Live : OperandsAlive(i)

\* What the operations compute.  x / 0 is left undefined by the language: 0 here.
Arith(kind, x, y) ==
  CASE kind = "add" -> (x + y) % Mod
    [] kind = "sub" -> (Mod + x - y) % Mod
    [] kind = "mul" -> (x * y) % Mod
    [] kind = "div" -> IF y = 0 THEN 0 ELSE x \div y

\* The value of operation i, if v has those of its operands.
Compute(o, a, v, i) ==
  LET x(k) == v[o[i].args[k]] IN
  CASE o[i].kind \in {"arg", "const", "other"} -> a[i]
    [] o[i].kind = "neg" -> [k \in DOMAIN x(1) |-> Arith("sub", 0, x(1)[k])]
    [] o[i].kind = "pack" -> FlattenSeq([k \in DOMAIN o[i].args |-> x(k)])
    [] OTHER -> [k \in DOMAIN x(1) |-> Arith(o[i].kind, x(1)[k], x(2)[k])]

Values(o, a) == LET v[i \in Ids] == Compute(o, a, v, i) IN v

\* The elements are integers of Width bits, and the operands of an arithmetic
\* operation have the same number of them, as the verifier has checked.
ASSUME ElementsAssumption ==
  /\ Mod \in Nat \ {0}
  /\ \A g \in Graphs :
       /\ g.attr \in [Ids -> Seq(0 .. Mod - 1)]
       /\ LET v == Values(g.op, g.attr) IN
          \A i \in Ids : g.op[i].kind \in {"add", "sub", "mul", "div"} =>
            Len(v[g.op[i].args[1]]) = Len(v[g.op[i].args[2]])

\* What is printed, returned or passed on is what it was before the pass.
SameObservations ==
  LET now == Values(op, attr)  before == Values(start.op, start.attr) IN
  \A i \in Ids : start.op[i].kind = "other" =>
    \A k \in DOMAIN op[i].args :
      now[op[i].args[k]] = before[start.op[i].args[k]]

\* The operations a pattern may still rewrite.  Every rewrite settles one for
\* good, so the driver needs no iteration limit.
Pending == {i \in Live : op[i].kind \notin {"arg", "const", "other"}}
StepShrinks == [][Pending' # Pending /\ Pending' \subseteq Pending]_vars

\* Whatever the order of the rewrites, constant expressions fold completely.
AllFolded ==
  \A e \in Live : op[e].kind \in {"neg", "pack"} =>
    \E k \in DOMAIN op[e].args : ~IsConst(op[e].args[k])
FoldsAll == <>[]AllFolded
=============================================================================
