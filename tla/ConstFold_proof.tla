-------------------------- MODULE ConstFold_proof ---------------------------
(***************************************************************************)
(* What the constant-folding pass guarantees on careful functions, for     *)
(* functions of any size.                                                  *)
(***************************************************************************)
EXTENDS ConstFold, Induction, TLAPS

IInv == TypeOK /\ MemorySafe /\ Careful

Binaries == {"add", "sub", "mul", "div"}

\* A canonicalization is one of a binary operation.
LEMMA CanonicalizeIsBinary ==
  ASSUME NEW e, CanonicalizeZero(e) \/ CanonicalizeOne(e)
  PROVE  \E v \in {0, 1} : Canonicalize(e, Binaries, v)
BY DEF CanonicalizeZero, CanonicalizeOne, Canonicalize, Binaries

\* An operation that is alive has not been erased, and its operands are others.
LEMMA Operands ==
  ASSUME TypeOK, NEW e \in Live, OperandsAlive(e), NEW k \in DOMAIN op[e].args
  PROVE  op[e].args[k] \in Live /\ op[e].args[k] < e /\ op[e].args[k] # e
<1>1. op[e].args[k] \in Live
  BY DEF OperandsAlive
<1>2. op[e].args[k] < e
  BY DEF TypeOK, WellFormed, Live
<1>3. QED
  BY <1>1, <1>2, NAssumption DEF Live, Ids

-----------------------------------------------------------------------------
(* Both folds replace an operation by a constant and erase, each once, only *)
(* constants that nothing reads any more.                                   *)

Fold(e) ==
  /\ op[e].kind \in {"neg", "pack"}
  /\ op' = BecomeConst(e) /\ DOMAIN attr' = Ids
  /\ erased' \in [Ids -> 0 .. 2]
  /\ \A c \in Ids : erased'[c] # erased[c] =>
       /\ op[c].kind = "const" /\ erased'[c] = 1
       /\ UseEmpty(op', Gone, c)

LEMMA FoldNegIsFold ==
  ASSUME IInv, NEW e \in Live, OperandsAlive(e), FoldNeg(e)
  PROVE  Fold(e)
<1> DEFINE c == op[e].args[1]
<1>1. e \in Ids /\ 1 \in DOMAIN op[e].args
  BY DEF IInv, TypeOK, WellFormed, Live, FoldNeg, Ops
<1>2. c \in Live /\ c \in Ids /\ erased[c] = 0
  BY <1>1, Operands DEF IInv, Live
<1>3. DOMAIN attr' = Ids
  BY DEF FoldNeg, IInv, TypeOK
<1>4. erased' \in [Ids -> 0 .. 2]
  BY <1>2 DEF FoldNeg, IInv, TypeOK
<1>5. ASSUME NEW d \in Ids, erased'[d] # erased[d]
      PROVE  op[d].kind = "const" /\ erased'[d] = 1 /\ UseEmpty(op', Gone, d)
  BY <1>2, <1>5 DEF FoldNeg, IInv, TypeOK, IsConst
<1>6. QED
  BY <1>3, <1>4, <1>5 DEF Fold, FoldNeg

LEMMA FoldPackIsFold ==
  ASSUME IInv, NEW e \in Live, OperandsAlive(e), FoldPack(e)
  PROVE  Fold(e)
<1>1. e \in Ids
  BY DEF Live
<1>2. DOMAIN attr' = Ids
  BY DEF FoldPack, IInv, TypeOK
<1>3. erased' \in [Ids -> 0 .. 2]
  BY DEF FoldPack, IInv, TypeOK
<1>4. ASSUME NEW d \in Ids, erased'[d] # erased[d]
      PROVE  op[d].kind = "const" /\ erased'[d] = 1 /\ UseEmpty(op', Gone, d)
  <2>1. Pos(e, d) # {} /\ UseEmpty(op', Gone, d)
    BY <1>4 DEF FoldPack
  <2>2. PICK k \in DOMAIN op[e].args : op[e].args[k] = d
    BY <2>1 DEF Pos
  <2>3. op[d].kind = "const"
    BY <2>2 DEF FoldPack, IsConst
  <2>4. ~\E i, j \in Pos(e, d) : i # j
    <3>1. CASE SingleUse
      BY <3>1, <2>3 DEF SingleUse, Pos
    <3>2. CASE FoldOnly
      BY <3>2 DEF FoldOnly, FoldPack, IsInjective, Pos
    <3>3. QED
      BY <3>1, <3>2 DEF IInv, Careful
  <2>5. erased'[d] = 1
    BY <2>1, <2>4 DEF FoldPack
  <2>6. QED
    BY <2>1, <2>3, <2>5
<1>5. QED
  BY <1>2, <1>3, <1>4 DEF Fold, FoldPack

LEMMA FoldPreserves ==
  ASSUME IInv, NEW e \in Live, Fold(e)
  PROVE  IInv'
<1>1. e \in Ids
  BY DEF Live
<1>2. /\ op'[e] = [kind |-> "const", args |-> << >>]
      /\ \A i \in Ids : i # e => op'[i] = op[i]
  BY <1>1 DEF Fold, BecomeConst, IInv, TypeOK
<1>3. TypeOK'
  <2>1. [kind |-> "const", args |-> << >>] \in Ops
    BY DEF Ops, Kinds
  <2>2. op' \in [Ids -> Ops]
    BY <1>1, <2>1 DEF Fold, BecomeConst, IInv, TypeOK
  <2>3. WellFormed(op')
    BY <1>2 DEF IInv, TypeOK, WellFormed
  <2>4. QED
    BY <2>2, <2>3 DEF TypeOK, Fold
<1>4. Live' \subseteq Live
  <2>1. \A c \in Ids : erased[c] # 0 => erased'[c] # 0
    BY DEF Fold
  <2>2. QED
    BY <2>1 DEF Live
<1>5. \A i \in Ids : erased'[i] <= 1
  BY DEF Fold, IInv, MemorySafe
<1>6. ASSUME NEW i \in Live', NEW k \in DOMAIN op'[i].args
      PROVE  op'[i].args[k] \in Live'
  <2>1. i \in Live /\ i \in Ids
    BY <1>4 DEF Live
  <2>2. i # e /\ op'[i] = op[i]
    BY <1>2, <2>1
  <2>3. op[i].args[k] \in Live
    BY <2>1, <2>2 DEF IInv, MemorySafe, OperandsAlive
  <2>4. erased'[op[i].args[k]] = erased[op[i].args[k]]
    <3>1. SUFFICES ASSUME erased'[op[i].args[k]] # erased[op[i].args[k]]
                   PROVE  FALSE
      OBVIOUS
    <3>2. UseEmpty(op', Gone, op[i].args[k])
      BY <3>1, <2>3 DEF Fold, Live
    <3>3. QED
      BY <3>2, <2>1, <2>2 DEF UseEmpty, Gone
  <2>5. QED
    BY <2>2, <2>3, <2>4 DEF Live
<1>7. MemorySafe'
  BY <1>5, <1>6 DEF MemorySafe, OperandsAlive
<1>8. SingleUse => SingleUse'
  <2>1. \A i \in Ids : op'[i].kind # "arg" => op[i].kind # "arg"
    BY <1>2 DEF Fold
  <2>2. \A j \in Live' : \A k \in DOMAIN op'[j].args : op'[j] = op[j]
    BY <1>2 DEF Live
  <2>3. QED
    BY <1>4, <2>1, <2>2 DEF SingleUse
<1>9. FoldOnly => FoldOnly'
  BY <1>2, <1>4 DEF FoldOnly, Live
<1>10. QED
  BY <1>3, <1>7, <1>8, <1>9 DEF IInv, Careful

-----------------------------------------------------------------------------
(* A canonicalization erases the operation and its right operand.  That is  *)
(* sound because no other operation reads either.                           *)

LEMMA CanonicalizePreserves ==
  ASSUME IInv, NEW e \in Live, OperandsAlive(e),
         NEW v \in {0, 1}, Canonicalize(e, Binaries, v), UNCHANGED start
  PROVE  IInv'
<1> DEFINE lhs == op[e].args[1]
           rhs == op[e].args[2]
<1>1. e \in Ids /\ op[e] \in Ops /\ op[e].kind \in Binaries
  BY DEF Live, IInv, TypeOK, Canonicalize
<1>2. 1 \in DOMAIN op[e].args /\ 2 \in DOMAIN op[e].args
  BY <1>1 DEF IInv, TypeOK, WellFormed, Binaries, Ops
<1>3. /\ lhs \in Live /\ lhs < e /\ lhs # e
      /\ rhs \in Live /\ rhs < e /\ rhs # e
  BY <1>2, Operands DEF IInv
<1>4. SingleUse
  BY <1>1 DEF IInv, Careful, FoldOnly, Binaries
<1>5. op[rhs].kind = "const" /\ op[e].kind # "arg"
  BY <1>1 DEF Canonicalize, IsConst, Binaries
<1>6. /\ DOMAIN op' = Ids
      /\ \A j \in Ids :
           /\ op'[j].kind = op[j].kind
           /\ DOMAIN op'[j].args = DOMAIN op[j].args
           /\ \A k \in DOMAIN op[j].args :
                op'[j].args[k] = IF op[j].args[k] = e THEN lhs ELSE op[j].args[k]
  BY DEF Canonicalize, ReplaceAllUses, IInv, TypeOK, Ops
<1>7. erased' = [erased EXCEPT ![e] = 1, ![rhs] = 1]
  BY DEF Canonicalize
<1>8. Live' = Live \ {e, rhs}
  BY <1>1, <1>3, <1>7 DEF Live, IInv, TypeOK
<1>9. TypeOK'
  <2>1. op' \in [Ids -> Ops]
    <3>1. SUFFICES ASSUME NEW j \in Ids PROVE op'[j] \in Ops
      BY <1>6 DEF Canonicalize, ReplaceAllUses
    <3>2. op[j] \in Ops /\ lhs \in Ids
      BY <1>3 DEF IInv, TypeOK, Live
    <3>3. [k \in DOMAIN op[j].args |->
             IF op[j].args[k] = e THEN lhs ELSE op[j].args[k]] \in Seq(Ids)
      BY <3>2 DEF Ops
    <3>4. QED
      BY <3>2, <3>3 DEF Canonicalize, ReplaceAllUses, Ops
  <2>2. \A j \in Ids : \A k \in DOMAIN op'[j].args : op'[j].args[k] < j
    <3>1. ASSUME NEW j \in Ids, NEW k \in DOMAIN op[j].args
          PROVE  op'[j].args[k] < j
      <4>1. op[j].args[k] < j
        BY DEF IInv, TypeOK, WellFormed
      <4>2. j \in Int /\ e \in Int /\ lhs \in Int
        BY <1>1, <1>3, NAssumption DEF Live, Ids
      <4>3. QED
        BY <4>1, <4>2, <1>3, <1>6
    <3>2. QED
      BY <3>1, <1>6
  <2>3. \A j \in Ids : Len(op'[j].args) = Len(op[j].args)
    BY <2>1, <1>6 DEF IInv, TypeOK, Ops
  <2>4. \A j \in Ids : op[j].args = << >> => op'[j].args = << >>
    BY <2>1, <2>3 DEF Ops
  <2>5. WellFormed(op')
    BY <2>2, <2>3, <2>4, <1>6 DEF IInv, TypeOK, WellFormed
  <2>6. erased' \in [Ids -> 0 .. 2]
    <3>1. rhs \in Ids /\ erased \in [Ids -> 0 .. 2] /\ 1 \in 0 .. 2
      BY <1>3 DEF Live, IInv, TypeOK
    <3>2. [[erased EXCEPT ![e] = 1] EXCEPT ![rhs] = 1] \in [Ids -> 0 .. 2]
      BY <1>1, <3>1
    <3>3. QED
      BY <1>7, <3>2
  <2>7. QED
    BY <2>1, <2>5, <2>6 DEF TypeOK, IInv, Canonicalize
<1>10. ASSUME NEW i \in Live', NEW k \in DOMAIN op'[i].args
       PROVE  op'[i].args[k] \in Live'
  <2>1. i \in Live /\ i \in Ids /\ i # e /\ i # rhs
    BY <1>8 DEF Live
  <2>2. k \in DOMAIN op[i].args
    BY <1>6, <2>1
  <2>3. CASE op[i].args[k] = e
    <3>1. op'[i].args[k] = lhs
      BY <1>6, <2>1, <2>2, <2>3
    <3>2. lhs # rhs
      BY <1>2, <1>3, <1>4, <1>5 DEF SingleUse, Live
    <3>3. QED
      BY <3>1, <3>2, <1>3, <1>8
  <2>4. CASE op[i].args[k] # e
    <3>1. op'[i].args[k] = op[i].args[k]
      BY <1>6, <2>1, <2>2, <2>4
    <3>2. op[i].args[k] \in Live
      BY <2>1, <2>2 DEF IInv, MemorySafe, OperandsAlive
    <3>3. op[i].args[k] # rhs
      BY <1>2, <1>3, <1>4, <1>5, <2>1, <2>2 DEF SingleUse, Live
    <3>4. QED
      BY <3>1, <3>2, <3>3, <2>4, <1>8
  <2>5. QED
    BY <2>3, <2>4
<1>11. MemorySafe'
  <2>1. \A i \in Ids : erased'[i] <= 1
    BY <1>7 DEF IInv, TypeOK, MemorySafe
  <2>2. QED
    BY <1>10, <2>1 DEF MemorySafe, OperandsAlive
<1>12. SingleUse'
  <2>1. SUFFICES ASSUME NEW i \in Ids, op[i].kind # "arg",
                        NEW j \in Live', NEW m \in Live',
                        NEW k \in DOMAIN op[j].args, NEW l \in DOMAIN op[m].args,
                        op'[j].args[k] = i, op'[m].args[l] = i
                 PROVE  j = m /\ k = l
    BY <1>6, <1>8 DEF SingleUse, Live
  <2>2. j \in Live /\ m \in Live /\ j \in Ids /\ m \in Ids /\ j # e /\ m # e
    BY <1>8 DEF Live
  <2>3. CASE i # lhs
    BY <2>1, <2>2, <2>3, <1>4, <1>6 DEF SingleUse
  <2>4. CASE i = lhs
    <3>1. op[j].args[k] # lhs /\ op[m].args[l] # lhs
      BY <2>1, <2>2, <2>4, <1>2, <1>4 DEF SingleUse
    <3>2. op[j].args[k] = e /\ op[m].args[l] = e
      BY <2>1, <2>2, <2>4, <3>1, <1>6
    <3>3. QED
      BY <2>2, <3>2, <1>1, <1>4, <1>5 DEF SingleUse
  <2>5. QED
    BY <2>3, <2>4
<1>13. QED
  BY <1>9, <1>11, <1>12 DEF IInv, Careful

-----------------------------------------------------------------------------
LEMMA InitInv == CarefulInit => IInv
<1> SUFFICES ASSUME Init, Careful PROVE IInv
  BY DEF CarefulInit
<1>1. Live = Ids
  BY DEF Init, Live
<1>2. TypeOK
  BY GraphsAssumption DEF Init, TypeOK
<1>3. \A i \in Ids : \A k \in DOMAIN op[i].args : op[i].args[k] \in Ids
  BY <1>2 DEF TypeOK, Ops
<1>4. MemorySafe
  BY <1>1, <1>3 DEF Init, MemorySafe, OperandsAlive
<1>5. QED
  BY <1>2, <1>4 DEF IInv

LEMMA NextInv == IInv /\ [Next]_vars => IInv'
<1>1. ASSUME IInv, NEW e \in Ids, Rewrite(e) PROVE IInv'
  <2>1. e \in Live /\ OperandsAlive(e) /\ start' = start
    BY <1>1 DEF Rewrite
  <2>2. CASE FoldNeg(e)
    BY <1>1, <2>1, <2>2, FoldNegIsFold, FoldPreserves
  <2>3. CASE FoldPack(e)
    BY <1>1, <2>1, <2>3, FoldPackIsFold, FoldPreserves
  <2>4. CASE CanonicalizeZero(e) \/ CanonicalizeOne(e)
    <3>1. PICK v \in {0, 1} : Canonicalize(e, Binaries, v)
      BY <2>4, CanonicalizeIsBinary
    <3>2. QED
      BY <1>1, <2>1, <3>1, CanonicalizePreserves
  <2>5. QED
    BY <1>1, <2>2, <2>3, <2>4 DEF Rewrite
<1>2. ASSUME IInv, UNCHANGED vars PROVE IInv'
  BY <1>2 DEF vars, IInv, TypeOK, MemorySafe, Careful, SingleUse, FoldOnly, Live,
    OperandsAlive, WellFormed
<1>3. QED
  BY <1>1, <1>2 DEF Next

\* Constant folding keeps functions in SSA form.
THEOREM TypeCorrect == CarefulSpec => []TypeOK
<1>1. IInv => TypeOK
  BY DEF IInv
<1>2. QED
  BY InitInv, NextInv, <1>1, PTL DEF CarefulSpec

\* On a careful function, of any size, no order of the rewrites frees an operation
\* twice or leaves a live operation reading a freed one.
THEOREM MemorySafety == CarefulSpec => []MemorySafe
<1>1. IInv => MemorySafe
  BY DEF IInv
<1>2. QED
  BY InitInv, NextInv, <1>1, PTL DEF CarefulSpec

\* Every rewrite settles one operation for good: the driver needs no iteration
\* limit, whatever the size of the function.
THEOREM Shrinks == CarefulSpec => StepShrinks
<1>1. ASSUME IInv, [Next]_vars
      PROVE  [Pending' # Pending /\ Pending' \subseteq Pending]_vars
  <2>1. SUFFICES ASSUME NEW e \in Ids, Rewrite(e)
                 PROVE  Pending' # Pending /\ Pending' \subseteq Pending
    BY <1>1 DEF Next
  <2>2. e \in Live /\ OperandsAlive(e)
    BY <2>1 DEF Rewrite
  <2>3. CASE Fold(e)
    <3>1. e \in Pending /\ e \notin Pending'
      BY <2>2, <2>3, <1>1 DEF Pending, Fold, BecomeConst, IInv, TypeOK
    <3>2. \A i \in Ids : i \in Pending' => i \in Pending
      BY <2>2, <2>3, <1>1 DEF Pending, Fold, BecomeConst, Live, IInv, TypeOK
    <3>3. QED
      BY <3>1, <3>2 DEF Pending, Live
  <2>4. ASSUME NEW v \in {0, 1}, Canonicalize(e, Binaries, v)
        PROVE  Pending' # Pending /\ Pending' \subseteq Pending
    <3>1. erased' = [erased EXCEPT ![e] = 1, ![op[e].args[2]] = 1]
      BY <2>4 DEF Canonicalize
    <3>2. \A j \in Ids : op'[j].kind = op[j].kind
      BY <2>4, <1>1 DEF Canonicalize, ReplaceAllUses, IInv, TypeOK, Ops
    <3>3. e \in Pending /\ e \notin Pending'
      BY <2>2, <2>4, <3>1, <1>1 DEF Pending, Live, Canonicalize, Binaries, IInv, TypeOK
    <3>4. \A i \in Ids : i \in Pending' => i \in Pending
      BY <3>1, <3>2, <1>1 DEF Pending, Live, IInv, TypeOK
    <3>5. QED
      BY <3>3, <3>4 DEF Pending, Live
  <2>5. QED
    BY <1>1, <2>1, <2>2, <2>3, <2>4, FoldNegIsFold, FoldPackIsFold,
       CanonicalizeIsBinary DEF Rewrite
<1>2. QED
  BY InitInv, NextInv, <1>1, PTL DEF CarefulSpec, StepShrinks

-----------------------------------------------------------------------------
(* The values of a function in SSA form. *)

\* The value of an operation depends on those of earlier ones only.
LEMMA ComputeLocal ==
  ASSUME NEW o \in [Ids -> Ops], WellFormed(o), NEW a, NEW i \in Ids, NEW f, NEW g,
         \A j \in Ids : j < i => f[j] = g[j]
  PROVE  Compute(o, a, f, i) = Compute(o, a, g, i)
<1> DEFINE args == o[i].args
<1>1. args \in Seq(Ids) /\ \A k \in DOMAIN args : args[k] \in Ids /\ args[k] < i
  BY DEF Ops, WellFormed
<1>2. \A k \in DOMAIN args : f[args[k]] = g[args[k]]
  BY <1>1
<1>3. [k \in DOMAIN args |-> f[args[k]]] = [k \in DOMAIN args |-> g[args[k]]]
  BY <1>2
<1>4. o[i].kind = "neg" => 1 \in DOMAIN args
  BY <1>1 DEF WellFormed
<1>5. o[i].kind \in {"add", "sub", "mul", "div"} => 1 \in DOMAIN args /\ 2 \in DOMAIN args
  BY <1>1 DEF WellFormed
<1>6. o[i].kind \in Kinds
  BY DEF Ops
<1>7. CASE o[i].kind \in {"arg", "const", "other"}
  BY <1>7 DEF Compute
<1>8. CASE o[i].kind = "neg"
  BY <1>2, <1>4, <1>8 DEF Compute
<1>9. CASE o[i].kind = "pack"
  BY <1>3, <1>9 DEF Compute
<1>10. CASE o[i].kind \in {"add", "sub", "mul", "div"}
  BY <1>2, <1>5, <1>10 DEF Compute
<1> QED
  BY <1>6, <1>7, <1>8, <1>9, <1>10 DEF Kinds

\* Every operation has a value.
LEMMA ValuesEquation ==
  ASSUME NEW o \in [Ids -> Ops], WellFormed(o), NEW a
  PROVE  Values(o, a) = [i \in Ids |-> Compute(o, a, Values(o, a), i)]
<1> DEFINE Upto(n, f) == f = [i \in 1 .. n |-> Compute(o, a, f, i)]
           Missing == {n \in 0 .. N : ~\E f : Upto(n, f)}
<1>0. N \in Nat /\ Ids = 1 .. N
  BY NAssumption DEF Ids
<1>1. Missing = {}
  <2> SUFFICES ASSUME Missing # {} PROVE FALSE
    OBVIOUS
  <2>1. Missing \in SUBSET Nat
    BY <1>0
  <2> HIDE DEF Missing
  <2>2. PICK m \in Missing : \A n \in Missing : m <= n
    BY <2>1, Least
  <2> USE DEF Missing
  <2>3. m \in 0 .. N /\ ~\E f : Upto(m, f)
    BY <2>2
  <2>4. m # 0
    <3>1. Upto(0, << >>)
      OBVIOUS
    <3> QED
      BY <2>3, <3>1
  <2>5. PICK f : Upto(m - 1, f)
    BY <1>0, <2>1, <2>2, <2>3, <2>4
  <2> DEFINE g == [i \in 1 .. m |-> Compute(o, a, f, i)]
  <2>6. \A i \in 1 .. m - 1 : g[i] = f[i]
    <3> HIDE DEF g
    <3>1. \A i \in 1 .. m - 1 : f[i] = Compute(o, a, f, i)
      BY <2>5
    <3> QED
      BY <3>1, <2>3 DEF g
  <2>7. \A i \in 1 .. m : Compute(o, a, f, i) = Compute(o, a, g, i)
    <3> SUFFICES ASSUME NEW i \in 1 .. m
                 PROVE  Compute(o, a, f, i) = Compute(o, a, g, i)
      OBVIOUS
    <3> HIDE DEF g
    <3>1. i \in Ids /\ \A j \in Ids : j < i => f[j] = g[j]
      BY <1>0, <2>3, <2>6
    <3> QED
      BY <3>1, ComputeLocal
  <2>8. g = [i \in 1 .. m |-> Compute(o, a, g, i)]
    BY <2>7
  <2> QED
    BY <2>3, <2>8
<1>2. \E f : Upto(N, f)
  BY <1>0, <1>1
<1> QED
  BY <1>0, <1>2 DEF Values

\* And only one.
LEMMA ValuesUnique ==
  ASSUME NEW o \in [Ids -> Ops], WellFormed(o), NEW a,
         NEW f, f = [i \in Ids |-> Compute(o, a, f, i)],
         NEW g, g = [i \in Ids |-> Compute(o, a, g, i)]
  PROVE  f = g
<1> DEFINE Differ == {i \in Ids : f[i] # g[i]}
<1>0. Ids \subseteq Nat
  BY DEF Ids
<1>1. Differ = {}
  <2> SUFFICES ASSUME Differ # {} PROVE FALSE
    OBVIOUS
  <2>1. PICK m \in Differ : \A n \in Differ : m <= n
    <3> HIDE DEF Differ
    <3>1. Differ \in SUBSET Nat
      BY <1>0 DEF Differ
    <3> QED
      BY <3>1, Least
  <2>2. m \in Ids /\ f[m] # g[m] /\ \A j \in Ids : j < m => f[j] = g[j]
    BY <1>0, <2>1
  <2>3. Compute(o, a, f, m) = Compute(o, a, g, m)
    BY <2>2, ComputeLocal
  <2>4. f[m] = Compute(o, a, f, m) /\ g[m] = Compute(o, a, g, m)
    BY <2>2
  <2> QED
    BY <2>2, <2>3, <2>4
<1>2. \A i \in Ids : f[i] = g[i]
  BY <1>1
<1> QED
  BY <1>2

-----------------------------------------------------------------------------
Elements == 0 .. Mod - 1
Tensors == Seq(Elements)

LEMMA ModIsNat == Mod \in Nat /\ Mod > 0
BY ElementsAssumption

\* Arithmetic stays within the width.
LEMMA ArithType ==
  ASSUME NEW kind \in {"add", "sub", "mul", "div"}, NEW x \in Elements, NEW y \in Elements
  PROVE  Arith(kind, x, y) \in Elements
<1>0. Mod \in Nat /\ Mod > 0 /\ x \in Nat /\ y \in Nat /\ x < Mod
  BY ModIsNat DEF Elements
<1> HIDE DEF Mod
<1>1. \A z \in Int : z % Mod \in Elements
  BY <1>0 DEF Elements
<1>2. CASE kind = "add"
  BY <1>0, <1>1, <1>2 DEF Arith
<1>3. CASE kind = "sub"
  BY <1>0, <1>1, <1>3 DEF Arith
<1>4. CASE kind = "mul"
  <2>1. x * y \in Int
    BY <1>0
  <2> QED
    BY <1>1, <1>4, <2>1 DEF Arith
<1>5. CASE kind = "div"
  <2>1. y # 0 => x \div y \in 0 .. x
    BY <1>0
  <2> QED
    BY <1>0, <1>5, <2>1 DEF Arith, Elements
<1> QED
  BY <1>2, <1>3, <1>4, <1>5

\* The operands of an arithmetic operation have equally many elements.
Matched(o, v) ==
  \A i \in Ids : o[i].kind \in Binaries => Len(v[o[i].args[1]]) = Len(v[o[i].args[2]])

\* The value of an operation is a tensor if those of its operands are.
LEMMA ComputeType ==
  ASSUME NEW o \in [Ids -> Ops], WellFormed(o), NEW a \in [Ids -> Tensors], NEW v, Matched(o, v),
         NEW i \in Ids, \A k \in DOMAIN o[i].args : v[o[i].args[k]] \in Tensors
  PROVE  Compute(o, a, v, i) \in Tensors
<1> DEFINE args == o[i].args
           x(k) == v[args[k]]
<1>0. args \in Seq(Ids) /\ o[i].kind \in Kinds
  BY DEF Ops
<1>1. CASE o[i].kind \in {"arg", "const", "other"}
  BY <1>1 DEF Compute
<1>2. CASE o[i].kind = "neg"
  <2>1. x(1) \in Tensors
    BY <1>0, <1>2 DEF WellFormed
  <2>2. Compute(o, a, v, i) = [k \in DOMAIN x(1) |-> Arith("sub", 0, x(1)[k])]
    BY <1>2 DEF Compute
  <2> HIDE DEF x
  <2>3. 0 \in Elements
    BY ModIsNat DEF Elements
  <2>4. \A k \in DOMAIN x(1) : Arith("sub", 0, x(1)[k]) \in Elements
    BY <2>1, <2>3, ArithType DEF Tensors
  <2> QED
    BY <2>1, <2>2, <2>4 DEF Tensors
<1>3. CASE o[i].kind = "pack"
  <2>1. Compute(o, a, v, i) = FlattenSeq([k \in DOMAIN args |-> x(k)])
    BY <1>3 DEF Compute
  <2>2. [k \in DOMAIN args |-> x(k)] \in Seq(Tensors)
    BY <1>0
  <2> QED
    BY <2>1, <2>2, FlattenSeqType DEF Tensors
<1>4. CASE o[i].kind \in Binaries
  <2>1. x(1) \in Tensors /\ x(2) \in Tensors /\ Len(x(1)) = Len(x(2))
    BY <1>0, <1>4 DEF WellFormed, Matched, Binaries
  <2>2. Compute(o, a, v, i) = [k \in DOMAIN x(1) |-> Arith(o[i].kind, x(1)[k], x(2)[k])]
    BY <1>4 DEF Compute, Binaries
  <2> HIDE DEF x
  <2>3. \A k \in DOMAIN x(1) : x(1)[k] \in Elements /\ x(2)[k] \in Elements
    BY <2>1 DEF Tensors
  <2>4. \A k \in DOMAIN x(1) : Arith(o[i].kind, x(1)[k], x(2)[k]) \in Elements
    BY <1>4, <2>3, ArithType DEF Binaries
  <2>5. DOMAIN x(1) = 1 .. Len(x(1)) /\ Len(x(1)) \in Nat
    BY <2>1 DEF Tensors
  <2>6. [k \in 1 .. Len(x(1)) |-> Arith(o[i].kind, x(1)[k], x(2)[k])] \in Seq(Elements)
    BY <2>4, <2>5
  <2>7. [k \in DOMAIN x(1) |-> Arith(o[i].kind, x(1)[k], x(2)[k])]
          = [k \in 1 .. Len(x(1)) |-> Arith(o[i].kind, x(1)[k], x(2)[k])]
    BY <2>5
  <2> QED
    BY <2>2, <2>6, <2>7 DEF Tensors
<1> QED
  BY <1>0, <1>1, <1>2, <1>3, <1>4 DEF Kinds, Binaries

LEMMA ValuesType ==
  ASSUME NEW o \in [Ids -> Ops], WellFormed(o), NEW a \in [Ids -> Tensors],
         Matched(o, Values(o, a))
  PROVE  Values(o, a) \in [Ids -> Tensors]
<1> DEFINE v == Values(o, a)
           Bad == {i \in Ids : v[i] \notin Tensors}
<1>1. v = [i \in Ids |-> Compute(o, a, v, i)]
  BY ValuesEquation
<1> HIDE DEF v
<1>2. Bad = {}
  <2> SUFFICES ASSUME Bad # {} PROVE FALSE
    OBVIOUS
  <2>1. PICK m \in Bad : \A n \in Bad : m <= n
    <3>1. Bad \in SUBSET Nat
      BY NAssumption DEF Ids
    <3> HIDE DEF Bad
    <3> QED
      BY <3>1, Least
  <2>2. m \in Ids /\ \A k \in DOMAIN o[m].args : o[m].args[k] \in Ids /\ o[m].args[k] < m
    BY DEF Ops, WellFormed
  <2>3. \A k \in DOMAIN o[m].args : v[o[m].args[k]] \in Tensors
    BY <2>1, <2>2, NAssumption DEF Ids
  <2>4. v[m] = Compute(o, a, v, m)
    BY <1>1, <2>2
  <2>5. Compute(o, a, v, m) \in Tensors
    <3>1. Matched(o, v)
      BY DEF v
    <3> QED
      BY <2>2, <2>3, <3>1, ComputeType
  <2> QED
    BY <2>1, <2>4, <2>5
<1> QED
  BY <1>1, <1>2 DEF v

-----------------------------------------------------------------------------
(* That no rewrite changes a value. *)

\* Every operation still has the value it had before the pass, and what is observed
\* is still read by the operation that observes it.
Same == Values(op, attr) = Values(start.op, start.attr)
Observed ==
  \A i \in Ids : start.op[i].kind = "other" =>
    /\ op[i].kind = "other" /\ DOMAIN op[i].args = DOMAIN start.op[i].args
    /\ \A k \in DOMAIN op[i].args :
         Values(op, attr)[op[i].args[k]] = Values(op, attr)[start.op[i].args[k]]

OInv ==
  /\ IInv /\ start \in Graphs /\ attr \in [Ids -> Tensors]
  /\ Matched(op, Values(op, attr)) /\ Same /\ Observed

\* The values are those that the rewritten function computes.
LEMMA Recomputed ==
  ASSUME TypeOK, TypeOK', \A i \in Ids : Compute(op', attr', Values(op, attr), i) = Values(op, attr)[i]
  PROVE  Values(op', attr') = Values(op, attr)
<1>1. Values(op, attr) = [i \in Ids |-> Compute(op, attr, Values(op, attr), i)]
  BY ValuesEquation DEF TypeOK
<1>2. Values(op', attr') = [i \in Ids |-> Compute(op', attr', Values(op', attr'), i)]
  BY ValuesEquation DEF TypeOK
<1>3. Values(op, attr) = [i \in Ids |-> Compute(op', attr', Values(op, attr), i)]
  BY <1>1
<1> QED
  BY <1>2, <1>3, ValuesUnique DEF TypeOK

\* An operation is replaced by a constant that has its value.
LEMMA FoldKeepsValues ==
  ASSUME OInv, TypeOK', NEW e \in Ids, op' = BecomeConst(e), NEW t \in Tensors,
         attr' = [attr EXCEPT ![e] = t], t = Values(op, attr)[e],
         op[e].kind \in {"neg", "pack"}, UNCHANGED start, IInv'
  PROVE  OInv'
<1> DEFINE v == Values(op, attr)
<1>0. v = [i \in Ids |-> Compute(op, attr, v, i)]
  BY ValuesEquation DEF OInv, IInv, TypeOK
<1> HIDE DEF v
<1>1. /\ op'[e] = [kind |-> "const", args |-> << >>] /\ attr'[e] = t
      /\ \A i \in Ids \ {e} : op'[i] = op[i] /\ attr'[i] = attr[i]
      /\ attr' \in [Ids -> Tensors]
  BY DEF BecomeConst, OInv, IInv, TypeOK
<1>2. \A i \in Ids : Compute(op', attr', v, i) = v[i]
  <2> SUFFICES ASSUME NEW i \in Ids PROVE Compute(op', attr', v, i) = v[i]
    OBVIOUS
  <2>1. CASE i = e
    <3>1. Compute(op', attr', v, e) = attr'[e]
      BY <1>1 DEF Compute
    <3>2. attr'[e] = v[e]
      BY <1>1 DEF v
    <3> QED
      BY <2>1, <3>1, <3>2
  <2>2. CASE i # e
    <3>0. i \in Ids \ {e}
      BY <2>2
    <3>1. op'[i] = op[i] /\ attr'[i] = attr[i]
      BY <1>1, <3>0
    <3>2. Compute(op', attr', v, i) = Compute(op, attr, v, i)
      BY <3>1 DEF Compute
    <3> QED
      BY <1>0, <3>2
  <2> QED
    BY <2>1, <2>2
<1>3. Values(op, attr)' = v
  BY <1>2, Recomputed DEF v, OInv, IInv
<1>4. Matched(op', v)
  BY <1>1 DEF OInv, Matched, Binaries, v
<1>5. Observed'
  BY <1>1, <1>3 DEF OInv, Observed, v
<1> QED
  BY <1>1, <1>3, <1>4, <1>5 DEF OInv, Same, v

LEMMA NegKeepsValues ==
  ASSUME OInv, NEW e \in Ids, FoldNeg(e), UNCHANGED start, IInv'
  PROVE  OInv'
<1> DEFINE c == op[e].args[1]
           v == Values(op, attr)
<1>0. v = [i \in Ids |-> Compute(op, attr, v, i)] /\ v \in [Ids -> Tensors]
  BY ValuesEquation, ValuesType DEF OInv, IInv, TypeOK
<1>1. c \in Ids
  BY DEF OInv, IInv, TypeOK, WellFormed, FoldNeg, Ops
<1> HIDE DEF v
<1>2. v[c] = attr[c] /\ attr[c] \in Tensors
  BY <1>0, <1>1 DEF Compute, FoldNeg, IsConst, OInv
<1>3. v[e] = [k \in DOMAIN v[c] |-> Arith("sub", 0, v[c][k])]
  BY <1>0 DEF Compute, FoldNeg
<1>4. \A k \in DOMAIN attr[c] : Arith("sub", 0, attr[c][k]) = (Mod - attr[c][k]) % Mod
  BY <1>2, ModIsNat DEF Arith, Tensors, Elements
<1>5. v[e] = NegAttr(attr[c])
  BY <1>2, <1>3, <1>4 DEF NegAttr
<1> QED
  BY <1>0, <1>5, FoldKeepsValues DEF FoldNeg, v, IInv

LEMMA PackKeepsValues ==
  ASSUME OInv, NEW e \in Ids, FoldPack(e), UNCHANGED start, IInv'
  PROVE  OInv'
<1> DEFINE args == op[e].args
           v == Values(op, attr)
<1>0. v = [i \in Ids |-> Compute(op, attr, v, i)] /\ v \in [Ids -> Tensors]
  BY ValuesEquation, ValuesType DEF OInv, IInv, TypeOK
<1>1. \A k \in DOMAIN args : args[k] \in Ids
  BY DEF OInv, IInv, TypeOK, Ops
<1> HIDE DEF v
<1>2. \A k \in DOMAIN args : v[args[k]] = attr[args[k]]
  BY <1>0, <1>1 DEF Compute, FoldPack, IsConst
<1>3. v[e] = FlattenSeq([k \in DOMAIN args |-> v[args[k]]])
  BY <1>0 DEF Compute, FoldPack
<1>4. [k \in DOMAIN args |-> v[args[k]]] = [k \in DOMAIN args |-> attr[args[k]]]
  BY <1>2
<1>5. v[e] = FlattenSeq([k \in DOMAIN args |-> attr[args[k]]])
  BY <1>3, <1>4
<1> QED
  BY <1>0, <1>5, FoldKeepsValues DEF FoldPack, v, IInv

\* What is added, subtracted, multiplied or divided by does not change an element.
LEMMA Neutral ==
  ASSUME NEW x \in Elements
  PROVE  /\ Arith("add", x, 0) = x /\ Arith("sub", x, 0) = x
         /\ Arith("mul", x, 1) = x /\ Arith("div", x, 1) = x
<1>0. Mod \in Nat /\ Mod > 0 /\ x \in Nat /\ x < Mod
  BY ModIsNat DEF Elements
<1> HIDE DEF Mod
<1>1. x % Mod = x
  BY <1>0
<1>2. (Mod + x) % Mod = x
  BY <1>0
<1>3. x \div 1 = x
  BY <1>0
<1> QED
  BY <1>0, <1>1, <1>2, <1>3 DEF Arith

\* An operation whose right operand is neutral is replaced by its left operand.
LEMMA CanonicalizeKeepsValues ==
  ASSUME OInv, NEW e \in Ids, UNCHANGED start, IInv',
         CanonicalizeZero(e) \/ CanonicalizeOne(e)
  PROVE  OInv'
<1> DEFINE lhs == op[e].args[1]
           rhs == op[e].args[2]
           v == Values(op, attr)
<1>0. v = [i \in Ids |-> Compute(op, attr, v, i)] /\ v \in [Ids -> Tensors]
  BY ValuesEquation, ValuesType DEF OInv, IInv, TypeOK
<1>1. /\ lhs \in Ids /\ rhs \in Ids /\ op[e].kind \in Binaries
      /\ op[rhs].kind = "const" /\ op' = ReplaceAllUses(e, lhs) /\ UNCHANGED attr
      /\ \/ op[e].kind \in {"add", "sub"} /\ \A k \in DOMAIN attr[rhs] : attr[rhs][k] = 0
         \/ op[e].kind \in {"mul", "div"} /\ \A k \in DOMAIN attr[rhs] : attr[rhs][k] = 1
  <2>1. op[e].kind \in Binaries
    BY DEF CanonicalizeZero, CanonicalizeOne, Canonicalize, Binaries
  <2>2. lhs \in Ids /\ rhs \in Ids
    BY <2>1 DEF OInv, IInv, TypeOK, WellFormed, Ops, Binaries
  <2> QED
    BY <2>1, <2>2 DEF CanonicalizeZero, CanonicalizeOne, Canonicalize, IsConst, IsSplat
<1> HIDE DEF v
<1>2. v[rhs] = attr[rhs] /\ Len(v[lhs]) = Len(v[rhs]) /\ v[lhs] \in Tensors /\ v[rhs] \in Tensors
  BY <1>0, <1>1 DEF Compute, OInv, Matched, v
<1>3. DOMAIN v[lhs] = DOMAIN v[rhs] /\ \A k \in DOMAIN v[lhs] : v[lhs][k] \in Elements
  BY <1>2 DEF Tensors
<1>4. v[e] = v[lhs]
  <2>1. v[e] = [k \in DOMAIN v[lhs] |-> Arith(op[e].kind, v[lhs][k], v[rhs][k])]
    BY <1>0, <1>1 DEF Compute, Binaries
  <2>2. \A k \in DOMAIN v[lhs] : Arith(op[e].kind, v[lhs][k], v[rhs][k]) = v[lhs][k]
    BY <1>1, <1>2, <1>3, Neutral
  <2>3. v[e] = [k \in DOMAIN v[lhs] |-> v[lhs][k]]
    BY <2>1, <2>2
  <2> QED
    BY <1>2, <2>3 DEF Tensors
<1>5. \A j \in Ids :
        /\ op'[j].kind = op[j].kind /\ DOMAIN op'[j].args = DOMAIN op[j].args
        /\ \A k \in DOMAIN op[j].args :
             op'[j].args[k] = IF op[j].args[k] = e THEN lhs ELSE op[j].args[k]
  BY <1>1 DEF ReplaceAllUses, OInv, IInv, TypeOK, Ops
<1>6. \A j \in Ids : \A k \in DOMAIN op[j].args : v[op'[j].args[k]] = v[op[j].args[k]]
  BY <1>4, <1>5
<1>7. \A i \in Ids : op[i].kind \in Binaries => 1 \in DOMAIN op[i].args /\ 2 \in DOMAIN op[i].args
  BY DEF OInv, IInv, TypeOK, WellFormed, Ops, Binaries
<1>8. \A i \in Ids : Compute(op', attr', v, i) = v[i]
  <2> SUFFICES ASSUME NEW i \in Ids PROVE Compute(op', attr, v, i) = Compute(op, attr, v, i)
    BY <1>0, <1>1
  <2>1. [k \in DOMAIN op'[i].args |-> v[op'[i].args[k]]] = [k \in DOMAIN op[i].args |-> v[op[i].args[k]]]
    BY <1>5, <1>6
  <2>2. op[i].kind = "neg" => 1 \in DOMAIN op[i].args
    BY DEF OInv, IInv, TypeOK, WellFormed, Ops
  <2>3. op[i].kind \in Kinds
    BY DEF OInv, IInv, TypeOK, Ops
  <2>4. CASE op[i].kind \in {"arg", "const", "other"}
    BY <1>5, <2>4 DEF Compute
  <2>5. CASE op[i].kind = "neg"
    BY <1>5, <1>6, <2>2, <2>5 DEF Compute
  <2>6. CASE op[i].kind = "pack"
    BY <1>5, <2>1, <2>6 DEF Compute
  <2>7. CASE op[i].kind \in Binaries
    BY <1>5, <1>6, <1>7, <2>7 DEF Compute, Binaries
  <2> QED
    BY <2>3, <2>4, <2>5, <2>6, <2>7 DEF Kinds, Binaries
<1>9. Values(op, attr)' = v
  BY <1>8, Recomputed DEF v, OInv, IInv
<1>10. Matched(op', v)
  BY <1>5, <1>6, <1>7 DEF OInv, Matched, v
<1>11. Observed'
  BY <1>5, <1>6, <1>9 DEF OInv, Observed, v
<1> QED
  BY <1>1, <1>9, <1>10, <1>11 DEF OInv, Same, v

LEMMA InitOInv == CarefulInit => OInv
<1> SUFFICES ASSUME CarefulInit PROVE OInv
  OBVIOUS
<1>1. IInv
  BY InitInv
<1>2. start \in Graphs /\ op = start.op /\ attr = start.attr
  BY DEF CarefulInit, Init
<1>3. attr \in [Ids -> Tensors] /\ Matched(op, Values(op, attr))
  BY <1>2, ElementsAssumption DEF Tensors, Elements, Matched, Binaries
<1> QED
  BY <1>1, <1>2, <1>3 DEF OInv, Same, Observed

LEMMA NextOInv == OInv /\ [Next]_vars => OInv'
<1> SUFFICES ASSUME OInv, [Next]_vars PROVE OInv'
  OBVIOUS
<1>1. IInv'
  BY NextInv DEF OInv
<1>2. ASSUME NEW e \in Ids, Rewrite(e) PROVE OInv'
  BY <1>1, <1>2, NegKeepsValues, PackKeepsValues, CanonicalizeKeepsValues DEF Rewrite
<1>3. CASE UNCHANGED vars
  BY <1>1, <1>3 DEF vars, OInv, Same, Observed
<1> QED
  BY <1>2, <1>3 DEF Next

\* Whatever the order of the rewrites, and however large the function and its
\* numbers, what it prints, returns or passes on is what it was before the pass
\* (try_fold_neg, try_fold_pack_op, try_canonicalize_rhs_zero, try_canonicalize_rhs_one).
THEOREM Observations == CarefulSpec => []SameObservations
<1>1. OInv => SameObservations
  BY DEF OInv, Same, Observed, SameObservations
<1> QED
  BY <1>1, InitOInv, NextOInv, PTL DEF CarefulSpec
=============================================================================
