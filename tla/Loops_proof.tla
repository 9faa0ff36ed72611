---------------------------- MODULE Loops_proof -----------------------------
(***************************************************************************)
(* That the rank-0 pass, one loop after the other, settles a loop for good *)
(* and spares the loops that are still to come, and that it misses none:   *)
(* the lowering keeps a function a tree of blocks, and a walk of the tree  *)
(* meets every loop.  And that a function which verifies does so after     *)
(* every step of the lowering and of the pass: replaceOp and rewriteForOp  *)
(* keep operands in sight and of their types, and the walk meets a loop    *)
(* only once, so that none is rewritten which was erased.                  *)
(***************************************************************************)
EXTENDS Loops, Induction, TLAPS

\* The pass makes new operations out of nothing but extract, from_elements and
\* the one loop, which has the body of the old one (scf_for_rank0_scalar.cpp).
LEMMA NewKinds ==
  ASSUME NEW g, NEW f, NEW o \in DOMAIN NewOps(g, f)
  PROVE  \/ NewOps(g, f)[o].kind \in {"tensor.extract", "tensor.from_elements"}
         \/ NewOps(g, f)[o].regions = g.ops[f].regions
PROOF
<1> DEFINE kinds == {"tensor.extract", "tensor.from_elements"}
<1>1. \A p \in DOMAIN InitExtracts(g, f) : InitExtracts(g, f)[p].kind \in kinds
  BY DEF InitExtracts, Op
<1>2. \A p \in DOMAIN Wraps(g, f) : Wraps(g, f)[p].kind \in kinds
  BY DEF Wraps, Wrap, Op
<1>3. \A p \in DOMAIN YieldExtracts(g, f) : YieldExtracts(g, f)[p].kind \in kinds
  BY DEF YieldExtracts, Op
<1>4. \A p \in DOMAIN ResultWraps(g, f) : ResultWraps(g, f)[p].kind \in kinds
  BY DEF ResultWraps, Op
<1>5. NewLoop(g, f).regions = g.ops[f].regions
  BY DEF NewLoop
<1> QED
  BY <1>1, <1>2, <1>3, <1>4, <1>5 DEF NewOps, Joined

\* What was there keeps its kind and its regions (scf_for_rank0_scalar.cpp).
LEMMA KeptKind ==
  ASSUME NEW g, NEW f, NEW o
  PROVE  KeptOp(g, f, o).kind = g.ops[o].kind /\ KeptOp(g, f, o).regions = g.ops[o].regions
  BY DEF KeptOp, WithArgs

\* rewriteForOp erases its loop and nothing else (scf_for_rank0_scalar.cpp).
LEMMA RewrittenOps ==
  ASSUME NEW g, NEW f
  PROVE  /\ DOMAIN rewriteForOp(g, f).ops = (DOMAIN g.ops \ {f}) \cup DOMAIN NewOps(g, f)
         /\ \A o \in DOMAIN g.ops \ {f} : rewriteForOp(g, f).ops[o] = KeptOp(g, f, o)
         /\ \A o \in DOMAIN NewOps(g, f) :
              o \notin DOMAIN g.ops \ {f} => rewriteForOp(g, f).ops[o] = NewOps(g, f)[o]
  BY DEF rewriteForOp, Joined

\* The loops that are still to come are not erased (scf_for_rank0_scalar.cpp).
LEMMA SparesLoops ==
  ASSUME NEW g, NEW f
  PROVE  Loops(g) \ {f} \subseteq Loops(rewriteForOp(g, f))
  BY RewrittenOps, KeptKind DEF Loops

\* A block keeps the types of its arguments, and the body of the loop has no
\* tensor of rank 0 among them (scf_for_rank0_scalar.cpp, step 4).
LEMMA RewrittenTypes ==
  ASSUME NEW g, NEW f, NEW b \in DOMAIN g.blocks
  PROVE  /\ b # LoopBody(g, f) => rewriteForOp(g, f).blocks[b].types = g.blocks[b].types
         /\ b = LoopBody(g, f) =>
              \A k \in DOMAIN rewriteForOp(g, f).blocks[b].types \ {1} :
                rewriteForOp(g, f).blocks[b].types[k].rank # 0
PROOF
<1>1. rewriteForOp(g, f).blocks[b] = KeptBlock(g, f, b)
  BY DEF rewriteForOp
<1>2. b # LoopBody(g, f) => KeptBlock(g, f, b).types = g.blocks[b].types
  BY DEF KeptBlock
<1>3. b = LoopBody(g, f) => KeptBlock(g, f, b).types = Retyped(g.blocks[b].types)
  BY DEF KeptBlock
<1>4. \A types : \A k \in DOMAIN Retyped(types) \ {1} : Retyped(types)[k].rank # 0
  BY DEF Retyped, Unwrapped, ElementType, Ty
<1> QED
  BY <1>1, <1>2, <1>3, <1>4

\* A rewritten loop carries no tensor of rank 0, and no other loop gets one
\* (scf_for_rank0_scalar.cpp).
LEMMA SettlesLoop ==
  ASSUME NEW g, NEW f
  PROVE  Carriers(rewriteForOp(g, f)) \subseteq Carriers(g) \ {f}
PROOF
<1> DEFINE new == rewriteForOp(g, f)
<1> SUFFICES ASSUME NEW o \in Loops(new), NEW b \in DOMAIN new.blocks, b = LoopBody(new, o),
                    NEW k \in DOMAIN new.blocks[b].types \ {1}, new.blocks[b].types[k].rank = 0
             PROVE  o \in Carriers(g) \ {f}
  BY DEF Carriers
<1>1. b \in DOMAIN g.blocks
  BY DEF rewriteForOp
<1>2. b # LoopBody(g, f)
  BY <1>1, RewrittenTypes
<1>3. new.ops[o].regions # g.ops[f].regions
  BY <1>2 DEF LoopBody
<1>4. o \in DOMAIN g.ops \ {f}
  <2>1. SUFFICES ASSUME o \notin DOMAIN g.ops \ {f} PROVE FALSE
    OBVIOUS
  <2>2. o \in DOMAIN NewOps(g, f) /\ new.ops[o] = NewOps(g, f)[o]
    BY <2>1, RewrittenOps DEF Loops
  <2>3. new.ops[o].kind = "scf.for"
    BY DEF Loops
  <2> QED
    BY <1>3, <2>2, <2>3, NewKinds
<1>5. new.ops[o].kind = g.ops[o].kind /\ new.ops[o].regions = g.ops[o].regions
  BY <1>4, RewrittenOps, KeptKind
<1>6. o \in Loops(g) /\ b = LoopBody(g, o)
  BY <1>4, <1>5 DEF Loops, LoopBody
<1>7. new.blocks[b].types = g.blocks[b].types
  BY <1>1, <1>2, RewrittenTypes
<1> QED
  BY <1>1, <1>4, <1>6, <1>7 DEF Carriers

-----------------------------------------------------------------------------
\* A loop that carries no tensor of rank 0 is left alone: its early return
\* (scf_for_rank0_scalar.cpp:47-49).
LEMMA LeftAlone ==
  ASSUME NEW g, NEW f, ~hasRank0TensorIterArg(g, f)
  PROVE  f \notin Carriers(g)
  BY DEF Carriers, hasRank0TensorIterArg, Rank0, LoopBody

\* Rewriting settles the loop at the head and spares the others.
LEMMA SettlesHead ==
  ASSUME RewriteForOp
  PROVE  /\ Loops(ir) \ {Head(forOps)} \subseteq Loops(ir)'
         /\ Carriers(ir)' \subseteq Carriers(ir) \ {Head(forOps)}
PROOF
<1> DEFINE f == Head(forOps)
<1>1. CASE hasRank0TensorIterArg(ir, f)
  <2>1. ir' = rewriteForOp(ir, f)
    BY <1>1 DEF RewriteForOp
  <2>2. Loops(ir)' = Loops(rewriteForOp(ir, f)) /\ Carriers(ir)' = Carriers(rewriteForOp(ir, f))
    BY <2>1 DEF Loops, Carriers, LoopBody
  <2> QED
    BY <2>2, SparesLoops, SettlesLoop
<1>2. CASE ~hasRank0TensorIterArg(ir, f)
  <2>1. ir' = ir
    BY <1>2 DEF RewriteForOp
  <2>2. Loops(ir)' = Loops(ir) /\ Carriers(ir)' = Carriers(ir)
    BY <2>1 DEF Loops, Carriers, LoopBody
  <2> QED
    BY <1>2, <2>2, LeftAlone
<1> QED
  BY <1>1, <1>2

\* Whatever the functions are, a step of the pass settles the loop it takes, and
\* leaves every other loop where it is and without a new tensor of rank 0
\* (scf_for_rank0_scalar.cpp, runOnOperation).
THEOREM RewritingOneLoop == Spec => RewritesOne
PROOF
<1>1. [Next]_vars =>
        [stage = "rewrite" => /\ Loops(ir) \ {Head(forOps)} \subseteq Loops(ir)'
                              /\ Carriers(ir)' \subseteq Carriers(ir) \ {Head(forOps)}]_vars
  BY SettlesHead DEF Next, LowerOp, CollectLoops
<1> QED
  BY <1>1, PTL DEF Spec, RewritesOne

-----------------------------------------------------------------------------
(* Rewriting keeps a function a tree of blocks. *)

\* Two sequences without repetitions and a common element have none together.
LEMMA InjectiveConcat ==
  ASSUME NEW S, NEW x \in Seq(S), NEW y \in Seq(S), IsInjective(x), IsInjective(y),
         ToSet(x) \cap ToSet(y) = {}
  PROVE  IsInjective(x \o y)
PROOF
<1>1. Len(x) \in Nat /\ Len(y) \in Nat /\ DOMAIN x = 1 .. Len(x) /\ DOMAIN y = 1 .. Len(y)
      /\ DOMAIN (x \o y) = 1 .. Len(x) + Len(y)
  OBVIOUS
<1>2. \A k \in DOMAIN (x \o y) :
        \/ k \in DOMAIN x /\ (x \o y)[k] = x[k]
        \/ k > Len(x) /\ k - Len(x) \in DOMAIN y /\ (x \o y)[k] = y[k - Len(x)]
  BY <1>1
<1> SUFFICES ASSUME NEW i \in DOMAIN (x \o y), NEW j \in DOMAIN (x \o y), (x \o y)[i] = (x \o y)[j]
             PROVE  i = j
  BY DEF IsInjective
<1>3. i \in Int /\ j \in Int
  BY <1>1
<1>4. \A k \in DOMAIN x : x[k] \in ToSet(x)
  BY DEF ToSet
<1>5. \A k \in DOMAIN y : y[k] \in ToSet(y)
  BY DEF ToSet
<1>6. CASE i \in DOMAIN x /\ (x \o y)[i] = x[i]
  <2>1. j \in DOMAIN x /\ (x \o y)[j] = x[j]
    BY <1>2, <1>4, <1>5, <1>6
  <2> QED
    BY <1>6, <2>1 DEF IsInjective
<1>7. CASE i > Len(x) /\ i - Len(x) \in DOMAIN y /\ (x \o y)[i] = y[i - Len(x)]
  <2>1. j - Len(x) \in DOMAIN y /\ (x \o y)[j] = y[j - Len(x)]
    BY <1>2, <1>4, <1>5, <1>7
  <2>2. i - Len(x) = j - Len(x)
    BY <1>7, <2>1 DEF IsInjective
  <2> QED
    BY <1>1, <1>3, <2>2
<1> QED
  BY <1>2, <1>6, <1>7

\* A sequence takes the place of an element.
LEMMA Splice ==
  ASSUME NEW ops \in Seq(Nat), IsInjective(ops), NEW o \in ToSet(ops), NEW seq \in Seq(Nat)
  PROVE  /\ Around(ops, o, seq) \in Seq(Nat)
         /\ ToSet(Around(ops, o, seq)) = (ToSet(ops) \ {o}) \cup ToSet(seq)
         /\ IsInjective(seq) /\ ToSet(seq) \cap ToSet(ops) = {} => IsInjective(Around(ops, o, seq))
PROOF
<1> DEFINE at == CHOOSE k \in DOMAIN ops : ops[k] = o
           before == SubSeq(ops, 1, at - 1)
           after == SubSeq(ops, at + 1, Len(ops))
<1>1. at \in DOMAIN ops /\ ops[at] = o
  BY DEF ToSet
<1>2. Around(ops, o, seq) = before \o seq \o after
  BY DEF Around
<1> HIDE DEF at
<1>3. Len(ops) \in Nat /\ DOMAIN ops = 1 .. Len(ops) /\ at \in 1 .. Len(ops)
  BY <1>1
<1>4. /\ before \in Seq(Nat) /\ DOMAIN before = 1 .. at - 1
      /\ \A k \in 1 .. at - 1 : before[k] = ops[k] /\ k \in DOMAIN ops
  BY <1>3
<1>5. /\ after \in Seq(Nat) /\ DOMAIN after = 1 .. Len(ops) - at
      /\ \A k \in 1 .. Len(ops) - at : after[k] = ops[at + k] /\ at + k \in DOMAIN ops
  BY <1>3
<1> HIDE DEF before, after
<1>6. ToSet(before) \cup ToSet(after) = ToSet(ops) \ {o}
  <2>1. ASSUME NEW e \in ToSet(before) PROVE e \in ToSet(ops) \ {o}
    <3>1. PICK k \in 1 .. at - 1 : e = before[k]
      BY <1>4 DEF ToSet
    <3>2. e = ops[k] /\ k \in DOMAIN ops /\ k # at
      BY <1>3, <1>4, <3>1
    <3> QED
      BY <1>1, <3>2 DEF ToSet, IsInjective
  <2>2. ASSUME NEW e \in ToSet(after) PROVE e \in ToSet(ops) \ {o}
    <3>1. PICK k \in 1 .. Len(ops) - at : e = after[k]
      BY <1>5 DEF ToSet
    <3>2. e = ops[at + k] /\ at + k \in DOMAIN ops /\ at + k # at
      BY <1>3, <1>5, <3>1
    <3> QED
      BY <1>1, <3>2 DEF ToSet, IsInjective
  <2>3. ASSUME NEW e \in ToSet(ops) \ {o} PROVE e \in ToSet(before) \cup ToSet(after)
    <3>1. PICK k \in DOMAIN ops : e = ops[k]
      BY DEF ToSet
    <3>2. k \in Int /\ k # at
      BY <1>1, <1>3, <3>1
    <3>3. CASE k < at
      <4>1. k \in 1 .. at - 1
        BY <1>3, <3>3
      <4> QED
        BY <1>4, <3>1, <4>1 DEF ToSet
    <3>4. CASE k > at
      <4>1. k - at \in 1 .. Len(ops) - at /\ at + (k - at) = k
        BY <1>3, <3>4
      <4>2. e = after[k - at]
        BY <1>5, <3>1, <4>1
      <4> QED
        BY <1>5, <4>1, <4>2 DEF ToSet
    <3> QED
      BY <1>3, <3>2, <3>3, <3>4
  <2> QED
    BY <2>1, <2>2, <2>3
<1>7. IsInjective(before) /\ IsInjective(after)
  <2>1. IsInjective(before)
    BY <1>4 DEF IsInjective
  <2>2. ASSUME NEW i \in DOMAIN after, NEW j \in DOMAIN after, after[i] = after[j] PROVE i = j
    <3>1. at + i = at + j
      BY <1>5, <2>2 DEF IsInjective
    <3> QED
      BY <1>3, <1>5, <3>1
  <2> QED
    BY <2>1, <2>2 DEF IsInjective
<1>8. ToSet(before) \cap ToSet(after) = {}
  <2> SUFFICES ASSUME NEW i \in DOMAIN before, NEW j \in DOMAIN after, before[i] = after[j] PROVE FALSE
    BY DEF ToSet
  <2>1. ops[i] = ops[at + j] /\ i \in DOMAIN ops /\ at + j \in DOMAIN ops
    BY <1>4, <1>5
  <2>2. i = at + j
    BY <2>1 DEF IsInjective
  <2> QED
    BY <1>3, <1>4, <1>5, <2>2
<1>9. before \o seq \in Seq(Nat) /\ ToSet(before \o seq) = ToSet(before) \cup ToSet(seq)
  BY <1>4, ToSetConcat
<1> DEFINE front == before \o seq
<1> HIDE DEF front
<1>10. front \o after \in Seq(Nat) /\ ToSet(front \o after) = ToSet(front) \cup ToSet(after)
  <2>1. front \in Seq(Nat)
    BY <1>9 DEF front
  <2> QED
    BY <1>5, <2>1, ToSetConcat
<1>11. ASSUME IsInjective(seq), ToSet(seq) \cap ToSet(ops) = {}
       PROVE  IsInjective((before \o seq) \o after)
  <2>1. ToSet(before) \cap ToSet(seq) = {}
    BY <1>6, <1>11
  <2>2. IsInjective(before \o seq)
    BY <1>4, <1>7, <1>11, <2>1, InjectiveConcat
  <2>3. ToSet(before \o seq) \cap ToSet(after) = {}
    BY <1>6, <1>8, <1>9, <1>11
  <2> QED
    BY <1>5, <1>7, <1>9, <2>2, <2>3, InjectiveConcat
<1> QED
  BY <1>2, <1>6, <1>9, <1>10, <1>11 DEF front

\* The ids of new operations.
LEMMA NewIds ==
  ASSUME NEW n \in Nat, NEW m \in Nat
  PROVE  /\ [i \in 1 .. m |-> n + i - 1] \in Seq(Nat)
         /\ ToSet([i \in 1 .. m |-> n + i - 1]) = n .. n + m - 1
         /\ IsInjective([i \in 1 .. m |-> n + i - 1])
PROOF
<1> DEFINE ids == [i \in 1 .. m |-> n + i - 1]
<1>1. \A i \in 1 .. m : n + i - 1 \in Nat
  OBVIOUS
<1>2. ids \in Seq(Nat)
  BY <1>1
<1>3. DOMAIN ids = 1 .. m /\ \A i \in 1 .. m : ids[i] = n + i - 1
  OBVIOUS
<1> HIDE DEF ids
<1>4. IsInjective(ids)
  BY <1>3 DEF IsInjective
<1>5. ASSUME NEW p \in n .. n + m - 1 PROVE p \in ToSet(ids)
  <2>1. p - n + 1 \in 1 .. m /\ n + (p - n + 1) - 1 = p
    OBVIOUS
  <2> QED
    BY <1>3, <2>1 DEF ToSet
<1>6. ASSUME NEW p \in ToSet(ids) PROVE p \in n .. n + m - 1
  BY <1>3 DEF ToSet
<1> QED
  BY <1>2, <1>4, <1>5, <1>6 DEF ids

\* An operation with other operands is otherwise what it was.
LEMMA OtherOperands ==
  ASSUME NEW op, NEW args
  PROVE  /\ WithArgs(op, args).kind = op.kind /\ WithArgs(op, args).regions = op.regions
         /\ WithArgs(op, args) = WithArgs(WithArgs(op, args), WithArgs(op, args).args)
  BY DEF WithArgs

\* The operations of replaceOp, which has new ones for one that was there.
LEMMA ReplacedOps ==
  ASSUME NEW g, NEW o \in DOMAIN g.ops, NEW new, NEW values,
         g.next \in Nat, DOMAIN g.ops \subseteq 1 .. g.next - 1,
         Len(new) \in Nat, DOMAIN new = 1 .. Len(new)
  PROVE  LET h == replaceOp(g, o, new, values)
             n == g.next
         IN  /\ h.next = n + Len(new)
             /\ DOMAIN h.ops = (DOMAIN g.ops \ {o}) \cup (n .. n + Len(new) - 1)
             /\ \A p \in DOMAIN h.ops : h.ops[p] = WithArgs(h.ops[p], h.ops[p].args)
             /\ \A p \in DOMAIN g.ops \ {o} :
                  h.ops[p].kind = g.ops[p].kind /\ h.ops[p].regions = g.ops[p].regions
             /\ \A i \in 1 .. Len(new) :
                  h.ops[n + i - 1].kind = new[i].kind /\ h.ops[n + i - 1].regions = new[i].regions
PROOF
<1> DEFINE n == g.next
           m == Len(new)
           by == [v \in {OpResult(o, i) : i \in DOMAIN values} |-> values[v[3]]]
           ids == [i \in DOMAIN new |-> n + i - 1]
           op(p) == IF p < n THEN g.ops[p] ELSE new[p - n + 1]
           ops == [p \in (DOMAIN g.ops \ {o}) \cup ToSet(ids) |-> WithArgs(op(p), Renamed(op(p).args, by))]
           h == replaceOp(g, o, new, values)
<1>1. h.next = n + m /\ h.ops = ops
  BY DEF replaceOp
<1>2. ToSet(ids) = n .. n + m - 1
  <2>1. ids = [i \in 1 .. m |-> n + i - 1]
    OBVIOUS
  <2> QED
    BY <2>1, NewIds
<1> HIDE DEF ids, by, h
<1>3. DOMAIN h.ops = (DOMAIN g.ops \ {o}) \cup (n .. n + m - 1)
  BY <1>1, <1>2
<1>4. \A p \in DOMAIN h.ops : h.ops[p] = WithArgs(op(p), Renamed(op(p).args, by))
  BY <1>1, <1>3, <1>2
<1>5. \A p \in DOMAIN g.ops \ {o} : op(p) = g.ops[p]
  OBVIOUS
<1>6. \A i \in 1 .. m : op(n + i - 1) = new[i] /\ n + i - 1 \in n .. n + m - 1
  OBVIOUS
<1> HIDE DEF op, ops
<1>7. \A p \in DOMAIN h.ops : h.ops[p] = WithArgs(h.ops[p], h.ops[p].args)
  BY <1>4, OtherOperands
<1>8. \A p \in DOMAIN h.ops : h.ops[p].kind = op(p).kind /\ h.ops[p].regions = op(p).regions
  BY <1>4, OtherOperands
<1>9. \A p \in DOMAIN g.ops \ {o} : h.ops[p].kind = g.ops[p].kind /\ h.ops[p].regions = g.ops[p].regions
  BY <1>3, <1>5, <1>8
<1>10. \A i \in 1 .. m : h.ops[n + i - 1].kind = new[i].kind /\ h.ops[n + i - 1].regions = new[i].regions
  BY <1>3, <1>6, <1>8
<1> QED
  BY <1>1, <1>3, <1>7, <1>9, <1>10 DEF h

\* Its blocks: the one with the operation has the new ones instead.
LEMMA ReplacedBlocks ==
  ASSUME NEW g, IsTree(g), NEW o \in DOMAIN g.ops, NEW new, NEW values,
         Len(new) \in Nat, DOMAIN new = 1 .. Len(new)
  PROVE  LET h == replaceOp(g, o, new, values)
             n == g.next
             at == BlockOf(g, o)
         IN  /\ h.blocks \in Seq(Blocks) /\ DOMAIN h.blocks = DOMAIN g.blocks
             /\ at \in DOMAIN g.blocks /\ o \in ToSet(g.blocks[at].ops)
             /\ ToSet(h.blocks[at].ops) = (ToSet(g.blocks[at].ops) \ {o}) \cup (n .. n + Len(new) - 1)
             /\ IsInjective(h.blocks[at].ops)
             /\ \A b \in DOMAIN g.blocks \ {at} : h.blocks[b] = g.blocks[b]
PROOF
<1> DEFINE n == g.next
           m == Len(new)
           ids == [i \in DOMAIN new |-> n + i - 1]
           at == BlockOf(g, o)
           h == replaceOp(g, o, new, values)
           list == Around(g.blocks[at].ops, o, ids)
<1>1. g.next \in Nat /\ g.blocks \in Seq(Blocks) /\ DOMAIN g.ops \subseteq 1 .. n - 1
  BY DEF IsTree
<1>2. at \in DOMAIN g.blocks /\ o \in ToSet(g.blocks[at].ops)
  BY DEF IsTree, BlockOf
<1>3. ids \in Seq(Nat) /\ IsInjective(ids) /\ ToSet(ids) = n .. n + m - 1
  <2>1. ids = [i \in 1 .. m |-> n + i - 1]
    OBVIOUS
  <2> QED
    BY <1>1, <2>1, NewIds
<1>4. h.blocks = [g.blocks EXCEPT ![at].ops = list]
  BY DEF replaceOp
<1> HIDE DEF ids, at
<1>5. /\ g.blocks[at] \in Blocks /\ g.blocks[at].ops \in Seq(Nat) /\ IsInjective(g.blocks[at].ops)
      /\ ToSet(g.blocks[at].ops) \subseteq DOMAIN g.ops
  <2>1. g.blocks[at] \in Blocks
    BY <1>1, <1>2
  <2>2. IsInjective(g.blocks[at].ops) /\ ToSet(g.blocks[at].ops) \subseteq DOMAIN g.ops
    BY <1>2 DEF IsTree
  <2> QED
    BY <2>1, <2>2 DEF Blocks
<1>6. ToSet(ids) \cap ToSet(g.blocks[at].ops) = {}
  BY <1>1, <1>3, <1>5
<1>7. /\ list \in Seq(Nat) /\ IsInjective(list)
      /\ ToSet(list) = (ToSet(g.blocks[at].ops) \ {o}) \cup ToSet(ids)
  <2> DEFINE was == g.blocks[at].ops
  <2>1. was \in Seq(Nat) /\ IsInjective(was) /\ o \in ToSet(was) /\ ToSet(ids) \cap ToSet(was) = {}
    BY <1>2, <1>5, <1>6
  <2> HIDE DEF was
  <2>2. /\ Around(was, o, ids) \in Seq(Nat)
        /\ ToSet(Around(was, o, ids)) = (ToSet(was) \ {o}) \cup ToSet(ids)
        /\ IsInjective(ids) /\ ToSet(ids) \cap ToSet(was) = {} => IsInjective(Around(was, o, ids))
    <3>1. ids \in Seq(Nat)
      BY <1>3
    <3> QED
      BY <2>1, <3>1, Splice, Zenon
  <2> QED
    BY <1>3, <2>1, <2>2 DEF was
<1> HIDE DEF list, h
<1>8. DOMAIN h.blocks = DOMAIN g.blocks
  BY <1>4
<1>9. h.blocks[at] \in Blocks /\ h.blocks[at].ops = list
  <2>1. h.blocks[at] = [g.blocks[at] EXCEPT !.ops = list]
    BY <1>1, <1>2, <1>4
  <2> QED
    BY <1>5, <1>7, <2>1 DEF Blocks
<1>10. \A b \in DOMAIN g.blocks \ {at} : h.blocks[b] = g.blocks[b]
  BY <1>4
<1>11. h.blocks \in Seq(Blocks)
  <2>1. \A b \in DOMAIN g.blocks : h.blocks[b] \in Blocks
    BY <1>1, <1>9, <1>10
  <2>2. DOMAIN g.blocks = 1 .. Len(g.blocks) /\ Len(g.blocks) \in Nat
    BY <1>1
  <2>3. h.blocks = [b \in 1 .. Len(g.blocks) |-> h.blocks[b]]
    BY <1>4, <2>2
  <2>4. h.blocks \in [1 .. Len(g.blocks) -> Blocks]
    BY <2>1, <2>2, <2>3
  <2> QED
    BY <2>2, <2>4
<1> QED
  BY <1>2, <1>3, <1>7, <1>8, <1>9, <1>10, <1>11 DEF h, at

\* replaceOp keeps the tree if one of the new operations takes over the regions.
LEMMA ReplacedTree ==
  ASSUME NEW g, IsTree(g), NEW o \in DOMAIN g.ops, NEW new, NEW values,
         Len(new) \in Nat, DOMAIN new = 1 .. Len(new),
         \A i \in 1 .. Len(new) : /\ new[i].kind # "colgm.cast"
                                  /\ new[i].regions \in {<< >>, g.ops[o].regions},
         g.ops[o].regions # << >> => \E i \in 1 .. Len(new) : new[i].regions = g.ops[o].regions
  PROVE  IsTree(replaceOp(g, o, new, values))
PROOF
<1> DEFINE n == g.next
           m == Len(new)
           at == BlockOf(g, o)
           h == replaceOp(g, o, new, values)
<1>1. /\ n \in Nat /\ m \in Nat /\ DOMAIN g.ops \subseteq 1 .. n - 1
      /\ g.blocks \in Seq(Blocks) /\ g.blocks # << >>
  BY DEF IsTree
<1>2. /\ h.next = n + m
      /\ DOMAIN h.ops = (DOMAIN g.ops \ {o}) \cup (n .. n + m - 1)
      /\ \A p \in DOMAIN h.ops : h.ops[p] = WithArgs(h.ops[p], h.ops[p].args)
      /\ \A p \in DOMAIN g.ops \ {o} :
           h.ops[p].kind = g.ops[p].kind /\ h.ops[p].regions = g.ops[p].regions
      /\ \A i \in 1 .. m :
           h.ops[n + i - 1].kind = new[i].kind /\ h.ops[n + i - 1].regions = new[i].regions
  BY <1>1, ReplacedOps
<1>3. /\ h.blocks \in Seq(Blocks) /\ DOMAIN h.blocks = DOMAIN g.blocks
      /\ at \in DOMAIN g.blocks /\ o \in ToSet(g.blocks[at].ops)
      /\ ToSet(h.blocks[at].ops) = (ToSet(g.blocks[at].ops) \ {o}) \cup (n .. n + m - 1)
      /\ IsInjective(h.blocks[at].ops)
      /\ \A b \in DOMAIN g.blocks \ {at} : h.blocks[b] = g.blocks[b]
  BY ReplacedBlocks
<1> HIDE DEF h, at, n, m
<1>4. \A p \in n .. n + m - 1 : \E i \in 1 .. m : p = n + i - 1
  <2> SUFFICES ASSUME NEW p \in n .. n + m - 1 PROVE \E i \in 1 .. m : p = n + i - 1
    OBVIOUS
  <2>1. p - n + 1 \in 1 .. m /\ p = n + (p - n + 1) - 1
    BY <1>1
  <2> QED
    BY <2>1
<1>5. /\ \A p \in n .. n + m - 1 : /\ h.ops[p].kind # "colgm.cast"
                                   /\ h.ops[p].regions \in {<< >>, g.ops[o].regions}
      /\ g.ops[o].regions # << >> => \E p \in n .. n + m - 1 : h.ops[p].regions = g.ops[o].regions
  <2>1. \A i \in 1 .. m : n + i - 1 \in n .. n + m - 1
    BY <1>1
  <2>2. \A i \in 1 .. m : /\ h.ops[n + i - 1].kind # "colgm.cast"
                          /\ h.ops[n + i - 1].regions \in {<< >>, g.ops[o].regions}
    BY <1>2 DEF m
  <2>3. g.ops[o].regions # << >> => \E i \in 1 .. m : h.ops[n + i - 1].regions = g.ops[o].regions
    BY <1>2 DEF m
  <2>4. \A p \in n .. n + m - 1 : /\ h.ops[p].kind # "colgm.cast"
                                  /\ h.ops[p].regions \in {<< >>, g.ops[o].regions}
    BY <1>4, <2>2
  <2> QED
    BY <2>1, <2>3, <2>4
<1>6. \A p \in n .. n + m - 1 : p \notin DOMAIN g.ops
  BY <1>1
<1>7. h.next \in Nat /\ DOMAIN h.ops \subseteq 1 .. h.next - 1
  <2>1. o \in 1 .. n - 1
    BY <1>1
  <2>2. n .. n + m - 1 \subseteq 1 .. n + m - 1
    BY <1>1, <2>1
  <2>3. 1 .. n - 1 \subseteq 1 .. n + m - 1
    BY <1>1
  <2>4. n + m \in Nat
    BY <1>1
  <2> QED
    BY <1>1, <1>2, <2>2, <2>3, <2>4
<1>8. h.blocks # << >>
  <2>1. DOMAIN g.blocks # {}
    BY <1>3
  <2> QED
    BY <1>3, <2>1
<1>9. ASSUME NEW p \in DOMAIN h.ops
      PROVE  /\ h.ops[p] = WithArgs(h.ops[p], h.ops[p].args)
             /\ h.ops[p].regions \in Seq(DOMAIN h.blocks)
             /\ h.ops[p].kind = "colgm.cast" => h.ops[p].regions = << >>
             /\ \E b \in DOMAIN h.blocks : p \in ToSet(h.blocks[b].ops)
  <2>1. h.ops[p] = WithArgs(h.ops[p], h.ops[p].args)
    BY <1>2
  <2>2. CASE p \in DOMAIN g.ops \ {o}
    <3>1. h.ops[p].kind = g.ops[p].kind /\ h.ops[p].regions = g.ops[p].regions
      BY <1>2, <2>2
    <3>2. /\ g.ops[p].regions \in Seq(DOMAIN g.blocks)
          /\ g.ops[p].kind = "colgm.cast" => g.ops[p].regions = << >>
      BY <2>2 DEF IsTree
    <3>3. PICK b \in DOMAIN g.blocks : p \in ToSet(g.blocks[b].ops)
      BY <2>2 DEF IsTree
    <3>4. p \in ToSet(h.blocks[b].ops)
      BY <1>3, <2>2, <3>3
    <3> QED
      BY <1>3, <2>1, <3>1, <3>2, <3>3, <3>4
  <2>3. CASE p \in n .. n + m - 1
    <3>1. h.ops[p].kind # "colgm.cast" /\ h.ops[p].regions \in {<< >>, g.ops[o].regions}
      BY <1>5, <2>3
    <3>2. g.ops[o].regions \in Seq(DOMAIN g.blocks)
      BY DEF IsTree
    <3>3. h.ops[p].regions \in Seq(DOMAIN h.blocks)
      <4>1. << >> \in Seq(DOMAIN h.blocks)
        OBVIOUS
      <4> QED
        BY <1>3, <3>1, <3>2, <4>1
    <3>4. p \in ToSet(h.blocks[at].ops) /\ at \in DOMAIN h.blocks
      BY <1>3, <2>3
    <3> QED
      BY <2>1, <3>1, <3>3, <3>4
  <2> QED
    BY <1>2, <2>2, <2>3
<1>10. ASSUME NEW b \in DOMAIN h.blocks
       PROVE  /\ ToSet(h.blocks[b].ops) \subseteq DOMAIN h.ops /\ IsInjective(h.blocks[b].ops)
              /\ \A c \in DOMAIN h.blocks \ {b} : ToSet(h.blocks[b].ops) \cap ToSet(h.blocks[c].ops) = {}
              /\ \A p \in ToSet(h.blocks[b].ops) : \A r \in ToSet(h.ops[p].regions) : r > b
              /\ b # 1 => \E p \in DOMAIN h.ops : b \in ToSet(h.ops[p].regions)
  <2>1. \A c \in DOMAIN g.blocks : ToSet(g.blocks[c].ops) \subseteq DOMAIN g.ops /\ IsInjective(g.blocks[c].ops)
    BY DEF IsTree
  <2>2. \A c \in DOMAIN g.blocks : \A d \in DOMAIN g.blocks \ {c} :
          ToSet(g.blocks[c].ops) \cap ToSet(g.blocks[d].ops) = {}
    BY DEF IsTree
  <2>3. \A c \in DOMAIN g.blocks : c # at => h.blocks[c] = g.blocks[c] /\ o \notin ToSet(g.blocks[c].ops)
    BY <1>3, <2>2
  <2>4. ToSet(h.blocks[b].ops) \subseteq DOMAIN h.ops /\ IsInjective(h.blocks[b].ops)
    BY <1>2, <1>3, <2>1, <2>3
  <2>5. ASSUME NEW c \in DOMAIN h.blocks \ {b}
        PROVE  ToSet(h.blocks[b].ops) \cap ToSet(h.blocks[c].ops) = {}
    <3>1. ToSet(g.blocks[b].ops) \cap ToSet(g.blocks[c].ops) = {}
      BY <1>3, <2>2
    <3>2. \A d \in DOMAIN g.blocks : \A p \in ToSet(g.blocks[d].ops) : p \notin n .. n + m - 1
      BY <1>6, <2>1
    <3> QED
      BY <1>3, <2>3, <3>1, <3>2
  <2>6. ASSUME NEW p \in ToSet(h.blocks[b].ops), NEW r \in ToSet(h.ops[p].regions) PROVE r > b
    <3>1. CASE p \in n .. n + m - 1
      <4>1. b = at
        BY <1>3, <1>6, <2>1, <2>3, <3>1
      <4>2. h.ops[p].regions # << >>
        BY DEF ToSet
      <4>3. r \in ToSet(g.ops[o].regions)
        BY <1>5, <3>1, <4>2
      <4> QED
        BY <1>3, <4>1, <4>3 DEF IsTree
    <3>2. CASE p \notin n .. n + m - 1
      <4>1. p \in ToSet(g.blocks[b].ops) /\ p # o
        BY <1>3, <2>3, <3>2
      <4>2. r \in ToSet(g.ops[p].regions)
        BY <1>2, <1>3, <2>1, <4>1
      <4> QED
        BY <1>3, <4>1, <4>2 DEF IsTree
    <3> QED
      BY <3>1, <3>2
  <2>7. ASSUME b # 1 PROVE \E p \in DOMAIN h.ops : b \in ToSet(h.ops[p].regions)
    <3>1. PICK q \in DOMAIN g.ops : b \in ToSet(g.ops[q].regions)
      BY <1>3, <2>7 DEF IsTree
    <3>2. CASE q # o
      BY <1>2, <3>1, <3>2
    <3>3. CASE q = o
      <4>1. g.ops[o].regions # << >>
        BY <3>1, <3>3 DEF ToSet
      <4> QED
        BY <1>2, <1>5, <3>1, <3>3, <4>1
    <3> QED
      BY <3>2, <3>3
  <2> QED
    BY <2>4, <2>5, <2>6, <2>7
<1> QED
  BY <1>3, <1>7, <1>8, <1>9, <1>10 DEF IsTree, h

\* The length of what has a domain like a sequence.
LEMMA FunctionLen ==
  ASSUME NEW k \in Nat, NEW f, f = [i \in 1 .. k |-> f[i]]
  PROVE  Len(f) = k /\ DOMAIN f = 1 .. k
PROOF
<1>1. f \in [1 .. k -> ToSet(f)]
  BY DEF ToSet
<1>2. f \in Seq(ToSet(f))
  BY <1>1
<1> QED
  BY <1>1, <1>2

\* What a cast is made of are operations without regions.
CastKinds ==
  {"arith.extsi", "arith.trunci", "arith.sitofp", "arith.fptosi", "arith.extf", "arith.truncf",
   "arith.index_cast", "tensor.extract", "tensor.from_elements"}

\* The operation that converts, if one is needed, is one of these.
LEMMA ArithCast ==
  ASSUME NEW src, NEW dst, arith_cast(src, dst) # NoCast
  PROVE  arith_cast(src, dst) \in Seq(CastKinds)
PROOF
<1> DEFINE width == [e \in Ints \cup Floats |->
                       CASE e = "i1" -> 1 [] e \in {"i32", "f32"} -> 32 [] OTHER -> 64]
           one == {<<k>> : k \in CastKinds}
<1>1. \A x \in one : x \in Seq(CastKinds)
  <2>1. \A k \in CastKinds : <<k>> \in Seq(CastKinds)
    OBVIOUS
  <2> QED
    BY <2>1
<1>2. << >> \in Seq(CastKinds)
  OBVIOUS
<1>3. arith_cast(src, dst) \in one \cup {<< >>, NoCast}
  <2> HIDE DEF width
  <2>1. <<"arith.extsi">> \in one /\ <<"arith.trunci">> \in one /\ <<"arith.sitofp">> \in one
        /\ <<"arith.fptosi">> \in one /\ <<"arith.extf">> \in one /\ <<"arith.truncf">> \in one
        /\ <<"arith.index_cast">> \in one
    BY DEF CastKinds
  <2> HIDE DEF one
  <2> DEFINE ints == {src, dst} \subseteq Ints
             floats == {src, dst} \subseteq Floats
             index == {src, dst} \cap {"index"} # {} /\ {src, dst} \cap Ints # {}
  <2> HIDE DEF ints, floats, index
  <2>2. arith_cast(src, dst) =
          CASE src = dst -> << >>
            [] ints /\ src # dst -> <<IF width[src] < width[dst] THEN "arith.extsi" ELSE "arith.trunci">>
            [] src \in Ints /\ dst \in Floats -> <<"arith.sitofp">>
            [] src \in Floats /\ dst \in Ints -> <<"arith.fptosi">>
            [] floats /\ src # dst -> <<IF width[src] < width[dst] THEN "arith.extf" ELSE "arith.truncf">>
            [] index -> <<"arith.index_cast">>
            [] OTHER -> NoCast
    BY Zenon DEF arith_cast, ints, floats, index, width
  <2> QED
    BY <2>1, <2>2
<1> QED
  BY <1>1, <1>2, <1>3

\* A cast becomes some operations, none with regions (lowering_cast).
LEMMA CastTree ==
  ASSUME NEW g, IsTree(g), NEW o \in DOMAIN g.ops, g.ops[o].kind = "colgm.cast",
         lowering_cast(g, o) # << >>
  PROVE  IsTree(lowering_cast(g, o)[1])
PROOF
<1> DEFINE input == g.ops[o].args[1]
           src == ValueType(g, input)
           dst == g.ops[o].types[1]
           n == g.next
           kinds == (IF IsTensor(src) THEN <<"tensor.extract">> ELSE << >>)
                    \o arith_cast(src.elem, dst.elem)
                    \o (IF IsTensor(dst) THEN <<"tensor.from_elements">> ELSE << >>)
           type(kind) == CASE kind = "tensor.extract" -> ElementType(src)
                           [] kind = "tensor.from_elements" -> dst
                           [] OTHER -> ElementType(dst)
           new == [i \in DOMAIN kinds |->
                     Op(kinds[i], <<IF i = 1 THEN input ELSE OpResult(n + i - 2, 1)>>, <<type(kinds[i])>>)]
           values == <<OpResult(n + Len(new) - 1, 1)>>
<1>1. lowering_cast(g, o) = <<replaceOp(g, o, new, values)>> /\ arith_cast(src.elem, dst.elem) # NoCast
  BY DEF lowering_cast
<1>2. kinds \in Seq(CastKinds)
  <2> DEFINE a == IF IsTensor(src) THEN <<"tensor.extract">> ELSE << >>
             b == arith_cast(src.elem, dst.elem)
             c == IF IsTensor(dst) THEN <<"tensor.from_elements">> ELSE << >>
  <2>1. <<"tensor.extract">> \in Seq(CastKinds) /\ <<"tensor.from_elements">> \in Seq(CastKinds)
        /\ << >> \in Seq(CastKinds)
    BY DEF CastKinds
  <2>2. a \in Seq(CastKinds) /\ b \in Seq(CastKinds) /\ c \in Seq(CastKinds)
    BY <1>1, <2>1, ArithCast
  <2> HIDE DEF a, b, c
  <2>3. a \o b \o c \in Seq(CastKinds)
    BY <2>2
  <2> QED
    BY <2>3 DEF a, b, c
<1> HIDE DEF kinds, type, input
<1>3. new = [i \in 1 .. Len(kinds) |-> new[i]] /\ Len(kinds) \in Nat
  BY <1>2
<1>4. \A i \in 1 .. Len(kinds) : new[i].kind \in CastKinds /\ new[i].regions = << >>
  BY <1>2 DEF Op
<1> HIDE DEF new, values
<1>5. Len(new) = Len(kinds) /\ DOMAIN new = 1 .. Len(new) /\ Len(new) \in Nat
  BY <1>3, FunctionLen
<1>6. g.ops[o].regions = << >>
  BY DEF IsTree
<1>7. IsTree(replaceOp(g, o, new, values))
  BY <1>4, <1>5, <1>6, ReplacedTree DEF CastKinds
<1> QED
  BY <1>1, <1>7

\* constant, yield and if keep their regions (lowering_constant, lowering_yield,
\* lowering_if).
LEMMA RelabelledTree ==
  ASSUME NEW g, IsTree(g), NEW o \in DOMAIN g.ops, NEW kind, kind # "colgm.cast"
  PROVE  IsTree(Relabelled(g, o, kind)[1])
PROOF
<1> DEFINE op == g.ops[o]
           renamed == [op EXCEPT !.kind = kind]
           new == <<renamed>>
           values == [i \in DOMAIN op.types |-> OpResult(g.next, i)]
<1>1. Relabelled(g, o, kind)[1] = replaceOp(g, o, new, values)
  BY DEF Relabelled
<1>2. op = WithArgs(op, op.args)
  BY DEF IsTree
<1>3. renamed.kind = kind /\ renamed.regions = op.regions
  BY <1>2 DEF WithArgs
<1> HIDE DEF renamed
<1>4. Len(new) = 1 /\ DOMAIN new = 1 .. Len(new) /\ new[1] = renamed
  OBVIOUS
<1> HIDE DEF new, values
<1>5. \A i \in 1 .. Len(new) : /\ new[i].kind # "colgm.cast"
                               /\ new[i].regions \in {<< >>, g.ops[o].regions}
  BY <1>3, <1>4
<1>6. \E i \in 1 .. Len(new) : new[i].regions = g.ops[o].regions
  BY <1>3, <1>4
<1>7. Len(new) \in Nat
  BY <1>4
<1>8. IsTree(replaceOp(g, o, new, values))
  BY <1>4, <1>5, <1>6, <1>7, ReplacedTree
<1> QED
  BY <1>1, <1>8

\* The new loop has the body (lowering_for).
LEMMA ForTree ==
  ASSUME NEW g, IsTree(g), NEW o \in DOMAIN g.ops
  PROVE  IsTree(lowering_for(g, o)[1])
PROOF
<1> DEFINE op == g.ops[o]
           n == g.next
           step == [Op("arith.constant", << >>, <<Index>>) EXCEPT !.value = 1]
           types == [i \in 1 .. Len(op.args) - 2 |-> ValueType(g, op.args[i + 2])]
           loop == [kind |-> "scf.for", args |-> LoopOperands(op.args, OpResult(n, 1)), types |-> types,
                    regions |-> op.regions, value |-> op.value]
           new == <<step, loop>>
           values == [i \in DOMAIN types |-> OpResult(n + 1, i)]
<1>1. lowering_for(g, o)[1] = replaceOp(g, o, new, values)
  BY DEF lowering_for
<1>2. op = WithArgs(op, op.args)
  BY DEF IsTree
<1> HIDE DEF types
<1>3. step.kind = "arith.constant" /\ step.regions = << >>
  BY DEF Op
<1>4. loop.kind = "scf.for" /\ loop.regions = op.regions
  OBVIOUS
<1> HIDE DEF step, loop
<1>5. Len(new) = 2 /\ DOMAIN new = 1 .. Len(new) /\ new[1] = step /\ new[2] = loop
  OBVIOUS
<1> HIDE DEF new, values
<1>6. \A i \in 1 .. Len(new) : i = 1 \/ i = 2
  BY <1>5
<1>7. \A i \in 1 .. Len(new) : /\ new[i].kind # "colgm.cast"
                               /\ new[i].regions \in {<< >>, g.ops[o].regions}
  BY <1>3, <1>4, <1>5, <1>6
<1>8. \E i \in 1 .. Len(new) : new[i].regions = g.ops[o].regions
  BY <1>4, <1>5
<1> QED
  BY <1>1, <1>5, <1>7, <1>8, ReplacedTree

\* Every pattern keeps the tree (lowering.cpp).
LEMMA LoweredTree ==
  ASSUME NEW g, IsTree(g), NEW o \in DOMAIN g.ops, g.ops[o].kind \in Colgm,
         Lowered(g, o) # << >>
  PROVE  IsTree(Lowered(g, o)[1])
PROOF
<1>1. CASE g.ops[o].kind = "colgm.constant"
  BY <1>1, RelabelledTree DEF Lowered
<1>2. CASE g.ops[o].kind = "colgm.yield"
  BY <1>2, RelabelledTree DEF Lowered
<1>3. CASE g.ops[o].kind = "colgm.if"
  BY <1>3, RelabelledTree DEF Lowered
<1>4. CASE g.ops[o].kind = "colgm.for"
  BY <1>4, ForTree DEF Lowered
<1>5. CASE g.ops[o].kind = "colgm.cast"
  <2>1. Lowered(g, o) = lowering_cast(g, o)
    BY <1>5 DEF Lowered
  <2> QED
    BY <1>5, <2>1, CastTree
<1> QED
  BY <1>1, <1>2, <1>3, <1>4, <1>5 DEF Colgm

-----------------------------------------------------------------------------
(* Walking goes everywhere: the inner blocks have the greater numbers. *)

\* What a block's walk is depends on the blocks inside only.
LEMMA VisitLocal ==
  ASSUME NEW g, IsTree(g), NEW S, NEW T, NEW b \in DOMAIN g.blocks, NEW v, NEW w,
         \A r \in DOMAIN g.blocks : r > b => v[r] = w[r]
  PROVE  VisitBlock(g, S, T, v, b) = VisitBlock(g, S, T, w, b)
PROOF
<1> DEFINE ops == g.blocks[b].ops
<1>1. ASSUME NEW o \in ToSet(ops)
      PROVE  VisitOp(g, S, T, v, o) = VisitOp(g, S, T, w, o)
  <2> DEFINE regions == g.ops[o].regions
  <2>1. o \in DOMAIN g.ops /\ \A r \in ToSet(regions) : r > b
    BY DEF IsTree
  <2>2. regions \in Seq(DOMAIN g.blocks)
    BY <2>1 DEF IsTree
  <2>3. \A r \in DOMAIN regions : regions[r] \in DOMAIN g.blocks /\ regions[r] \in ToSet(regions)
    BY <2>2 DEF ToSet
  <2>4. \A r \in DOMAIN regions : v[regions[r]] = w[regions[r]]
    BY <2>1, <2>3
  <2> HIDE DEF regions
  <2>5. [r \in DOMAIN regions |-> v[regions[r]]] = [r \in DOMAIN regions |-> w[regions[r]]]
    BY <2>4
  <2> QED
    BY <2>5, Zenon DEF VisitOp, regions
<1>2. \A k \in DOMAIN ops : ops[k] \in ToSet(ops)
  BY DEF ToSet
<1>3. \A k \in DOMAIN ops : VisitOp(g, S, T, v, ops[k]) = VisitOp(g, S, T, w, ops[k])
  BY <1>1, <1>2
<1>4. [k \in DOMAIN ops |-> VisitOp(g, S, T, v, ops[k])] = [k \in DOMAIN ops |-> VisitOp(g, S, T, w, ops[k])]
  BY <1>3
<1> QED
  BY <1>4, Zenon DEF VisitBlock

\* There is a function that satisfies the equation of walk.
LEMMA WalkExists ==
  ASSUME NEW g, IsTree(g), NEW S, NEW T
  PROVE  \E f : f = [b \in DOMAIN g.blocks |-> VisitBlock(g, S, T, f, b)]
PROOF
<1> DEFINE N == Len(g.blocks)
           From(n, f) == f = [b \in N - n + 1 .. N |-> VisitBlock(g, S, T, f, b)]
           Missing == {n \in 0 .. N : ~\E f : From(n, f)}
<1>1. N \in Nat /\ DOMAIN g.blocks = 1 .. N
  BY DEF IsTree
<1>2. Missing = {}
  <2> SUFFICES ASSUME Missing # {} PROVE FALSE
    OBVIOUS
  <2>1. PICK m \in Missing : \A n \in Missing : m <= n
    <3>1. Missing \in SUBSET Nat
      OBVIOUS
    <3> HIDE DEF Missing
    <3> QED
      BY <3>1, Least
  <2>2. m \in 0 .. N /\ ~\E f : From(m, f)
    BY <2>1
  <2>3. m # 0
    <3>1. N - 0 + 1 .. N = {}
      BY <1>1
    <3>2. From(0, << >>)
      BY <3>1
    <3> QED
      BY <2>2, <3>2
  <2>4. PICK f : From(m - 1, f)
    <3>1. m - 1 \in 0 .. N /\ ~(m <= m - 1)
      BY <1>1, <2>2, <2>3
    <3>2. m - 1 \notin Missing
      <4> HIDE DEF Missing
      <4> QED
        BY <2>1, <3>1
    <3> HIDE DEF From
    <3> QED
      BY <3>1, <3>2
  <2> DEFINE h == [b \in N - m + 1 .. N |-> VisitBlock(g, S, T, f, b)]
  <2>5. \A b \in N - (m - 1) + 1 .. N : h[b] = f[b]
    <3> HIDE DEF h
    <3>1. \A b \in N - (m - 1) + 1 .. N : f[b] = VisitBlock(g, S, T, f, b)
      BY <2>4
    <3>2. N - (m - 1) + 1 .. N \subseteq N - m + 1 .. N
      BY <1>1, <2>2, <2>3
    <3> QED
      BY <3>1, <3>2 DEF h
  <2>6. \A b \in N - m + 1 .. N : VisitBlock(g, S, T, f, b) = VisitBlock(g, S, T, h, b)
    <3> SUFFICES ASSUME NEW b \in N - m + 1 .. N
                 PROVE  VisitBlock(g, S, T, f, b) = VisitBlock(g, S, T, h, b)
      OBVIOUS
    <3> HIDE DEF h
    <3>1. b \in DOMAIN g.blocks
      BY <1>1, <2>2
    <3>2. \A r \in DOMAIN g.blocks : r > b => r \in N - (m - 1) + 1 .. N
      BY <1>1, <2>2, <3>1
    <3>3. \A r \in DOMAIN g.blocks : r > b => f[r] = h[r]
      BY <2>5, <3>2
    <3> QED
      BY <3>1, <3>3, VisitLocal
  <2>7. h = [b \in N - m + 1 .. N |-> VisitBlock(g, S, T, h, b)]
    BY <2>6
  <2> QED
    BY <2>2, <2>7
<1>3. \E f : From(N, f)
  BY <1>1, <1>2
<1>4. N - N + 1 .. N = DOMAIN g.blocks
  BY <1>1
<1> QED
  BY <1>3, <1>4

\* A block's operations and the regions of one, each with its walk.
Pieces(g, S, T, walk, b) ==
  [k \in DOMAIN g.blocks[b].ops |-> VisitOp(g, S, T, walk, g.blocks[b].ops[k])]
Inner(g, walk, o) == [r \in DOMAIN g.ops[o].regions |-> walk[g.ops[o].regions[r]]]

\* They are sequences of what was asked for, if the blocks inside have only that.
LEMMA VisitType ==
  ASSUME NEW g, IsTree(g), NEW S, NEW T, NEW walk, NEW b \in DOMAIN g.blocks,
         \A r \in DOMAIN g.blocks : r > b => walk[r] \in Seq(S \cup T)
  PROVE  /\ Pieces(g, S, T, walk, b) \in Seq(Seq(S \cup T))
         /\ \A o \in ToSet(g.blocks[b].ops) : Inner(g, walk, o) \in Seq(Seq(S \cup T))
PROOF
<1> DEFINE ops == g.blocks[b].ops
<1>1. ASSUME NEW o \in ToSet(ops)
      PROVE  /\ Inner(g, walk, o) \in Seq(Seq(S \cup T))
             /\ VisitOp(g, S, T, walk, o) \in Seq(S \cup T)
  <2> DEFINE regions == g.ops[o].regions
             inner == [r \in DOMAIN regions |-> walk[regions[r]]]
             first == IF o \in S THEN <<o>> ELSE << >>
             last == IF o \in T THEN <<o>> ELSE << >>
  <2>1. o \in DOMAIN g.ops /\ \A r \in ToSet(regions) : r > b
    BY DEF IsTree
  <2>2. regions \in Seq(DOMAIN g.blocks)
    BY <2>1 DEF IsTree
  <2>3. \A r \in DOMAIN regions : walk[regions[r]] \in Seq(S \cup T)
    BY <2>1, <2>2 DEF ToSet
  <2>4. DOMAIN regions = 1 .. Len(regions) /\ Len(regions) \in Nat
    BY <2>2
  <2> HIDE DEF regions
  <2>5. inner \in Seq(Seq(S \cup T))
    BY <2>3, <2>4
  <2>6. FlattenSeq(inner) \in Seq(S \cup T)
    BY <2>5, FlattenSeqType
  <2>7. first \in Seq(S \cup T) /\ last \in Seq(S \cup T)
    <3>1. o \in S \cup T => <<o>> \in Seq(S \cup T)
      OBVIOUS
    <3>2. << >> \in Seq(S \cup T)
      OBVIOUS
    <3> QED
      BY <3>1, <3>2
  <2> HIDE DEF inner, first, last
  <2>8. first \o FlattenSeq(inner) \o last \in Seq(S \cup T)
    BY <2>6, <2>7
  <2> QED
    BY <2>5, <2>8 DEF VisitOp, Inner, first, inner, last, regions
<1>2. Pieces(g, S, T, walk, b) \in Seq(Seq(S \cup T))
  <2>1. ops \in Seq(Nat)
    <3>1. g.blocks \in Seq(Blocks)
      BY DEF IsTree
    <3>2. g.blocks[b] \in Blocks
      BY <3>1
    <3> QED
      BY <3>2 DEF Blocks
  <2>2. DOMAIN ops = 1 .. Len(ops) /\ Len(ops) \in Nat
    BY <2>1
  <2>3. \A k \in DOMAIN ops : ops[k] \in ToSet(ops)
    BY DEF ToSet
  <2>4. Pieces(g, S, T, walk, b) = [k \in DOMAIN ops |-> VisitOp(g, S, T, walk, ops[k])]
    BY DEF Pieces
  <2> HIDE DEF ops
  <2> QED
    BY <1>1, <2>2, <2>3, <2>4
<1> QED
  BY <1>1, <1>2

\* The equation of walk.
Walking(g, S, T, walk) == walk = [b \in DOMAIN g.blocks |-> VisitBlock(g, S, T, walk, b)]

\* The walk of a block has nothing but what was asked for.
LEMMA WalkType ==
  ASSUME NEW g, IsTree(g), NEW S, NEW T, NEW walk, Walking(g, S, T, walk)
  PROVE  \A b \in DOMAIN g.blocks : walk[b] \in Seq(S \cup T)
PROOF
<1> DEFINE N == Len(g.blocks)
           Bad == {b \in DOMAIN g.blocks : walk[b] \notin Seq(S \cup T)}
<1>1. N \in Nat /\ DOMAIN g.blocks = 1 .. N
  BY DEF IsTree
<1>2. Bad = {}
  <2> SUFFICES ASSUME Bad # {} PROVE FALSE
    OBVIOUS
  <2>1. PICK b \in Bad : \A c \in Bad : c <= b
    <3>1. Bad \in SUBSET (0 .. N)
      BY <1>1
    <3> HIDE DEF Bad
    <3> QED
      BY <1>1, <3>1, Greatest
  <2>2. ASSUME NEW r \in DOMAIN g.blocks, r > b PROVE walk[r] \in Seq(S \cup T)
    <3>1. r \notin Bad
      <4>1. b \in Nat /\ r \in Nat /\ ~(r <= b)
        BY <1>1, <2>1, <2>2
      <4> HIDE DEF Bad
      <4> QED
        BY <2>1, <4>1
    <3> QED
      BY <3>1
  <2>3. walk[b] = FlattenSeq(Pieces(g, S, T, walk, b))
    BY <2>1, Zenon DEF Walking, VisitBlock, Pieces
  <2>4. Pieces(g, S, T, walk, b) \in Seq(Seq(S \cup T))
    BY <2>1, <2>2, VisitType
  <2>5. walk[b] \in Seq(S \cup T)
    BY <2>3, <2>4, FlattenSeqType
  <2> QED
    BY <2>1, <2>5
<1> QED
  BY <1>2

\* It has what its operations add, and all that the walks inside have.
LEMMA WalkStep ==
  ASSUME NEW g, IsTree(g), NEW S, NEW T, NEW walk, Walking(g, S, T, walk),
         NEW b \in DOMAIN g.blocks, NEW o \in ToSet(g.blocks[b].ops)
  PROVE  /\ o \in S \cup T => o \in ToSet(walk[b])
         /\ \A r \in ToSet(g.ops[o].regions) : ToSet(walk[r]) \subseteq ToSet(walk[b])
PROOF
<1> DEFINE Q == S \cup T
           pieces == Pieces(g, S, T, walk, b)
           inner == Inner(g, walk, o)
           first == IF o \in S THEN <<o>> ELSE << >>
           last == IF o \in T THEN <<o>> ELSE << >>
           regions == g.ops[o].regions
<1>1. \A c \in DOMAIN g.blocks : walk[c] \in Seq(Q)
  BY WalkType
<1>2. pieces \in Seq(Seq(Q)) /\ inner \in Seq(Seq(Q))
  BY <1>1, VisitType
<1>3. walk[b] = FlattenSeq(pieces)
  BY Zenon DEF Walking, VisitBlock, Pieces
<1>4. PICK k \in DOMAIN g.blocks[b].ops : g.blocks[b].ops[k] = o
  BY DEF ToSet
<1>5. pieces[k] = VisitOp(g, S, T, walk, o) /\ k \in DOMAIN pieces
  BY <1>4 DEF Pieces
<1>6. VisitOp(g, S, T, walk, o) = first \o FlattenSeq(inner) \o last
  BY DEF VisitOp, Inner
<1>7. first \in Seq(Q) /\ last \in Seq(Q)
  <2>1. o \in Q => <<o>> \in Seq(Q)
    OBVIOUS
  <2>2. << >> \in Seq(Q)
    OBVIOUS
  <2> QED
    BY <2>1, <2>2
<1>8. o \in Q => o \in ToSet(first) \cup ToSet(last)
  <2>1. o \in ToSet(<<o>>)
    <3>1. 1 \in DOMAIN <<o>> /\ <<o>>[1] = o
      OBVIOUS
    <3> QED
      BY <3>1 DEF ToSet
  <2> QED
    BY <2>1
<1> HIDE DEF Q, pieces, inner, first, last
<1>9. FlattenSeq(inner) \in Seq(Q)
  BY <1>2, FlattenSeqType
<1>10. ToSet(pieces[k]) = ToSet(first) \cup ToSet(FlattenSeq(inner)) \cup ToSet(last)
  <2> DEFINE front == first \o FlattenSeq(inner)
  <2>1. front \in Seq(Q) /\ ToSet(front) = ToSet(first) \cup ToSet(FlattenSeq(inner))
    BY <1>7, <1>9, ToSetConcat
  <2>2. pieces[k] = front \o last
    BY <1>5, <1>6
  <2> HIDE DEF front
  <2> QED
    BY <1>7, <2>1, <2>2, ToSetConcat
<1>11. \A x \in ToSet(pieces[k]) : x \in ToSet(walk[b])
  <2>1. k \in 1 .. Len(pieces)
    BY <1>2, <1>5
  <2> QED
    BY <1>2, <1>3, <2>1, FlattenSeqElements
<1>12. ASSUME NEW r \in ToSet(regions) PROVE ToSet(walk[r]) \subseteq ToSet(FlattenSeq(inner))
  <2>1. PICK j \in DOMAIN regions : r = regions[j]
    BY DEF ToSet
  <2>2. j \in DOMAIN inner /\ inner[j] = walk[r]
    BY <2>1 DEF inner, Inner
  <2>3. j \in 1 .. Len(inner)
    BY <1>2, <2>2
  <2>4. \A x \in ToSet(inner[j]) : x \in ToSet(FlattenSeq(inner))
    BY <1>2, <2>3, FlattenSeqElements
  <2> QED
    BY <2>2, <2>4
<1> QED
  BY <1>8, <1>10, <1>11, <1>12 DEF Q

\* So the walk of the first block takes everything it was asked for.
LEMMA WalkTakesAll ==
  ASSUME NEW g, IsTree(g), NEW S \in SUBSET DOMAIN g.ops, NEW T \in SUBSET DOMAIN g.ops
  PROVE  /\ Walk(g, S, T) \in Seq(S \cup T)
         /\ S \cup T \subseteq ToSet(Walk(g, S, T))
PROOF
<1> DEFINE walk == CHOOSE f : f = [b \in DOMAIN g.blocks |-> VisitBlock(g, S, T, f, b)]
           N == Len(g.blocks)
           Lost == {b \in DOMAIN g.blocks : ~(ToSet(walk[b]) \subseteq ToSet(walk[1]))}
<1>1. Walk(g, S, T) = walk[1]
  BY Zenon DEF Walk
<1>2. Walking(g, S, T, walk)
  BY WalkExists DEF Walking
<1> HIDE DEF walk
<1>3. N \in Nat /\ DOMAIN g.blocks = 1 .. N /\ 1 \in DOMAIN g.blocks
  <2>1. g.blocks \in Seq(Blocks) /\ g.blocks # << >>
    BY DEF IsTree
  <2> QED
    BY <2>1
<1>4. \A b \in DOMAIN g.blocks : walk[b] \in Seq(S \cup T)
  BY <1>2, WalkType
<1>5. Lost = {}
  <2> SUFFICES ASSUME Lost # {} PROVE FALSE
    OBVIOUS
  <2>1. PICK b \in Lost : \A c \in Lost : b <= c
    <3>1. Lost \in SUBSET Nat
      BY <1>3
    <3> HIDE DEF Lost
    <3> QED
      BY <3>1, Least
  <2>2. b \in DOMAIN g.blocks /\ b # 1 /\ ~(ToSet(walk[b]) \subseteq ToSet(walk[1]))
    BY <2>1
  <2>3. PICK o \in DOMAIN g.ops : b \in ToSet(g.ops[o].regions)
    BY <2>2 DEF IsTree
  <2>4. PICK c \in DOMAIN g.blocks : o \in ToSet(g.blocks[c].ops)
    BY <2>3 DEF IsTree
  <2>5. b > c
    BY <2>3, <2>4 DEF IsTree
  <2>6. c \notin Lost
    <3>1. b \in Nat /\ c \in Nat /\ ~(b <= c)
      BY <1>3, <2>2, <2>4, <2>5
    <3> HIDE DEF Lost
    <3> QED
      BY <2>1, <3>1
  <2>7. ToSet(walk[c]) \subseteq ToSet(walk[1])
    BY <2>4, <2>6
  <2>8. ToSet(walk[b]) \subseteq ToSet(walk[c])
    <3>1. \A r \in ToSet(g.ops[o].regions) : ToSet(walk[r]) \subseteq ToSet(walk[c])
      BY <1>2, <2>4, WalkStep
    <3> QED
      BY <2>3, <3>1
  <2> QED
    BY <2>2, <2>7, <2>8
<1>6. ASSUME NEW o \in S \cup T PROVE o \in ToSet(walk[1])
  <2>1. o \in DOMAIN g.ops
    OBVIOUS
  <2>2. PICK b \in DOMAIN g.blocks : o \in ToSet(g.blocks[b].ops)
    BY <2>1 DEF IsTree
  <2>3. o \in ToSet(walk[b])
    BY <1>2, <2>2, WalkStep
  <2> QED
    BY <1>5, <2>2, <2>3
<1> QED
  BY <1>1, <1>3, <1>4, <1>6

-----------------------------------------------------------------------------
\* While operations are lowered the function is a tree; then every loop that
\* carries a tensor of rank 0 is one of those still to come.
LInv ==
  /\ stage = "lower" => IsTree(ir)
  /\ stage = "rewrite" => forOps \in Seq(Nat) /\ Carriers(ir) \subseteq ToSet(forOps)

\* No operation is lowered yet: the functions verify.
LEMMA LInvInit == Init => LInv
  BY ProgramsAssumption DEF Init, LInv, Valid

\* A lowered operation is one of the function, and the function stays a tree.
LEMMA LInvLower ==
  ASSUME LInv, LowerOp
  PROVE  LInv'
PROOF
<1> DEFINE S == {o \in DOMAIN ir.ops : ir.ops[o].kind \in Colgm}
           o == Head(Todo(ir))
<1>1. stage = "lower" /\ IsTree(ir) /\ Todo(ir) # << >>
  BY DEF LInv, LowerOp
<1>2. Todo(ir) \in Seq(S)
  <2>1. Walk(ir, S, {}) \in Seq(S \cup {})
    BY <1>1, WalkTakesAll
  <2>2. S \cup {} = S
    OBVIOUS
  <2> QED
    BY <2>1, <2>2 DEF Todo
<1>3. o \in S
  BY <1>1, <1>2
<1> HIDE DEF o
<1>4. CASE Lowered(ir, o) = << >>
  <2>1. stage' = "failed"
    BY <1>4 DEF LowerOp, o
  <2> QED
    BY <2>1 DEF LInv
<1>5. CASE Lowered(ir, o) # << >>
  <2>1. ir' = Lowered(ir, o)[1] /\ stage' = "lower"
    BY <1>1, <1>5 DEF LowerOp, o
  <2>2. IsTree(Lowered(ir, o)[1])
    BY <1>1, <1>3, <1>5, LoweredTree
  <2>3. IsTree(ir')
    BY <2>1, <2>2
  <2> QED
    BY <2>1, <2>3 DEF LInv, IsTree
<1> QED
  BY <1>4, <1>5

\* The walk collects every loop.
LEMMA LInvCollect ==
  ASSUME LInv, CollectLoops
  PROVE  LInv'
PROOF
<1>1. IsTree(ir) /\ stage' = "rewrite" /\ forOps' = Collected(ir) /\ ir' = ir
  BY DEF LInv, CollectLoops
<1>2. Loops(ir) \subseteq DOMAIN ir.ops /\ DOMAIN ir.ops \subseteq Nat
  BY <1>1 DEF Loops, IsTree
<1>3. Collected(ir) \in Seq({} \cup Loops(ir)) /\ {} \cup Loops(ir) \subseteq ToSet(Collected(ir))
  BY <1>1, <1>2, WalkTakesAll DEF Collected
<1>4. Collected(ir) \in Seq(Nat)
  BY <1>2, <1>3
<1>5. Carriers(ir) \subseteq ToSet(Collected(ir))
  BY <1>3 DEF Carriers
<1>6. Carriers(ir)' = Carriers(ir)
  BY <1>1 DEF Carriers, Loops, LoopBody
<1> QED
  BY <1>1, <1>4, <1>5, <1>6 DEF LInv

\* The loop at the head is settled, and is not needed any more.
LEMMA LInvRewrite ==
  ASSUME LInv, RewriteForOp, Carriers(ir)' \subseteq Carriers(ir) \ {Head(forOps)}
  PROVE  LInv'
PROOF
<1>1. /\ stage = "rewrite" /\ stage' = "rewrite" /\ forOps # << >> /\ forOps' = Tail(forOps)
      /\ forOps \in Seq(Nat) /\ Carriers(ir) \subseteq ToSet(forOps)
  BY DEF LInv, RewriteForOp
<1>2. Tail(forOps) \in Seq(Nat)
  BY <1>1
<1>3. ToSet(forOps) \ {Head(forOps)} \subseteq ToSet(Tail(forOps))
  <2> SUFFICES ASSUME NEW k \in DOMAIN forOps, forOps[k] # Head(forOps)
               PROVE  forOps[k] \in ToSet(Tail(forOps))
    BY DEF ToSet
  <2>1. DOMAIN forOps = 1 .. Len(forOps) /\ Len(forOps) \in Nat /\ Head(forOps) = forOps[1]
    BY <1>1
  <2>2. k - 1 \in DOMAIN Tail(forOps) /\ Tail(forOps)[k - 1] = forOps[k]
    BY <1>1, <2>1
  <2> QED
    BY <2>2 DEF ToSet
<1>4. Carriers(ir)' \subseteq ToSet(forOps')
  BY <1>1, <1>3
<1> QED
  BY <1>1, <1>2, <1>4 DEF LInv

\* Whatever the functions are, when the pass is done no loop carries a tensor of
\* rank 0 (scf_for_rank0_scalar.cpp, runOnOperation).
THEOREM NoneCarried == Spec => []AllScalar
PROOF
<1>1. Init => LInv
  BY LInvInit
<1>2. LInv /\ [Next]_vars => LInv'
  <2> SUFFICES ASSUME LInv, [Next]_vars PROVE LInv'
    OBVIOUS
  <2>1. CASE LowerOp
    BY <2>1, LInvLower
  <2>2. CASE CollectLoops
    BY <2>2, LInvCollect
  <2>3. CASE RewriteForOp
    BY <2>3, LInvRewrite, SettlesHead
  <2>4. CASE UNCHANGED vars
    <3>1. ir' = ir /\ stage' = stage /\ forOps' = forOps
      BY <2>4 DEF vars
    <3>2. Carriers(ir)' = Carriers(ir)
      BY <3>1 DEF Carriers, Loops, LoopBody
    <3>3. IsTree(ir)' <=> IsTree(ir)
      BY <3>1
    <3> QED
      BY <3>1, <3>2, <3>3 DEF LInv
  <2> QED
    BY <2>1, <2>2, <2>3, <2>4 DEF Next
<1>3. LInv => AllScalar
  <2> SUFFICES ASSUME LInv, stage = "rewrite", forOps = << >> PROVE Carriers(ir) = {}
    BY DEF AllScalar
  <2>1. ToSet(<< >>) = {}
    BY DEF ToSet
  <2> QED
    BY <2>1 DEF LInv
<1> QED
  BY <1>1, <1>2, <1>3, PTL DEF Spec

-----------------------------------------------------------------------------
(* What is in sight. *)

\* The block of an operation that is in some.
LEMMA InBlock ==
  ASSUME NEW g, IsTree(g), NEW o \in DOMAIN g.ops
  PROVE  /\ BlockOf(g, o) \in DOMAIN g.blocks /\ o \in ToSet(g.blocks[BlockOf(g, o)].ops)
         /\ \A b \in DOMAIN g.blocks : o \in ToSet(g.blocks[b].ops) => b = BlockOf(g, o)
PROOF
<1>1. BlockOf(g, o) \in DOMAIN g.blocks /\ o \in ToSet(g.blocks[BlockOf(g, o)].ops)
  BY DEF IsTree, BlockOf
<1>2. ASSUME NEW b \in DOMAIN g.blocks, o \in ToSet(g.blocks[b].ops), b # BlockOf(g, o) PROVE FALSE
  <2>1. ToSet(g.blocks[b].ops) \cap ToSet(g.blocks[BlockOf(g, o)].ops) = {}
    BY <1>1, <1>2 DEF IsTree
  <2> QED
    BY <1>1, <1>2, <2>1
<1> QED
  BY <1>1, <1>2

\* A block's number is greater than that of the block around it.
LEMMA OwnerAround ==
  ASSUME NEW g, IsTree(g), NEW b \in DOMAIN g.blocks, b # 1
  PROVE  /\ Owner(g, b) \in DOMAIN g.ops /\ b \in ToSet(g.ops[Owner(g, b)].regions)
         /\ BlockOf(g, Owner(g, b)) \in DOMAIN g.blocks /\ BlockOf(g, Owner(g, b)) < b
         /\ Owner(g, b) \in ToSet(g.blocks[BlockOf(g, Owner(g, b))].ops)
PROOF
<1>1. Owner(g, b) \in DOMAIN g.ops /\ b \in ToSet(g.ops[Owner(g, b)].regions)
  BY DEF IsTree, Owner
<1>2. /\ BlockOf(g, Owner(g, b)) \in DOMAIN g.blocks
      /\ Owner(g, b) \in ToSet(g.blocks[BlockOf(g, Owner(g, b))].ops)
  BY <1>1, InBlock
<1>3. b > BlockOf(g, Owner(g, b))
  BY <1>1, <1>2 DEF IsTree
<1>4. DOMAIN g.blocks \subseteq Nat
  BY DEF IsTree
<1> QED
  BY <1>1, <1>2, <1>3, <1>4

\* What is in sight in a block depends on the blocks around it only.
LEMMA SightLocal ==
  ASSUME NEW g, IsTree(g), NEW b \in DOMAIN g.blocks, NEW v, NEW w,
         \A c \in DOMAIN g.blocks : c < b => v[c] = w[c]
  PROVE  Sight(g, v, b) = Sight(g, w, b)
PROOF
<1>1. CASE b = 1
  BY <1>1 DEF Sight
<1>2. CASE b # 1
  <2>1. v[BlockOf(g, Owner(g, b))] = w[BlockOf(g, Owner(g, b))]
    BY <1>2, OwnerAround
  <2> QED
    BY <2>1, Zenon DEF Sight
<1> QED
  BY <1>1, <1>2

\* The equation of sight.
LEMMA VisibleIs ==
  ASSUME NEW g, IsTree(g)
  PROVE  Visible(g) = [b \in DOMAIN g.blocks |-> Sight(g, Visible(g), b)]
PROOF
<1> DEFINE N == Len(g.blocks)
           To(n, f) == f = [b \in 1 .. n |-> Sight(g, f, b)]
           Missing == {n \in 0 .. N : ~\E f : To(n, f)}
<1>1. N \in Nat /\ DOMAIN g.blocks = 1 .. N
  BY DEF IsTree
<1>2. Missing = {}
  <2> SUFFICES ASSUME Missing # {} PROVE FALSE
    OBVIOUS
  <2>1. PICK m \in Missing : \A n \in Missing : m <= n
    <3>1. Missing \in SUBSET Nat
      OBVIOUS
    <3> HIDE DEF Missing
    <3> QED
      BY <3>1, Least
  <2>2. m \in 0 .. N /\ ~\E f : To(m, f)
    BY <2>1
  <2>3. m # 0
    <3>1. 1 .. 0 = {}
      BY <1>1
    <3>2. To(0, << >>)
      BY <3>1
    <3> QED
      BY <2>2, <3>2
  <2>4. PICK f : To(m - 1, f)
    <3>1. m - 1 \in 0 .. N /\ ~(m <= m - 1)
      BY <1>1, <2>2, <2>3
    <3>2. m - 1 \notin Missing
      <4> HIDE DEF Missing
      <4> QED
        BY <2>1, <3>1
    <3> HIDE DEF To
    <3> QED
      BY <3>1, <3>2
  <2> DEFINE h == [b \in 1 .. m |-> Sight(g, f, b)]
  <2>5. \A b \in 1 .. m - 1 : h[b] = f[b]
    <3> HIDE DEF h
    <3>1. \A b \in 1 .. m - 1 : f[b] = Sight(g, f, b)
      BY <2>4
    <3>2. 1 .. m - 1 \subseteq 1 .. m
      BY <1>1, <2>2, <2>3
    <3> QED
      BY <3>1, <3>2 DEF h
  <2>6. \A b \in 1 .. m : Sight(g, f, b) = Sight(g, h, b)
    <3> SUFFICES ASSUME NEW b \in 1 .. m
                 PROVE  Sight(g, f, b) = Sight(g, h, b)
      OBVIOUS
    <3> HIDE DEF h
    <3>1. b \in DOMAIN g.blocks
      BY <1>1, <2>2
    <3>2. \A c \in DOMAIN g.blocks : c < b => c \in 1 .. m - 1
      BY <1>1, <2>2, <3>1
    <3>3. \A c \in DOMAIN g.blocks : c < b => f[c] = h[c]
      BY <2>5, <3>2
    <3> QED
      BY <3>1, <3>3, SightLocal
  <2>7. h = [b \in 1 .. m |-> Sight(g, h, b)]
    BY <2>6
  <2> QED
    BY <2>2, <2>7
<1>3. \E f : To(N, f)
  BY <1>1, <1>2
<1>4. \E f : f = [b \in DOMAIN g.blocks |-> Sight(g, f, b)]
  BY <1>1, <1>3
<1> QED
  BY <1>4, Zenon DEF Visible

\* A block sees its arguments, and what its owner sees.
InSight(g, b, o) == Visible(g)[b] \cup Before(g, b, o)

\* The first block sees its arguments, another what its owner does as well.
LEMMA Seen ==
  ASSUME NEW g, IsTree(g), NEW b \in DOMAIN g.blocks
  PROVE  /\ b = 1 => Visible(g)[b] = Arguments(g, b)
         /\ b # 1 => Visible(g)[b] = Arguments(g, b) \cup InSight(g, BlockOf(g, Owner(g, b)), Owner(g, b))
PROOF
<1>1. Visible(g)[b] = Sight(g, Visible(g), b)
  BY VisibleIs
<1> QED
  BY <1>1 DEF Sight, InSight

\* A family of sets that are no more than what their blocks see.
LEMMA SeenAtLeast ==
  ASSUME NEW g, IsTree(g), NEW sight, \A b \in DOMAIN g.blocks : sight[b] \subseteq Sight(g, sight, b)
  PROVE  \A b \in DOMAIN g.blocks : sight[b] \subseteq Visible(g)[b]
PROOF
<1> DEFINE Lost == {b \in DOMAIN g.blocks : ~(sight[b] \subseteq Visible(g)[b])}
<1>1. DOMAIN g.blocks \subseteq Nat
  BY DEF IsTree
<1> SUFFICES ASSUME Lost # {} PROVE FALSE
  OBVIOUS
<1>2. PICK b \in Lost : \A c \in Lost : b <= c
  <2>1. Lost \in SUBSET Nat
    BY <1>1
  <2> HIDE DEF Lost
  <2> QED
    BY <2>1, Least
<1>3. b \in DOMAIN g.blocks /\ ~(sight[b] \subseteq Visible(g)[b])
  BY <1>2
<1>4. CASE b = 1
  BY <1>3, <1>4, Seen DEF Sight
<1>5. CASE b # 1
  <2> DEFINE c == BlockOf(g, Owner(g, b))
  <2>1. c \in DOMAIN g.blocks /\ c < b
    BY <1>3, <1>5, OwnerAround
  <2>2. c \notin Lost
    <3>1. ~(b <= c)
      BY <1>1, <1>3, <2>1
    <3> HIDE DEF Lost
    <3> QED
      BY <1>2, <3>1
  <2>3. sight[c] \subseteq Visible(g)[c]
    BY <2>1, <2>2
  <2>4. sight[b] \subseteq Arguments(g, b) \cup (sight[c] \cup Before(g, c, Owner(g, b)))
    BY <1>3, <1>5 DEF Sight
  <2>5. Visible(g)[b] = Arguments(g, b) \cup (Visible(g)[c] \cup Before(g, c, Owner(g, b)))
    BY <1>3, <1>5, Seen DEF InSight
  <2> HIDE DEF c
  <2> QED
    BY <1>3, <2>3, <2>4, <2>5
<1> QED
  BY <1>4, <1>5

\* What a block sees are arguments of it and of blocks around it, and results of
\* operations in blocks around it.
IsOuter(g, b, v) ==
  \/ \E d \in DOMAIN g.blocks : d <= b /\ v \in Arguments(g, d)
  \/ \E p \in DOMAIN g.ops : BlockOf(g, p) < b /\ v \in Results(g, p)

\* A block sees nothing of the blocks inside it.
LEMMA SeenOuter ==
  ASSUME NEW g, IsTree(g)
  PROVE  \A b \in DOMAIN g.blocks : \A v \in Visible(g)[b] : IsOuter(g, b, v)
PROOF
<1> DEFINE Lost == {b \in DOMAIN g.blocks : ~\A v \in Visible(g)[b] : IsOuter(g, b, v)}
<1>1. DOMAIN g.blocks \subseteq Nat
  BY DEF IsTree
<1> SUFFICES ASSUME Lost # {} PROVE FALSE
  OBVIOUS
<1>2. PICK b \in Lost : \A c \in Lost : b <= c
  <2>1. Lost \in SUBSET Nat
    BY <1>1
  <2> HIDE DEF Lost
  <2> QED
    BY <2>1, Least
<1>3. PICK v \in Visible(g)[b] : ~IsOuter(g, b, v)
  BY <1>2
<1>4. b \in DOMAIN g.blocks /\ b \in Nat
  BY <1>1, <1>2
<1>5. v \notin Arguments(g, b)
  BY <1>3, <1>4 DEF IsOuter
<1>6. CASE b = 1
  BY <1>3, <1>4, <1>5, <1>6, Seen
<1>7. CASE b # 1
  <2> DEFINE c == BlockOf(g, Owner(g, b))
  <2>1. c \in DOMAIN g.blocks /\ c < b
    BY <1>4, <1>7, OwnerAround
  <2>2. c \notin Lost
    <3>1. ~(b <= c)
      BY <1>1, <1>4, <2>1
    <3> HIDE DEF Lost
    <3> QED
      BY <1>2, <3>1
  <2>3. Visible(g)[b] = Arguments(g, b) \cup (Visible(g)[c] \cup Before(g, c, Owner(g, b)))
    BY <1>4, <1>7, Seen DEF InSight
  <2>4. CASE v \in Visible(g)[c]
    <3>1. IsOuter(g, c, v)
      BY <2>1, <2>2, <2>4
    <3>2. \A d \in DOMAIN g.blocks : d <= c => d <= b
      BY <1>1, <1>4, <2>1
    <3>3. \A q \in DOMAIN g.ops : BlockOf(g, q) < c => BlockOf(g, q) < b
      <4>1. \A q \in DOMAIN g.ops : BlockOf(g, q) \in Nat
        BY <1>1, InBlock
      <4> QED
        BY <1>1, <1>4, <2>1, <4>1
    <3> HIDE DEF c
    <3>4. IsOuter(g, b, v)
      BY <3>1, <3>2, <3>3 DEF IsOuter
    <3> QED
      BY <1>3, <3>4
  <2>5. CASE v \in Before(g, c, Owner(g, b))
    <3>1. PICK q \in ToSet(g.blocks[c].ops) : v \in Results(g, q)
      BY <2>5 DEF Before
    <3>2. q \in DOMAIN g.ops
      BY <2>1 DEF IsTree
    <3>3. BlockOf(g, q) < b
      BY <2>1, <3>2, InBlock
    <3>4. IsOuter(g, b, v)
      BY <3>1, <3>2, <3>3 DEF IsOuter
    <3> QED
      BY <1>3, <3>4
  <2> HIDE DEF c
  <2> QED
    BY <1>3, <1>5, <2>3, <2>4, <2>5
<1> QED
  BY <1>6, <1>7

\* What an operation sees is an argument of its block or one around it, or a
\* result of another operation.
LEMMA SightIs ==
  ASSUME NEW g, IsTree(g), NEW b \in DOMAIN g.blocks, NEW o \in ToSet(g.blocks[b].ops),
         NEW v \in InSight(g, b, o)
  PROVE  \/ \E d \in DOMAIN g.blocks : d <= b /\ v \in Arguments(g, d)
         \/ \E p \in DOMAIN g.ops \ {o} : v \in Results(g, p)
PROOF
<1>1. o \in DOMAIN g.ops /\ b = BlockOf(g, o) /\ b \in Nat
  <2>1. o \in DOMAIN g.ops /\ DOMAIN g.blocks \subseteq Nat
    BY DEF IsTree
  <2> QED
    BY <2>1, InBlock
<1>2. CASE v \in Visible(g)[b]
  <2>1. IsOuter(g, b, v)
    BY <1>2, SeenOuter
  <2>2. \A p \in DOMAIN g.ops : BlockOf(g, p) < b => p # o
    BY <1>1
  <2> QED
    BY <2>1, <2>2 DEF IsOuter
<1>3. CASE v \in Before(g, b, o)
  <2>1. PICK p \in ToSet(g.blocks[b].ops) : Precedes(g.blocks[b].ops, p, o) /\ v \in Results(g, p)
    BY <1>3 DEF Before
  <2>2. p \in DOMAIN g.ops
    BY DEF IsTree
  <2>3. p # o
    <3> SUFFICES ASSUME p = o PROVE FALSE
      OBVIOUS
    <3>1. PICK j, k \in DOMAIN g.blocks[b].ops : j < k /\ g.blocks[b].ops[j] = o /\ g.blocks[b].ops[k] = o
      BY <2>1 DEF Precedes
    <3>2. j = k
      BY <3>1 DEF IsTree, IsInjective
    <3>3. g.blocks[b].ops \in Seq(Nat)
      <4>1. g.blocks[b] \in Blocks
        BY DEF IsTree
      <4> QED
        BY <4>1 DEF Blocks
    <3>4. j \in Nat
      BY <3>3
    <3> QED
      BY <3>1, <3>2, <3>4
  <2> QED
    BY <2>1, <2>2, <2>3
<1> QED
  BY <1>2, <1>3 DEF InSight

\* The owner of a region is the operation that has it.
LEMMA OwnerIs ==
  ASSUME NEW g, Regular(g), NEW o \in DOMAIN g.ops, NEW b \in ToSet(g.ops[o].regions)
  PROVE  Owner(g, b) = o
PROOF
<1>1. Owner(g, b) \in DOMAIN g.ops /\ b \in ToSet(g.ops[Owner(g, b)].regions)
  BY DEF Owner
<1>2. ASSUME Owner(g, b) # o PROVE FALSE
  <2>1. ToSet(g.ops[o].regions) \cap ToSet(g.ops[Owner(g, b)].regions) = {}
    BY <1>1, <1>2 DEF Regular
  <2> QED
    BY <1>1, <2>1
<1> QED
  BY <1>2

\* What q sees in its block in g, p sees there in h, under another name.
Stands(g, h, by, b, q, p) ==
  \A v \in Arguments(g, b) \cup Before(g, b, q) : Rename(by, v) \in Arguments(h, b) \cup Before(h, b, p)

\* If that holds for the owners of all blocks, then p sees all that q sees.
LEMMA RenamedSight ==
  ASSUME NEW g, IsTree(g), NEW h, IsTree(h), DOMAIN h.blocks = DOMAIN g.blocks, NEW by,
         \A d \in DOMAIN g.blocks \ {1} :
           /\ BlockOf(h, Owner(h, d)) = BlockOf(g, Owner(g, d))
           /\ Stands(g, h, by, BlockOf(g, Owner(g, d)), Owner(g, d), Owner(h, d)),
         NEW b \in DOMAIN g.blocks, NEW q, NEW p, Stands(g, h, by, b, q, p)
  PROVE  \A v \in InSight(g, b, q) : Rename(by, v) \in InSight(h, b, p)
PROOF
<1> DEFINE sight == [c \in DOMAIN g.blocks |->
                       Arguments(h, c) \cup {Rename(by, v) : v \in Visible(g)[c] \ Arguments(g, c)}]
<1>1. ASSUME NEW c \in DOMAIN g.blocks, NEW y, NEW z, Stands(g, h, by, c, y, z), NEW v \in InSight(g, c, y)
      PROVE  Rename(by, v) \in sight[c] \cup Before(h, c, z)
  <2>1. CASE v \in Arguments(g, c) \cup Before(g, c, y)
    BY <1>1, <2>1 DEF Stands
  <2>2. CASE v \notin Arguments(g, c) \cup Before(g, c, y)
    BY <1>1, <2>2 DEF InSight
  <2> QED
    BY <2>1, <2>2
<1>2. \A d \in DOMAIN h.blocks : sight[d] \subseteq Sight(h, sight, d)
  <2> SUFFICES ASSUME NEW d \in DOMAIN h.blocks, NEW w \in sight[d], w \notin Arguments(h, d)
               PROVE  w \in Sight(h, sight, d)
    BY DEF Sight
  <2>1. PICK v \in Visible(g)[d] \ Arguments(g, d) : w = Rename(by, v)
    OBVIOUS
  <2>2. d \in DOMAIN g.blocks /\ d # 1
    BY <2>1, Seen
  <2> DEFINE c == BlockOf(g, Owner(g, d))
  <2>3. v \in InSight(g, c, Owner(g, d))
    BY <2>1, <2>2, Seen
  <2>4. c \in DOMAIN g.blocks
    BY <2>2, OwnerAround
  <2>5. BlockOf(h, Owner(h, d)) = c /\ Stands(g, h, by, c, Owner(g, d), Owner(h, d))
    BY <2>2
  <2> HIDE DEF c, sight
  <2>6. w \in sight[c] \cup Before(h, c, Owner(h, d))
    BY <1>1, <2>1, <2>3, <2>4, <2>5
  <2>7. Sight(h, sight, d) = Arguments(h, d) \cup (sight[c] \cup Before(h, c, Owner(h, d)))
    BY <2>2, <2>5 DEF Sight
  <2> QED
    BY <2>6, <2>7
<1>3. sight[b] \subseteq Visible(h)[b]
  <2> HIDE DEF sight
  <2> QED
    BY <1>2, SeenAtLeast
<1> SUFFICES ASSUME NEW v \in InSight(g, b, q) PROVE Rename(by, v) \in InSight(h, b, p)
  OBVIOUS
<1>4. Rename(by, v) \in sight[b] \cup Before(h, b, p)
  BY <1>1
<1> HIDE DEF sight
<1> QED
  BY <1>3, <1>4 DEF InSight

\* Arguments are in sight.
LEMMA SeesArguments ==
  ASSUME NEW g, IsTree(g), NEW b \in DOMAIN g.blocks
  PROVE  Arguments(g, b) \subseteq Visible(g)[b]
  BY Seen

\* What a function is for an operation: its operands are in sight.
LEMMA Operands ==
  ASSUME NEW g, Dominated(g), NEW b \in DOMAIN g.blocks, NEW o \in ToSet(g.blocks[b].ops)
  PROVE  g.ops[o].args \in Seq(InSight(g, b, o))
  BY Zenon DEF Dominated, InSight

\* The other way round, for a function all of whose operands are in sight.
LEMMA AllOperands ==
  ASSUME NEW g, \A b \in DOMAIN g.blocks : \A o \in ToSet(g.blocks[b].ops) :
                  g.ops[o].args \in Seq(InSight(g, b, o))
  PROVE  Dominated(g)
  BY Zenon DEF Dominated, InSight

-----------------------------------------------------------------------------
(* Orders in sequences. *)

\* The order in a concatenation.
LEMMA PrecedesConcat ==
  ASSUME NEW S, NEW x \in Seq(S), NEW y \in Seq(S), NEW p, NEW q
  PROVE  /\ Precedes(x, p, q) => Precedes(x \o y, p, q)
         /\ Precedes(y, p, q) => Precedes(x \o y, p, q)
         /\ p \in ToSet(x) /\ q \in ToSet(y) => Precedes(x \o y, p, q)
PROOF
<1> DEFINE z == x \o y
<1>1. Len(x) \in Nat /\ Len(y) \in Nat /\ DOMAIN x = 1 .. Len(x) /\ DOMAIN y = 1 .. Len(y)
      /\ DOMAIN z = 1 .. Len(x) + Len(y)
  OBVIOUS
<1>2. \A k \in DOMAIN x : k \in DOMAIN z /\ z[k] = x[k]
  BY <1>1
<1>3. \A k \in DOMAIN y : Len(x) + k \in DOMAIN z /\ z[Len(x) + k] = y[k]
  BY <1>1
<1> HIDE DEF z
<1>4. ASSUME Precedes(x, p, q) PROVE Precedes(z, p, q)
  BY <1>2, <1>4 DEF Precedes
<1>5. ASSUME Precedes(y, p, q) PROVE Precedes(z, p, q)
  <2>1. PICK j, k \in DOMAIN y : j < k /\ y[j] = p /\ y[k] = q
    BY <1>5 DEF Precedes
  <2>2. Len(x) + j < Len(x) + k
    BY <1>1, <2>1
  <2> QED
    BY <1>3, <2>1, <2>2 DEF Precedes
<1>6. ASSUME p \in ToSet(x), q \in ToSet(y) PROVE Precedes(z, p, q)
  <2>1. PICK j \in DOMAIN x : x[j] = p
    BY <1>6 DEF ToSet
  <2>2. PICK k \in DOMAIN y : y[k] = q
    BY <1>6 DEF ToSet
  <2>3. j < Len(x) + k
    BY <1>1
  <2> QED
    BY <1>2, <1>3, <2>1, <2>2, <2>3 DEF Precedes
<1> QED
  BY <1>4, <1>5, <1>6 DEF z

\* Its last element.
LEMMA LastConcat ==
  ASSUME NEW S, NEW x \in Seq(S), NEW y \in Seq(S)
  PROVE  /\ y # << >> => Last(x \o y) = Last(y) /\ x \o y # << >>
         /\ y = << >> => x \o y = x
PROOF
<1>1. CASE y # << >>
  <2>1. Len(y) \in Nat /\ Len(y) >= 1 /\ Len(x) \in Nat
    BY <1>1
  <2>2. Len(x \o y) = Len(x) + Len(y)
    OBVIOUS
  <2>3. (x \o y)[Len(x) + Len(y)] = y[Len(y)]
    BY <2>1
  <2>4. x \o y # << >>
    BY <2>1, <2>2
  <2> QED
    BY <2>2, <2>3, <2>4 DEF Last
<1>2. CASE y = << >>
  BY <1>2
<1> QED
  BY <1>1, <1>2

\* What a sequence in the place of an element comes before and behind.
LEMMA AroundOrder ==
  ASSUME NEW ops \in Seq(Nat), IsInjective(ops), NEW o \in ToSet(ops), NEW seq \in Seq(Nat)
  PROVE  /\ \A p, q : p # o /\ q # o /\ Precedes(ops, p, q) => Precedes(Around(ops, o, seq), p, q)
         /\ \A p : Precedes(ops, p, o) => \A x \in ToSet(seq) : Precedes(Around(ops, o, seq), p, x)
         /\ \A q : Precedes(ops, o, q) => \A x \in ToSet(seq) : Precedes(Around(ops, o, seq), x, q)
         /\ \A x, y : Precedes(seq, x, y) => Precedes(Around(ops, o, seq), x, y)
         /\ o # Last(ops) => Last(Around(ops, o, seq)) = Last(ops) /\ Around(ops, o, seq) # << >>
         /\ o = Last(ops) /\ seq # << >> =>
              Last(Around(ops, o, seq)) = Last(seq) /\ Around(ops, o, seq) # << >>
PROOF
<1> DEFINE at == CHOOSE k \in DOMAIN ops : ops[k] = o
           before == SubSeq(ops, 1, at - 1)
           after == SubSeq(ops, at + 1, Len(ops))
           new == before \o seq \o after
<1>1. at \in DOMAIN ops /\ ops[at] = o
  BY DEF ToSet
<1>2. Around(ops, o, seq) = new
  BY DEF Around
<1> HIDE DEF at
<1>3. Len(ops) \in Nat /\ DOMAIN ops = 1 .. Len(ops) /\ at \in 1 .. Len(ops)
  BY <1>1
<1>4. before \in Seq(Nat) /\ DOMAIN before = 1 .. at - 1 /\ \A k \in 1 .. at - 1 : before[k] = ops[k]
  BY <1>3
<1>5. /\ after \in Seq(Nat) /\ DOMAIN after = 1 .. Len(ops) - at
      /\ \A k \in 1 .. Len(ops) - at : after[k] = ops[at + k]
  BY <1>3
<1> HIDE DEF before, after
<1>6. before \o seq \in Seq(Nat)
  BY <1>4
<1>7. \A k \in DOMAIN ops : k < at => k \in DOMAIN before /\ before[k] = ops[k]
  BY <1>3, <1>4
<1>8. \A k \in DOMAIN ops : k > at => k - at \in DOMAIN after /\ after[k - at] = ops[k]
  <2> SUFFICES ASSUME NEW k \in DOMAIN ops, k > at PROVE k - at \in DOMAIN after /\ after[k - at] = ops[k]
    OBVIOUS
  <2>1. k - at \in 1 .. Len(ops) - at /\ at + (k - at) = k
    BY <1>3
  <2> QED
    BY <1>5, <2>1
<1>9. \A k \in DOMAIN ops : ops[k] = o => k = at
  BY <1>1 DEF IsInjective
<1>10. \A j, k \in DOMAIN ops : j < k \/ j = k \/ j > k
  BY <1>3
<1> DEFINE front == before \o seq
<1>11. /\ \A p, q : Precedes(front, p, q) => Precedes(new, p, q)
       /\ \A p, q : Precedes(after, p, q) => Precedes(new, p, q)
       /\ \A p, q : p \in ToSet(front) /\ q \in ToSet(after) => Precedes(new, p, q)
  BY <1>5, <1>6, PrecedesConcat
<1>12. /\ \A p, q : Precedes(before, p, q) => Precedes(front, p, q)
       /\ \A p, q : Precedes(seq, p, q) => Precedes(front, p, q)
       /\ \A p, q : p \in ToSet(before) /\ q \in ToSet(seq) => Precedes(front, p, q)
  BY <1>4, PrecedesConcat
<1>13. ToSet(front) = ToSet(before) \cup ToSet(seq)
  BY <1>4, ToSetConcat
<1> HIDE DEF front, new
<1>14. ASSUME NEW p, NEW q, p # o, q # o, Precedes(ops, p, q) PROVE Precedes(new, p, q)
  <2>1. PICK j, k \in DOMAIN ops : j < k /\ ops[j] = p /\ ops[k] = q
    BY <1>14 DEF Precedes
  <2>2. j # at /\ k # at
    BY <1>1, <1>14, <2>1
  <2>3. CASE k < at
    <3>1. j < at
      BY <1>3, <2>1, <2>3
    <3>2. Precedes(before, p, q)
      BY <1>7, <2>1, <2>3, <3>1 DEF Precedes
    <3> QED
      BY <1>11, <1>12, <3>2
  <2>4. CASE j > at
    <3>1. k > at
      BY <1>3, <2>1, <2>4
    <3>2. j - at < k - at
      BY <1>3, <2>1
    <3>3. Precedes(after, p, q)
      BY <1>8, <2>1, <2>4, <3>1, <3>2 DEF Precedes
    <3> QED
      BY <1>11, <3>3
  <2>5. CASE j < at /\ k > at
    <3>1. p \in ToSet(before) /\ q \in ToSet(after)
      BY <1>7, <1>8, <2>1, <2>5 DEF ToSet
    <3> QED
      BY <1>11, <1>13, <3>1
  <2> QED
    BY <1>1, <1>10, <2>2, <2>3, <2>4, <2>5
<1>15. ASSUME NEW p, Precedes(ops, p, o), NEW x \in ToSet(seq) PROVE Precedes(new, p, x)
  <2>1. PICK j, k \in DOMAIN ops : j < k /\ ops[j] = p /\ ops[k] = o
    BY <1>15 DEF Precedes
  <2>2. k = at
    BY <1>9, <2>1
  <2>3. p \in ToSet(before)
    BY <1>7, <2>1, <2>2 DEF ToSet
  <2> QED
    BY <1>11, <1>12, <1>15, <2>3
<1>16. ASSUME NEW q, Precedes(ops, o, q), NEW x \in ToSet(seq) PROVE Precedes(new, x, q)
  <2>1. PICK j, k \in DOMAIN ops : j < k /\ ops[j] = o /\ ops[k] = q
    BY <1>16 DEF Precedes
  <2>2. j = at
    BY <1>9, <2>1
  <2>3. k > at
    BY <1>3, <2>1, <2>2
  <2>4. q \in ToSet(after)
    BY <1>8, <2>1, <2>3 DEF ToSet
  <2> QED
    BY <1>11, <1>13, <1>16, <2>4
<1>17. Len(ops) \in DOMAIN ops /\ Last(ops) = ops[Len(ops)]
  BY <1>3 DEF Last
<1>18. ASSUME o # Last(ops) PROVE Last(new) = Last(ops) /\ new # << >>
  <2>1. Len(ops) > at
    BY <1>1, <1>3, <1>17, <1>18
  <2>2. Len(ops) - at \in DOMAIN after /\ after[Len(ops) - at] = Last(ops)
    BY <1>8, <1>17, <2>1
  <2>3. after # << >>
    BY <2>2
  <2>4. Len(after) = Len(ops) - at
    <3>1. Len(after) \in Nat /\ DOMAIN after = 1 .. Len(after)
      BY <1>5
    <3>2. Len(ops) - at \in 1 .. Len(after)
      BY <2>2, <3>1
    <3>3. Len(after) \in 1 .. Len(ops) - at
      BY <1>5, <3>1, <3>2
    <3>4. Len(after) <= Len(ops) - at /\ Len(ops) - at <= Len(after)
      BY <1>3, <3>1, <3>2, <3>3
    <3>5. Len(ops) - at \in Int
      BY <1>3
    <3> QED
      BY <3>1, <3>4, <3>5
  <2>5. Last(after) = Last(ops)
    BY <2>2, <2>4 DEF Last
  <2> QED
    BY <1>5, <1>6, <2>3, <2>5, LastConcat DEF new
<1>19. ASSUME o = Last(ops), seq # << >> PROVE Last(new) = Last(seq) /\ new # << >>
  <2>1. at = Len(ops)
    BY <1>9, <1>17, <1>19
  <2>2. DOMAIN after = {}
    BY <1>3, <1>5, <2>1
  <2>3. after = << >>
    BY <1>5, <2>2
  <2>4. new = front
    BY <1>5, <1>6, <2>3 DEF new, front
  <2> QED
    BY <1>4, <1>19, <2>4, LastConcat DEF front
<1> QED
  BY <1>2, <1>11, <1>12, <1>14, <1>15, <1>16, <1>18, <1>19

-----------------------------------------------------------------------------
(* replaceOp, and what MLIR's verifier asks. *)

\* Values are what their parts are.
LEMMA ValueParts ==
  ASSUME NEW o, NEW i
  PROVE  /\ OpResult(o, i)[1] = "op" /\ OpResult(o, i)[2] = o /\ OpResult(o, i)[3] = i
         /\ Argument(o, i)[1] = "block" /\ Argument(o, i)[2] = o /\ Argument(o, i)[3] = i
  BY DEF OpResult, Argument

\* Values are different if their parts are.
LEMMA ValuesDiffer ==
  ASSUME NEW o, NEW i, NEW p, NEW j
  PROVE  /\ OpResult(o, i) = OpResult(p, j) => o = p /\ i = j
         /\ Argument(o, i) = Argument(p, j) => o = p /\ i = j
         /\ OpResult(o, i) # Argument(p, j)
PROOF
<1>1. ASSUME OpResult(o, i) = OpResult(p, j) PROVE o = p /\ i = j
  <2>1. OpResult(o, i)[2] = OpResult(p, j)[2] /\ OpResult(o, i)[3] = OpResult(p, j)[3]
    BY <1>1
  <2> QED
    BY <2>1, ValueParts
<1>2. ASSUME Argument(o, i) = Argument(p, j) PROVE o = p /\ i = j
  <2>1. Argument(o, i)[2] = Argument(p, j)[2] /\ Argument(o, i)[3] = Argument(p, j)[3]
    BY <1>2
  <2> QED
    BY <2>1, ValueParts
<1>3. ASSUME OpResult(o, i) = Argument(p, j) PROVE FALSE
  <2>1. OpResult(o, i)[1] = Argument(p, j)[1]
    BY <1>3
  <2>2. OpResult(o, i)[1] = "op" /\ Argument(p, j)[1] = "block"
    BY ValueParts
  <2> QED
    BY <2>1, <2>2
<1> QED
  BY <1>1, <1>2, <1>3

\* The type of a result, and of an argument.
LEMMA TypeOfValue ==
  ASSUME NEW g, NEW o, NEW i
  PROVE  /\ ValueType(g, OpResult(o, i)) = g.ops[o].types[i]
         /\ ValueType(g, Argument(o, i)) = g.blocks[o].types[i]
PROOF
<1> DEFINE v == OpResult(o, i)
           w == Argument(o, i)
<1>1. v[1] = "op" /\ v[2] = o /\ v[3] = i /\ w[1] = "block" /\ w[2] = o /\ w[3] = i
  BY ValueParts
<1> HIDE DEF v, w
<1>2. ValueType(g, v) = g.ops[o].types[i] /\ ValueType(g, w) = g.blocks[o].types[i]
  BY <1>1 DEF ValueType
<1> QED
  BY <1>2 DEF v, w

\* The values that replaceOp puts in the place of the results of o.
By(o, values) == [v \in {OpResult(o, i) : i \in DOMAIN values} |-> values[v[3]]]

\* The results of o become the values, and nothing else changes.
LEMMA RenameBy ==
  ASSUME NEW o, NEW values
  PROVE  /\ \A i \in DOMAIN values : Rename(By(o, values), OpResult(o, i)) = values[i]
         /\ \A p, i : p # o => Rename(By(o, values), OpResult(p, i)) = OpResult(p, i)
         /\ \A b, i : Rename(By(o, values), Argument(b, i)) = Argument(b, i)
PROOF
<1>1. DOMAIN By(o, values) = {OpResult(o, i) : i \in DOMAIN values}
  BY DEF By
<1>2. ASSUME NEW i \in DOMAIN values PROVE Rename(By(o, values), OpResult(o, i)) = values[i]
  <2>1. By(o, values)[OpResult(o, i)] = values[OpResult(o, i)[3]]
    BY DEF By
  <2> QED
    BY <1>1, <2>1, ValueParts DEF Rename
<1>3. ASSUME NEW p, NEW i, p # o PROVE Rename(By(o, values), OpResult(p, i)) = OpResult(p, i)
  BY <1>1, <1>3, ValuesDiffer DEF Rename
<1>4. ASSUME NEW b, NEW i PROVE Rename(By(o, values), Argument(b, i)) = Argument(b, i)
  BY <1>1, ValuesDiffer DEF Rename
<1> QED
  BY <1>2, <1>3, <1>4

\* What a pattern gives to replaceOp.  The last of the new operations has the
\* results and the regions of the old one.
Fresh(g, new, j) == {OpResult(g.next + j - 1, k) : k \in DOMAIN new[j].types}
SeenByNew(g, o, new, i) == InSight(g, BlockOf(g, o), o) \cup UNION {Fresh(g, new, j) : j \in 1 .. i - 1}

Replaces(g, o, new, values) ==
  /\ o \in DOMAIN g.ops
  /\ Len(new) \in Nat /\ Len(new) >= 1 /\ DOMAIN new = 1 .. Len(new)
  /\ \A i \in 1 .. Len(new) :
       /\ new[i] = WithArgs(new[i], new[i].args)
       /\ new[i].kind # "colgm.cast" /\ new[i].types \in Seq(Type)
       /\ new[i].regions = IF i = Len(new) THEN g.ops[o].regions ELSE << >>
       /\ Len(new[i].regions) = RegionCount(new[i].kind)
       /\ new[i].kind \in Terminators <=> i = Len(new) /\ g.ops[o].kind \in Terminators
       /\ new[i].args \in Seq(SeenByNew(g, o, new, i))
  /\ new[Len(new)].types = g.ops[o].types
  /\ g.ops[o].kind \in Terminators => new[Len(new)].args = g.ops[o].args
  /\ values = [i \in DOMAIN g.ops[o].types |-> OpResult(g.next + Len(new) - 1, i)]

\* The operations.
LEMMA ReplacedOp ==
  ASSUME NEW g, IsTree(g), NEW o, NEW new, NEW values, Replaces(g, o, new, values)
  PROVE  LET h == replaceOp(g, o, new, values)
             n == g.next
             by == By(o, values)
         IN  /\ h.next = n + Len(new)
             /\ DOMAIN h.ops = (DOMAIN g.ops \ {o}) \cup (n .. n + Len(new) - 1)
             /\ \A p \in DOMAIN g.ops \ {o} : h.ops[p] = WithArgs(g.ops[p], Renamed(g.ops[p].args, by))
             /\ \A i \in 1 .. Len(new) : h.ops[n + i - 1] = WithArgs(new[i], Renamed(new[i].args, by))
PROOF
<1> DEFINE n == g.next
           m == Len(new)
           by == By(o, values)
           ids == [i \in DOMAIN new |-> n + i - 1]
           op(p) == IF p < n THEN g.ops[p] ELSE new[p - n + 1]
           ops == [p \in (DOMAIN g.ops \ {o}) \cup ToSet(ids) |-> WithArgs(op(p), Renamed(op(p).args, by))]
           h == replaceOp(g, o, new, values)
<1>1. h.next = n + m /\ h.ops = ops
  BY DEF replaceOp, By
<1>2. n \in Nat /\ m \in Nat /\ DOMAIN new = 1 .. m /\ DOMAIN g.ops \subseteq 1 .. n - 1
  BY DEF IsTree, Replaces
<1>3. ToSet(ids) = n .. n + m - 1
  <2>1. ids = [i \in 1 .. m |-> n + i - 1]
    BY <1>2
  <2> QED
    BY <1>2, <2>1, NewIds
<1> HIDE DEF ids, by, h, m
<1>4. DOMAIN h.ops = (DOMAIN g.ops \ {o}) \cup (n .. n + m - 1)
  BY <1>1, <1>3
<1>5. \A p \in DOMAIN h.ops : h.ops[p] = WithArgs(op(p), Renamed(op(p).args, by))
  BY <1>1, <1>4, <1>3
<1>6. \A p \in DOMAIN g.ops \ {o} : op(p) = g.ops[p]
  BY <1>2
<1>7. \A i \in 1 .. m : op(n + i - 1) = new[i] /\ n + i - 1 \in n .. n + m - 1
  BY <1>2
<1> HIDE DEF op, ops
<1>8. \A p \in DOMAIN g.ops \ {o} : h.ops[p] = WithArgs(g.ops[p], Renamed(g.ops[p].args, by))
  BY <1>4, <1>5, <1>6
<1>9. \A i \in 1 .. m : h.ops[n + i - 1] = WithArgs(new[i], Renamed(new[i].args, by))
  BY <1>4, <1>5, <1>7
<1> QED
  BY <1>1, <1>4, <1>8, <1>9 DEF h, by, m

\* The parts of an operation.
LEMMA WithArgsParts ==
  ASSUME NEW op, NEW args
  PROVE  /\ WithArgs(op, args).kind = op.kind /\ WithArgs(op, args).args = args
         /\ WithArgs(op, args).types = op.types /\ WithArgs(op, args).regions = op.regions
  BY DEF WithArgs

\* The function is still a tree.
LEMMA ReplacedIsTree ==
  ASSUME NEW g, IsTree(g), NEW o, NEW new, NEW values, Replaces(g, o, new, values)
  PROVE  IsTree(replaceOp(g, o, new, values))
PROOF
<1>1. o \in DOMAIN g.ops /\ Len(new) \in Nat /\ DOMAIN new = 1 .. Len(new) /\ Len(new) \in 1 .. Len(new)
  <2>1. o \in DOMAIN g.ops /\ Len(new) \in Nat /\ DOMAIN new = 1 .. Len(new) /\ Len(new) >= 1
    BY DEF Replaces
  <2> QED
    BY <2>1
<1>2. \A i \in 1 .. Len(new) : /\ new[i].kind # "colgm.cast"
                               /\ new[i].regions \in {<< >>, g.ops[o].regions}
  BY DEF Replaces
<1>3. new[Len(new)].regions = g.ops[o].regions
  BY <1>1 DEF Replaces
<1>4. g.ops[o].regions # << >> => \E i \in 1 .. Len(new) : new[i].regions = g.ops[o].regions
  BY <1>1, <1>3
<1> QED
  BY <1>1, <1>2, <1>4, ReplacedTree

\* The blocks: the arguments are the same, and in the place of the operation are
\* the new ones.
LEMMA ReplacedBlock ==
  ASSUME NEW g, IsTree(g), NEW o, NEW new, NEW values, Replaces(g, o, new, values)
  PROVE  LET h == replaceOp(g, o, new, values)
             ids == [i \in 1 .. Len(new) |-> g.next + i - 1]
             at == BlockOf(g, o)
         IN  /\ DOMAIN h.blocks = DOMAIN g.blocks
             /\ \A b \in DOMAIN g.blocks : h.blocks[b].types = g.blocks[b].types
             /\ at \in DOMAIN g.blocks /\ o \in ToSet(g.blocks[at].ops)
             /\ h.blocks[at].ops = Around(g.blocks[at].ops, o, ids)
             /\ \A b \in DOMAIN g.blocks \ {at} :
                  h.blocks[b].ops = g.blocks[b].ops /\ o \notin ToSet(g.blocks[b].ops)
PROOF
<1> DEFINE h == replaceOp(g, o, new, values)
           ids == [i \in DOMAIN new |-> g.next + i - 1]
           at == BlockOf(g, o)
           list == Around(g.blocks[at].ops, o, ids)
<1>1. DOMAIN new = 1 .. Len(new) /\ o \in DOMAIN g.ops
  BY DEF Replaces
<1>2. at \in DOMAIN g.blocks /\ o \in ToSet(g.blocks[at].ops)
      /\ \A b \in DOMAIN g.blocks \ {at} : o \notin ToSet(g.blocks[b].ops)
  BY <1>1, InBlock
<1>3. h.blocks = [g.blocks EXCEPT ![at].ops = list]
  BY DEF replaceOp
<1>4. ids = [i \in 1 .. Len(new) |-> g.next + i - 1]
  BY <1>1
<1>5. g.blocks \in Seq(Blocks)
  BY DEF IsTree
<1> HIDE DEF at, list, h
<1>6. DOMAIN h.blocks = DOMAIN g.blocks
  BY <1>3
<1>7. h.blocks[at] = [g.blocks[at] EXCEPT !.ops = list] /\ g.blocks[at] \in Blocks
  BY <1>2, <1>3, <1>5
<1>8. h.blocks[at].ops = list /\ h.blocks[at].types = g.blocks[at].types
  BY <1>7 DEF Blocks
<1>9. \A b \in DOMAIN g.blocks \ {at} : h.blocks[b] = g.blocks[b]
  BY <1>3
<1> QED
  BY <1>2, <1>4, <1>6, <1>8, <1>9 DEF h, at, list

\* The new operations in the block: where they stand.
NewSeq(g, new) == [i \in 1 .. Len(new) |-> g.next + i - 1]

\* They are new, each once and in order.
LEMMA NewSeqIs ==
  ASSUME NEW g, g.next \in Nat, NEW new, Len(new) \in Nat, Len(new) >= 1
  PROVE  /\ NewSeq(g, new) \in Seq(Nat) /\ NewSeq(g, new) # << >>
         /\ IsInjective(NewSeq(g, new))
         /\ ToSet(NewSeq(g, new)) = g.next .. g.next + Len(new) - 1
         /\ Last(NewSeq(g, new)) = g.next + Len(new) - 1
         /\ \A j, i \in 1 .. Len(new) : j < i => Precedes(NewSeq(g, new), g.next + j - 1, g.next + i - 1)
PROOF
<1> DEFINE m == Len(new)
           n == g.next
           ids == NewSeq(g, new)
<1> HIDE DEF m, n
<1>1. m \in Nat /\ m >= 1 /\ n \in Nat
  BY DEF m, n
<1>2. ids = [i \in 1 .. m |-> n + i - 1]
  BY DEF NewSeq, m, n
<1>3. ids \in Seq(Nat) /\ ToSet(ids) = n .. n + m - 1 /\ IsInjective(ids)
  BY <1>1, <1>2, NewIds
<1>4. DOMAIN ids = 1 .. m /\ \A i \in 1 .. m : ids[i] = n + i - 1
  BY <1>2
<1> HIDE DEF ids
<1>5. Len(ids) = m
  BY <1>1, <1>2, FunctionLen
<1>6. ids # << >> /\ Last(ids) = n + m - 1
  <2>1. m \in 1 .. m
    BY <1>1
  <2> QED
    BY <1>4, <1>5, <2>1 DEF Last
<1>7. \A j, i \in 1 .. m : j < i => Precedes(ids, n + j - 1, n + i - 1)
  BY <1>4 DEF Precedes
<1> QED
  BY <1>3, <1>6, <1>7 DEF m, n, ids

\* A sequence of a block.
LEMMA BlockSeq ==
  ASSUME NEW g, IsTree(g), NEW b \in DOMAIN g.blocks
  PROVE  /\ g.blocks[b].ops \in Seq(Nat) /\ IsInjective(g.blocks[b].ops)
         /\ ToSet(g.blocks[b].ops) \subseteq DOMAIN g.ops
         /\ g.blocks[b].types \in Seq(Type) /\ b \in Nat
PROOF
<1>1. g.blocks[b] \in Blocks /\ b \in Nat
  BY DEF IsTree
<1>2. IsInjective(g.blocks[b].ops) /\ ToSet(g.blocks[b].ops) \subseteq DOMAIN g.ops
  BY DEF IsTree
<1> QED
  BY <1>1, <1>2 DEF Blocks

\* The number of a new operation.
LEMMA NewNumber ==
  ASSUME NEW n \in Nat, NEW m \in Nat, NEW p \in n .. n + m - 1
  PROVE  p - n + 1 \in 1 .. m /\ p = n + (p - n + 1) - 1
  OBVIOUS

\* Blocks end as they did, and the regions have the owners they had.
LEMMA ReplacedRegular ==
  ASSUME NEW g, IsTree(g), Regular(g), NEW o, NEW new, NEW values, Replaces(g, o, new, values)
  PROVE  LET h == replaceOp(g, o, new, values) IN
         /\ Regular(h)
         /\ \A b \in DOMAIN g.blocks :
              Last(h.blocks[b].ops) = IF Last(g.blocks[b].ops) = o THEN g.next + Len(new) - 1
                                      ELSE Last(g.blocks[b].ops)
PROOF
<1> DEFINE h == replaceOp(g, o, new, values)
           n == g.next
           m == Len(new)
           at == BlockOf(g, o)
           ids == NewSeq(g, new)
           by == By(o, values)
<1>1. o \in DOMAIN g.ops /\ n \in Nat /\ m \in Nat /\ m >= 1 /\ DOMAIN g.ops \subseteq 1 .. n - 1
  BY DEF Replaces, IsTree
<1>2. /\ DOMAIN h.ops = (DOMAIN g.ops \ {o}) \cup (n .. n + m - 1)
      /\ \A p \in DOMAIN g.ops \ {o} : h.ops[p] = WithArgs(g.ops[p], Renamed(g.ops[p].args, by))
      /\ \A i \in 1 .. m : h.ops[n + i - 1] = WithArgs(new[i], Renamed(new[i].args, by))
  BY ReplacedOp
<1>3. /\ DOMAIN h.blocks = DOMAIN g.blocks
      /\ at \in DOMAIN g.blocks /\ o \in ToSet(g.blocks[at].ops)
      /\ h.blocks[at].ops = Around(g.blocks[at].ops, o, ids)
      /\ \A b \in DOMAIN g.blocks \ {at} :
           h.blocks[b].ops = g.blocks[b].ops /\ o \notin ToSet(g.blocks[b].ops)
  BY ReplacedBlock DEF NewSeq
<1>4. /\ ids \in Seq(Nat) /\ ids # << >> /\ ToSet(ids) = n .. n + m - 1 /\ Last(ids) = n + m - 1
  BY <1>1, NewSeqIs
<1>5. \A i \in 1 .. m :
        /\ new[i].regions = IF i = m THEN g.ops[o].regions ELSE << >>
        /\ Len(new[i].regions) = RegionCount(new[i].kind)
        /\ new[i].kind \in Terminators <=> i = m /\ g.ops[o].kind \in Terminators
  BY DEF Replaces
<1> HIDE DEF h, by, ids, at, n, m
<1>6. \A p \in DOMAIN g.ops \ {o} : h.ops[p].kind = g.ops[p].kind /\ h.ops[p].regions = g.ops[p].regions
  BY <1>2, WithArgsParts
<1>7. ASSUME NEW p \in n .. n + m - 1
      PROVE  /\ h.ops[p].regions = IF p = n + m - 1 THEN g.ops[o].regions ELSE << >>
             /\ Len(h.ops[p].regions) = RegionCount(h.ops[p].kind)
             /\ h.ops[p].kind \in Terminators <=> p = n + m - 1 /\ g.ops[o].kind \in Terminators
  <2> DEFINE i == p - n + 1
  <2>1. i \in 1 .. m /\ p = n + i - 1
    BY <1>1, NewNumber
  <2>2. i = m <=> p = n + m - 1
    BY <1>1, <2>1
  <2> HIDE DEF i
  <2>3. h.ops[p].kind = new[i].kind /\ h.ops[p].regions = new[i].regions
    BY <1>2, <2>1, WithArgsParts
  <2> QED
    BY <1>5, <2>1, <2>2, <2>3
<1>8. \A p \in n .. n + m - 1 : p \notin DOMAIN g.ops
  BY <1>1
<1>9. /\ \A p \in DOMAIN g.ops : /\ Len(g.ops[p].regions) = RegionCount(g.ops[p].kind)
                                 /\ IsInjective(g.ops[p].regions)
      /\ \A p \in DOMAIN g.ops : \A q \in DOMAIN g.ops \ {p} :
           ToSet(g.ops[p].regions) \cap ToSet(g.ops[q].regions) = {}
      /\ \A b \in DOMAIN g.blocks :
           /\ g.blocks[b].ops # << >>
           /\ \A p \in ToSet(g.blocks[b].ops) : g.ops[p].kind \in Terminators <=> p = Last(g.blocks[b].ops)
  BY DEF Regular
<1>10. IsInjective(<< >>) /\ ToSet(<< >>) = {}
  BY DEF IsInjective, ToSet
<1>11. \A p \in DOMAIN h.ops : Len(h.ops[p].regions) = RegionCount(h.ops[p].kind) /\ IsInjective(h.ops[p].regions)
  BY <1>1, <1>2, <1>6, <1>7, <1>9, <1>10
<1>12. ASSUME NEW p \in DOMAIN h.ops, NEW q \in DOMAIN h.ops \ {p}
       PROVE  ToSet(h.ops[p].regions) \cap ToSet(h.ops[q].regions) = {}
  <2> DEFINE was(x) == IF x \in DOMAIN g.ops THEN x ELSE o
  <2>1. \A x \in DOMAIN h.ops :
          /\ h.ops[x].regions = << >> \/ h.ops[x].regions = g.ops[was(x)].regions
          /\ was(x) = o => x = n + m - 1 \/ h.ops[x].regions = << >>
          /\ was(x) # o => x = was(x)
          /\ was(x) \in DOMAIN g.ops
    BY <1>1, <1>2, <1>6, <1>7, <1>8
  <2> HIDE DEF was
  <2>2. CASE was(p) = was(q)
    BY <1>10, <1>12, <2>1, <2>2
  <2>3. CASE was(p) # was(q)
    BY <1>9, <1>10, <2>1, <2>3
  <2> QED
    BY <2>2, <2>3
<1>13. /\ g.blocks[at].ops \in Seq(Nat) /\ IsInjective(g.blocks[at].ops)
       /\ \A b \in DOMAIN g.blocks : ToSet(g.blocks[b].ops) \subseteq DOMAIN g.ops
  BY <1>3, BlockSeq
<1>14. /\ ToSet(h.blocks[at].ops) = (ToSet(g.blocks[at].ops) \ {o}) \cup (n .. n + m - 1)
       /\ o # Last(g.blocks[at].ops) =>
            Last(h.blocks[at].ops) = Last(g.blocks[at].ops) /\ h.blocks[at].ops # << >>
       /\ o = Last(g.blocks[at].ops) =>
            Last(h.blocks[at].ops) = n + m - 1 /\ h.blocks[at].ops # << >>
  <2> DEFINE was == g.blocks[at].ops
  <2>1. was \in Seq(Nat) /\ IsInjective(was) /\ o \in ToSet(was)
    BY <1>3, <1>13
  <2> HIDE DEF was
  <2>2. /\ Around(was, o, ids) \in Seq(Nat)
        /\ ToSet(Around(was, o, ids)) = (ToSet(was) \ {o}) \cup ToSet(ids)
        /\ IsInjective(ids) /\ ToSet(ids) \cap ToSet(was) = {} => IsInjective(Around(was, o, ids))
    <3>1. ids \in Seq(Nat)
      BY <1>4
    <3> QED
      BY <2>1, <3>1, Splice, Zenon
  <2>3. /\ o # Last(was) => Last(Around(was, o, ids)) = Last(was) /\ Around(was, o, ids) # << >>
        /\ o = Last(was) => Last(Around(was, o, ids)) = Last(ids) /\ Around(was, o, ids) # << >>
    BY <1>4, <2>1, AroundOrder
  <2>4. h.blocks[at].ops = Around(was, o, ids)
    BY <1>3 DEF was
  <2> QED
    BY <1>4, <2>2, <2>3, <2>4 DEF was
<1>15. \A b \in DOMAIN g.blocks : Last(g.blocks[b].ops) \in ToSet(g.blocks[b].ops)
  <2> SUFFICES ASSUME NEW b \in DOMAIN g.blocks PROVE Last(g.blocks[b].ops) \in ToSet(g.blocks[b].ops)
    OBVIOUS
  <2>1. g.blocks[b].ops \in Seq(Nat) /\ g.blocks[b].ops # << >>
    BY <1>9, BlockSeq
  <2> DEFINE ops == g.blocks[b].ops
  <2> HIDE DEF ops
  <2>2. Len(ops) \in DOMAIN ops
    BY <2>1 DEF ops
  <2> QED
    BY <2>2 DEF ToSet, Last, ops
<1>16. ASSUME NEW b \in DOMAIN g.blocks
       PROVE  /\ Last(h.blocks[b].ops) = IF Last(g.blocks[b].ops) = o THEN n + m - 1 ELSE Last(g.blocks[b].ops)
              /\ h.blocks[b].ops # << >>
              /\ \A p \in ToSet(h.blocks[b].ops) : h.ops[p].kind \in Terminators <=> p = Last(h.blocks[b].ops)
  <2>1. CASE b # at
    <3>1. h.blocks[b].ops = g.blocks[b].ops /\ o \notin ToSet(g.blocks[b].ops)
      BY <1>3, <2>1
    <3> QED
      BY <1>6, <1>9, <1>13, <1>15, <3>1
  <2>2. CASE b = at /\ o # Last(g.blocks[at].ops)
    <3>1. g.ops[o].kind \notin Terminators
      BY <1>3, <1>9, <2>2
    <3>2. Last(h.blocks[at].ops) = Last(g.blocks[at].ops) /\ Last(g.blocks[at].ops) \in DOMAIN g.ops
      BY <1>3, <1>13, <1>14, <1>15, <2>2
    <3>3. ASSUME NEW p \in ToSet(h.blocks[at].ops)
          PROVE  h.ops[p].kind \in Terminators <=> p = Last(h.blocks[at].ops)
      <4>1. CASE p \in n .. n + m - 1
        BY <1>7, <1>8, <3>1, <3>2, <4>1
      <4>2. CASE p \in ToSet(g.blocks[at].ops) \ {o}
        BY <1>3, <1>6, <1>9, <1>13, <3>2, <4>2
      <4> QED
        BY <1>14, <4>1, <4>2
    <3> QED
      BY <1>14, <2>2, <3>2, <3>3
  <2>3. CASE b = at /\ o = Last(g.blocks[at].ops)
    <3>1. g.ops[o].kind \in Terminators
      BY <1>3, <1>9, <2>3
    <3>2. Last(h.blocks[at].ops) = n + m - 1
      BY <1>14, <2>3
    <3>3. ASSUME NEW p \in ToSet(h.blocks[at].ops)
          PROVE  h.ops[p].kind \in Terminators <=> p = Last(h.blocks[at].ops)
      <4>1. CASE p \in n .. n + m - 1
        BY <1>7, <3>1, <3>2, <4>1
      <4>2. CASE p \in ToSet(g.blocks[at].ops) \ {o}
        <5>1. p \notin n .. n + m - 1
          BY <1>3, <1>8, <1>13, <4>2
        <5>2. n + m - 1 \in n .. n + m - 1
          BY <1>1
        <5>3. g.ops[p].kind \notin Terminators
          BY <1>3, <1>9, <2>3, <4>2
        <5> QED
          BY <1>3, <1>6, <1>13, <3>2, <4>2, <5>1, <5>2, <5>3
      <4> QED
        BY <1>14, <4>1, <4>2
    <3> QED
      BY <1>14, <2>3, <3>2, <3>3
  <2> QED
    BY <2>1, <2>2, <2>3
<1>17. Regular(h)
  BY <1>3, <1>11, <1>12, <1>16 DEF Regular
<1> QED
  BY <1>16, <1>17 DEF h, n, m

\* A result is in sight behind its operation.
LEMMA BeforeIs ==
  ASSUME NEW g, NEW b, NEW o, NEW v
  PROVE  v \in Before(g, b, o) <=> \E p : Precedes(g.blocks[b].ops, p, o) /\ v \in Results(g, p)
PROOF
<1>1. ASSUME v \in Before(g, b, o) PROVE \E p : Precedes(g.blocks[b].ops, p, o) /\ v \in Results(g, p)
  BY <1>1 DEF Before
<1>2. ASSUME NEW p, Precedes(g.blocks[b].ops, p, o), v \in Results(g, p) PROVE v \in Before(g, b, o)
  <2>1. p \in ToSet(g.blocks[b].ops)
    BY <1>2 DEF Precedes, ToSet
  <2> QED
    BY <1>2, <2>1 DEF Before
<1> QED
  BY <1>1, <1>2

\* Nothing stands before itself.
LEMMA NotBeforeItself ==
  ASSUME NEW ops \in Seq(Nat), IsInjective(ops), NEW o
  PROVE  ~Precedes(ops, o, o)
PROOF
<1> SUFFICES ASSUME NEW j \in DOMAIN ops, NEW k \in DOMAIN ops, j < k, ops[j] = o, ops[k] = o PROVE FALSE
  BY DEF Precedes
<1>1. j = k
  BY DEF IsInjective
<1>2. j \in Nat
  OBVIOUS
<1> QED
  BY <1>1, <1>2

\* What an operation saw in its block it sees still; the new ones see what the
\* old one saw, and those of them that stand before.
LEMMA ReplacedStands ==
  ASSUME NEW g, IsTree(g), NEW o, NEW new, NEW values, Replaces(g, o, new, values)
  PROVE  LET h == replaceOp(g, o, new, values)
             n == g.next
             by == By(o, values)
             at == BlockOf(g, o)
         IN  /\ \A b \in DOMAIN g.blocks : \A q \in ToSet(g.blocks[b].ops) \ {o} : Stands(g, h, by, b, q, q)
             /\ \A i \in 1 .. Len(new) : Stands(g, h, by, at, o, n + i - 1)
             /\ \A j, i \in 1 .. Len(new) : j < i => Fresh(g, new, j) \subseteq Before(h, at, n + i - 1)
             /\ \A p \in DOMAIN g.ops \ {o} : Results(h, p) = Results(g, p)
             /\ \A i \in 1 .. Len(new) : Results(h, n + i - 1) = Fresh(g, new, i)
             /\ \A b \in DOMAIN g.blocks : Arguments(h, b) = Arguments(g, b)
PROOF
<1> DEFINE h == replaceOp(g, o, new, values)
           n == g.next
           m == Len(new)
           at == BlockOf(g, o)
           ids == NewSeq(g, new)
           by == By(o, values)
<1>1. o \in DOMAIN g.ops /\ n \in Nat /\ m \in Nat /\ m >= 1 /\ DOMAIN g.ops \subseteq 1 .. n - 1
  BY DEF Replaces, IsTree
<1>2. /\ DOMAIN h.ops = (DOMAIN g.ops \ {o}) \cup (n .. n + m - 1)
      /\ \A p \in DOMAIN g.ops \ {o} : h.ops[p] = WithArgs(g.ops[p], Renamed(g.ops[p].args, by))
      /\ \A i \in 1 .. m : h.ops[n + i - 1] = WithArgs(new[i], Renamed(new[i].args, by))
  BY ReplacedOp
<1>3. /\ DOMAIN h.blocks = DOMAIN g.blocks
      /\ \A b \in DOMAIN g.blocks : h.blocks[b].types = g.blocks[b].types
      /\ at \in DOMAIN g.blocks /\ o \in ToSet(g.blocks[at].ops)
      /\ h.blocks[at].ops = Around(g.blocks[at].ops, o, ids)
      /\ \A b \in DOMAIN g.blocks \ {at} :
           h.blocks[b].ops = g.blocks[b].ops /\ o \notin ToSet(g.blocks[b].ops)
  BY ReplacedBlock DEF NewSeq
<1>4. /\ ids \in Seq(Nat) /\ ToSet(ids) = n .. n + m - 1
      /\ \A j, i \in 1 .. m : j < i => Precedes(ids, n + j - 1, n + i - 1)
  BY <1>1, NewSeqIs
<1>5. /\ \A i \in DOMAIN g.ops[o].types : Rename(by, OpResult(o, i)) = OpResult(n + m - 1, i)
      /\ \A p, i : p # o => Rename(by, OpResult(p, i)) = OpResult(p, i)
      /\ \A b, i : Rename(by, Argument(b, i)) = Argument(b, i)
  <2>1. values = [i \in DOMAIN g.ops[o].types |-> OpResult(n + m - 1, i)]
    BY DEF Replaces
  <2>2. DOMAIN values = DOMAIN g.ops[o].types
        /\ \A i \in DOMAIN g.ops[o].types : values[i] = OpResult(n + m - 1, i)
    BY <2>1
  <2> QED
    BY <2>2, RenameBy
<1>6. new[m].types = g.ops[o].types
  BY DEF Replaces
<1> HIDE DEF h, by, ids, at, n, m
<1>7. \A p \in DOMAIN g.ops \ {o} : Results(h, p) = Results(g, p)
  BY <1>2, WithArgsParts DEF Results
<1>8. \A i \in 1 .. m : Results(h, n + i - 1) = Fresh(g, new, i)
  BY <1>2, WithArgsParts DEF Results, Fresh, n
<1>9. \A b \in DOMAIN g.blocks : Arguments(h, b) = Arguments(g, b)
  BY <1>3 DEF Arguments
<1>10. /\ \A p, q : p # o /\ q # o /\ Precedes(g.blocks[at].ops, p, q) => Precedes(h.blocks[at].ops, p, q)
       /\ \A p : Precedes(g.blocks[at].ops, p, o) => \A x \in n .. n + m - 1 : Precedes(h.blocks[at].ops, p, x)
       /\ \A q : Precedes(g.blocks[at].ops, o, q) => \A x \in n .. n + m - 1 : Precedes(h.blocks[at].ops, x, q)
       /\ \A x, y : Precedes(ids, x, y) => Precedes(h.blocks[at].ops, x, y)
  <2> DEFINE was == g.blocks[at].ops
  <2>1. was \in Seq(Nat) /\ IsInjective(was) /\ o \in ToSet(was)
    BY <1>3, BlockSeq
  <2>2. h.blocks[at].ops = Around(was, o, ids)
    BY <1>3
  <2> HIDE DEF was
  <2>3. /\ \A p, q : p # o /\ q # o /\ Precedes(was, p, q) => Precedes(Around(was, o, ids), p, q)
        /\ \A p : Precedes(was, p, o) => \A x \in ToSet(ids) : Precedes(Around(was, o, ids), p, x)
        /\ \A q : Precedes(was, o, q) => \A x \in ToSet(ids) : Precedes(Around(was, o, ids), x, q)
        /\ \A x, y : Precedes(ids, x, y) => Precedes(Around(was, o, ids), x, y)
    BY <1>4, <2>1, AroundOrder
  <2> QED
    BY <1>4, <2>2, <2>3 DEF was
<1>11. \A b \in DOMAIN g.blocks : \A p : ~Precedes(g.blocks[b].ops, p, p)
  BY BlockSeq, NotBeforeItself
<1>12. \A b \in DOMAIN g.blocks : \A p, q : Precedes(g.blocks[b].ops, p, q) => p \in DOMAIN g.ops
  <2>1. \A b : \A p, q : Precedes(g.blocks[b].ops, p, q) => p \in ToSet(g.blocks[b].ops)
    BY DEF Precedes, ToSet
  <2> QED
    BY <2>1, BlockSeq
<1>13. ASSUME NEW b \in DOMAIN g.blocks, NEW v \in Arguments(g, b)
       PROVE  Rename(by, v) \in Arguments(h, b)
  <2>1. PICK i : v = Argument(b, i)
    BY DEF Arguments
  <2> QED
    BY <1>5, <1>9, <2>1
<1>14. ASSUME NEW b \in DOMAIN g.blocks, NEW q \in ToSet(g.blocks[b].ops) \ {o}, NEW v \in Before(g, b, q)
       PROVE  Rename(by, v) \in Before(h, b, q)
  <2>1. PICK p : Precedes(g.blocks[b].ops, p, q) /\ v \in Results(g, p)
    BY BeforeIs
  <2>2. PICK i \in DOMAIN g.ops[p].types : v = OpResult(p, i)
    BY <2>1 DEF Results
  <2>3. CASE p # o
    <3>1. Rename(by, v) = v /\ v \in Results(h, p)
      BY <1>5, <1>7, <1>12, <2>1, <2>2, <2>3
    <3>2. Precedes(h.blocks[b].ops, p, q)
      <4>1. CASE b = at
        BY <1>10, <2>1, <2>3, <4>1
      <4>2. CASE b # at
        BY <1>3, <2>1, <4>2
      <4> QED
        BY <4>1, <4>2
    <3> QED
      BY <3>1, <3>2, BeforeIs
  <2>4. CASE p = o
    <3>1. b = at
      <4>1. o \in ToSet(g.blocks[b].ops)
        BY <2>1, <2>4 DEF Precedes, ToSet
      <4> QED
        BY <1>3, <4>1
    <3>2. Rename(by, v) = OpResult(n + m - 1, i)
      BY <1>5, <2>2, <2>4
    <3>3. OpResult(n + m - 1, i) \in Results(h, n + m - 1)
      <4>1. m \in 1 .. m
        BY <1>1
      <4>2. OpResult(n + m - 1, i) \in Fresh(g, new, m)
        BY <1>6, <2>2, <2>4 DEF Fresh, n
      <4> QED
        BY <1>8, <4>1, <4>2
    <3>4. n + m - 1 \in n .. n + m - 1
      BY <1>1
    <3>5. Precedes(h.blocks[b].ops, n + m - 1, q)
      BY <1>10, <2>1, <2>4, <3>1, <3>4
    <3> QED
      BY <3>2, <3>3, <3>5, BeforeIs
  <2> QED
    BY <2>3, <2>4
<1>15. \A i \in 1 .. m : n + i - 1 \in n .. n + m - 1
  BY <1>1
<1>16. ASSUME NEW i \in 1 .. m, NEW v \in Before(g, at, o)
       PROVE  Rename(by, v) \in Before(h, at, n + i - 1)
  <2>1. PICK p : Precedes(g.blocks[at].ops, p, o) /\ v \in Results(g, p)
    BY BeforeIs
  <2>2. PICK k \in DOMAIN g.ops[p].types : v = OpResult(p, k)
    BY <2>1 DEF Results
  <2>3. p # o /\ p \in DOMAIN g.ops
    BY <1>3, <1>11, <1>12, <2>1
  <2>4. Rename(by, v) = v /\ v \in Results(h, p)
    BY <1>5, <1>7, <2>1, <2>2, <2>3
  <2>5. Precedes(h.blocks[at].ops, p, n + i - 1)
    BY <1>10, <1>15, <2>1
  <2> QED
    BY <2>4, <2>5, BeforeIs
<1>17. ASSUME NEW j \in 1 .. m, NEW i \in 1 .. m, j < i, NEW v \in Fresh(g, new, j)
       PROVE  v \in Before(h, at, n + i - 1)
  <2>1. Precedes(h.blocks[at].ops, n + j - 1, n + i - 1)
    BY <1>4, <1>10, <1>17
  <2>2. v \in Results(h, n + j - 1)
    BY <1>8, <1>17
  <2> QED
    BY <2>1, <2>2, BeforeIs
<1>18. \A b \in DOMAIN g.blocks : \A q \in ToSet(g.blocks[b].ops) \ {o} : Stands(g, h, by, b, q, q)
  BY <1>13, <1>14 DEF Stands
<1>19. \A i \in 1 .. m : Stands(g, h, by, at, o, n + i - 1)
  BY <1>3, <1>13, <1>16 DEF Stands
<1>20. \A j, i \in 1 .. m : j < i => Fresh(g, new, j) \subseteq Before(h, at, n + i - 1)
  BY <1>17
<1> QED
  BY <1>7, <1>8, <1>9, <1>18, <1>19, <1>20 DEF h, n, m, by, at

\* The blocks have the owners they had, or the last of the new operations.
LEMMA ReplacedOwners ==
  ASSUME NEW g, IsTree(g), Regular(g), NEW o, NEW new, NEW values, Replaces(g, o, new, values),
         NEW d \in DOMAIN g.blocks \ {1}
  PROVE  LET h == replaceOp(g, o, new, values) IN
         /\ Owner(h, d) = IF Owner(g, d) = o THEN g.next + Len(new) - 1 ELSE Owner(g, d)
         /\ BlockOf(h, Owner(h, d)) = BlockOf(g, Owner(g, d))
PROOF
<1> DEFINE h == replaceOp(g, o, new, values)
           n == g.next
           m == Len(new)
           at == BlockOf(g, o)
           by == By(o, values)
           p == Owner(g, d)
           q == IF p = o THEN n + m - 1 ELSE p
<1>1. o \in DOMAIN g.ops /\ n \in Nat /\ m \in Nat /\ m >= 1 /\ DOMAIN g.ops \subseteq 1 .. n - 1
  BY DEF Replaces, IsTree
<1>2. /\ DOMAIN h.ops = (DOMAIN g.ops \ {o}) \cup (n .. n + m - 1)
      /\ \A r \in DOMAIN g.ops \ {o} : h.ops[r] = WithArgs(g.ops[r], Renamed(g.ops[r].args, by))
      /\ \A i \in 1 .. m : h.ops[n + i - 1] = WithArgs(new[i], Renamed(new[i].args, by))
  BY ReplacedOp
<1>3. /\ DOMAIN h.blocks = DOMAIN g.blocks /\ at \in DOMAIN g.blocks /\ o \in ToSet(g.blocks[at].ops)
      /\ ToSet(h.blocks[at].ops) = (ToSet(g.blocks[at].ops) \ {o}) \cup (n .. n + m - 1)
      /\ \A b \in DOMAIN g.blocks \ {at} : h.blocks[b] = g.blocks[b]
  <2>1. DOMAIN new = 1 .. m
    BY DEF Replaces
  <2> QED
    BY <1>1, <2>1, ReplacedBlocks
<1>4. IsTree(h) /\ Regular(h)
  BY ReplacedIsTree, ReplacedRegular
<1>5. new[m].regions = g.ops[o].regions
  <2>1. m \in 1 .. m
    BY <1>1
  <2> QED
    BY <2>1 DEF Replaces
<1>6. /\ p \in DOMAIN g.ops /\ d \in ToSet(g.ops[p].regions)
      /\ BlockOf(g, p) \in DOMAIN g.blocks /\ p \in ToSet(g.blocks[BlockOf(g, p)].ops)
  BY OwnerAround
<1> HIDE DEF h, n, m, at, by, p
<1>7. m \in 1 .. m /\ n + m - 1 \in n .. n + m - 1
  BY <1>1
<1>8. q \in DOMAIN h.ops /\ d \in ToSet(h.ops[q].regions) /\ q \in ToSet(h.blocks[BlockOf(g, p)].ops)
  <2>1. CASE p = o
    <3>1. BlockOf(g, p) = at
      BY <2>1 DEF at
    <3>2. h.ops[n + m - 1].regions = g.ops[o].regions
      BY <1>2, <1>5, <1>7, WithArgsParts
    <3> QED
      BY <1>2, <1>3, <1>6, <1>7, <2>1, <3>1, <3>2
  <2>2. CASE p # o
    BY <1>2, <1>3, <1>6, <2>2, WithArgsParts
  <2> QED
    BY <2>1, <2>2
<1> HIDE DEF q
<1>9. Owner(h, d) = q
  BY <1>4, <1>8, OwnerIs
<1>10. BlockOf(h, q) = BlockOf(g, p)
  BY <1>3, <1>4, <1>6, <1>8, InBlock
<1> QED
  BY <1>9, <1>10 DEF h, p, q, n, m

\* So everything sees what it saw.
LEMMA ReplacedSight ==
  ASSUME NEW g, IsTree(g), Regular(g), NEW o, NEW new, NEW values, Replaces(g, o, new, values)
  PROVE  LET h == replaceOp(g, o, new, values)
             by == By(o, values)
             at == BlockOf(g, o)
         IN  /\ \A b \in DOMAIN g.blocks : \A q \in ToSet(g.blocks[b].ops) \ {o} :
                  \A v \in InSight(g, b, q) : Rename(by, v) \in InSight(h, b, q)
             /\ \A i \in 1 .. Len(new) : \A v \in SeenByNew(g, o, new, i) :
                  Rename(by, v) = v /\ v \in InSight(h, at, g.next + i - 1)
PROOF
<1> DEFINE h == replaceOp(g, o, new, values)
           n == g.next
           m == Len(new)
           at == BlockOf(g, o)
           by == By(o, values)
<1>1. o \in DOMAIN g.ops /\ n \in Nat /\ m \in Nat /\ m >= 1 /\ DOMAIN g.ops \subseteq 1 .. n - 1
  BY DEF Replaces, IsTree
<1>2. IsTree(h)
  BY ReplacedIsTree
<1>3. DOMAIN h.blocks = DOMAIN g.blocks /\ at \in DOMAIN g.blocks /\ o \in ToSet(g.blocks[at].ops)
  <2>1. h.blocks = [g.blocks EXCEPT ![at].ops = Around(@, o, [i \in DOMAIN new |-> n + i - 1])]
    BY DEF replaceOp
  <2> QED
    BY <1>1, <2>1, InBlock
<1>4. /\ \A b \in DOMAIN g.blocks : \A q \in ToSet(g.blocks[b].ops) \ {o} : Stands(g, h, by, b, q, q)
      /\ \A i \in 1 .. m : Stands(g, h, by, at, o, n + i - 1)
      /\ \A j, i \in 1 .. m : j < i => Fresh(g, new, j) \subseteq Before(h, at, n + i - 1)
  BY ReplacedStands
<1>5. \A d \in DOMAIN g.blocks \ {1} :
        /\ Owner(h, d) = IF Owner(g, d) = o THEN n + m - 1 ELSE Owner(g, d)
        /\ BlockOf(h, Owner(h, d)) = BlockOf(g, Owner(g, d))
  BY ReplacedOwners
<1>6. /\ \A p, i : p # o => Rename(by, OpResult(p, i)) = OpResult(p, i)
      /\ \A b, i : Rename(by, Argument(b, i)) = Argument(b, i)
  BY RenameBy
<1> HIDE DEF h, n, m, by
<1>7. ASSUME NEW d \in DOMAIN g.blocks \ {1}
      PROVE  Stands(g, h, by, BlockOf(g, Owner(g, d)), Owner(g, d), Owner(h, d))
  <2>1. /\ BlockOf(g, Owner(g, d)) \in DOMAIN g.blocks
        /\ Owner(g, d) \in ToSet(g.blocks[BlockOf(g, Owner(g, d))].ops)
    BY OwnerAround
  <2>2. CASE Owner(g, d) = o
    <3>1. m \in 1 .. m
      BY <1>1
    <3> QED
      BY <1>4, <1>5, <2>2, <3>1
  <2>3. CASE Owner(g, d) # o
    BY <1>4, <1>5, <2>1, <2>3
  <2> QED
    BY <2>2, <2>3
<1>8. \A b \in DOMAIN g.blocks : \A q, p : Stands(g, h, by, b, q, p) =>
        \A v \in InSight(g, b, q) : Rename(by, v) \in InSight(h, b, p)
  BY <1>2, <1>3, <1>5, <1>7, RenamedSight
<1>9. ASSUME NEW i \in 1 .. m, NEW v \in SeenByNew(g, o, new, i)
      PROVE  Rename(by, v) = v /\ v \in InSight(h, at, n + i - 1)
  <2>1. CASE v \in InSight(g, at, o)
    <3>1. Rename(by, v) \in InSight(h, at, n + i - 1)
      BY <1>3, <1>4, <1>8, <2>1
    <3>2. Rename(by, v) = v
      <4>1. CASE \E d \in DOMAIN g.blocks : d <= at /\ v \in Arguments(g, d)
        BY <1>6, <4>1 DEF Arguments
      <4>2. CASE \E p \in DOMAIN g.ops \ {o} : v \in Results(g, p)
        BY <1>6, <4>2 DEF Results
      <4> QED
        BY <1>3, <2>1, <4>1, <4>2, SightIs
    <3> QED
      BY <3>1, <3>2
  <2>2. CASE v \in UNION {Fresh(g, new, j) : j \in 1 .. i - 1}
    <3>1. PICK j \in 1 .. i - 1 : v \in Fresh(g, new, j)
      BY <2>2
    <3>2. j \in 1 .. m /\ j < i /\ n + j - 1 # o
      BY <1>1
    <3>3. v \in Before(h, at, n + i - 1)
      BY <1>4, <3>1, <3>2
    <3>4. Rename(by, v) = v
      <4>1. PICK k : v = OpResult(n + j - 1, k)
        BY <3>1 DEF Fresh, n
      <4> QED
        BY <1>6, <3>2, <4>1
    <3> QED
      BY <3>3, <3>4 DEF InSight
  <2> QED
    BY <1>9, <2>1, <2>2 DEF SeenByNew
<1> QED
  BY <1>4, <1>8, <1>9 DEF h, n, m, by

\* Operands in one set of values become operands in another.
LEMMA RenamedSeq ==
  ASSUME NEW S, NEW T, NEW args \in Seq(S), NEW by, \A v \in S : Rename(by, v) \in T
  PROVE  Renamed(args, by) \in Seq(T) /\ DOMAIN Renamed(args, by) = DOMAIN args
         /\ \A j \in DOMAIN args : args[j] \in S /\ Renamed(args, by)[j] = Rename(by, args[j])
PROOF
<1>1. DOMAIN args = 1 .. Len(args) /\ Len(args) \in Nat /\ \A j \in DOMAIN args : args[j] \in S
  OBVIOUS
<1>2. Renamed(args, by) = [j \in 1 .. Len(args) |-> Rename(by, args[j])]
  BY <1>1 DEF Renamed
<1>3. \A j \in 1 .. Len(args) : Rename(by, args[j]) \in T
  BY <1>1
<1> QED
  BY <1>1, <1>2, <1>3

\* Operands that keep their names.
LEMMA RenamedSame ==
  ASSUME NEW S, NEW args \in Seq(S), NEW by, \A v \in S : Rename(by, v) = v
  PROVE  Renamed(args, by) = args
PROOF
<1>1. DOMAIN args = 1 .. Len(args) /\ \A j \in DOMAIN args : args[j] \in S
  OBVIOUS
<1>2. Renamed(args, by) = [j \in DOMAIN args |-> args[j]]
  BY <1>1 DEF Renamed
<1> QED
  BY <1>1, <1>2

\* Every operation sees its operands.
LEMMA ReplacedDominated ==
  ASSUME NEW g, IsTree(g), Regular(g), Dominated(g), NEW o, NEW new, NEW values, Replaces(g, o, new, values)
  PROVE  LET h == replaceOp(g, o, new, values) IN
         /\ Dominated(h)
         /\ \A i \in 1 .. Len(new) : h.ops[g.next + i - 1].args = new[i].args
PROOF
<1> DEFINE h == replaceOp(g, o, new, values)
           n == g.next
           m == Len(new)
           at == BlockOf(g, o)
           by == By(o, values)
<1>1. o \in DOMAIN g.ops /\ n \in Nat /\ m \in Nat /\ m >= 1 /\ DOMAIN g.ops \subseteq 1 .. n - 1
  BY DEF Replaces, IsTree
<1>2. /\ DOMAIN h.ops = (DOMAIN g.ops \ {o}) \cup (n .. n + m - 1)
      /\ \A p \in DOMAIN g.ops \ {o} : h.ops[p] = WithArgs(g.ops[p], Renamed(g.ops[p].args, by))
      /\ \A i \in 1 .. m : h.ops[n + i - 1] = WithArgs(new[i], Renamed(new[i].args, by))
  BY ReplacedOp
<1>3. /\ DOMAIN h.blocks = DOMAIN g.blocks /\ at \in DOMAIN g.blocks /\ o \in ToSet(g.blocks[at].ops)
      /\ ToSet(h.blocks[at].ops) = (ToSet(g.blocks[at].ops) \ {o}) \cup (n .. n + m - 1)
      /\ \A b \in DOMAIN g.blocks \ {at} : h.blocks[b] = g.blocks[b]
  <2>1. DOMAIN new = 1 .. m
    BY DEF Replaces
  <2> QED
    BY <1>1, <2>1, ReplacedBlocks
<1>4. /\ \A b \in DOMAIN g.blocks : \A q \in ToSet(g.blocks[b].ops) \ {o} :
           \A v \in InSight(g, b, q) : Rename(by, v) \in InSight(h, b, q)
      /\ \A i \in 1 .. m : \A v \in SeenByNew(g, o, new, i) :
           Rename(by, v) = v /\ v \in InSight(h, at, n + i - 1)
  BY ReplacedSight
<1>5. \A i \in 1 .. m : new[i].args \in Seq(SeenByNew(g, o, new, i))
  BY DEF Replaces
<1>6. \A b \in DOMAIN g.blocks \ {at} : o \notin ToSet(g.blocks[b].ops)
  BY <1>1, InBlock
<1> HIDE DEF h, n, m, by, at
<1>7. ASSUME NEW i \in 1 .. m
      PROVE  h.ops[n + i - 1].args = new[i].args /\ new[i].args \in Seq(InSight(h, at, n + i - 1))
  <2>1. new[i].args \in Seq(SeenByNew(g, o, new, i))
    BY <1>5
  <2>2. Renamed(new[i].args, by) = new[i].args
    BY <1>4, <2>1, RenamedSame
  <2>3. SeenByNew(g, o, new, i) \subseteq InSight(h, at, n + i - 1)
    BY <1>4
  <2>4. new[i].args \in Seq(InSight(h, at, n + i - 1))
    BY <2>1, <2>3
  <2> QED
    BY <1>2, <2>2, <2>4, WithArgsParts
<1>8. ASSUME NEW b \in DOMAIN h.blocks, NEW p \in ToSet(h.blocks[b].ops)
      PROVE  h.ops[p].args \in Seq(InSight(h, b, p))
  <2>1. CASE p \in ToSet(g.blocks[b].ops) \ {o}
    <3>1. b \in DOMAIN g.blocks /\ g.ops[p].args \in Seq(InSight(g, b, p))
      BY <1>3, <2>1, Operands
    <3>2. \A v \in InSight(g, b, p) : Rename(by, v) \in InSight(h, b, p)
      BY <1>4, <2>1, <3>1
    <3>3. Renamed(g.ops[p].args, by) \in Seq(InSight(h, b, p))
      BY <3>1, <3>2, RenamedSeq
    <3>4. p \in DOMAIN g.ops \ {o}
      BY <2>1, <3>1, BlockSeq
    <3> QED
      BY <1>2, <3>3, <3>4, WithArgsParts
  <2>2. CASE b = at /\ p \in n .. n + m - 1
    <3> DEFINE i == p - n + 1
    <3>1. i \in 1 .. m /\ p = n + i - 1
      BY <1>1, <2>2, NewNumber
    <3> HIDE DEF i
    <3> QED
      BY <1>7, <2>2, <3>1
  <2>3. p \in ToSet(g.blocks[b].ops) \ {o} \/ (b = at /\ p \in n .. n + m - 1)
    BY <1>3, <1>6
  <2> QED
    BY <2>1, <2>2, <2>3
<1>9. Dominated(h)
  BY <1>8, AllOperands
<1> QED
  BY <1>7, <1>9 DEF h, n, m

\* The arguments of the blocks are what they were.
LEMMA ReplacedArguments ==
  ASSUME NEW g, IsTree(g), NEW o, NEW new, NEW values, Replaces(g, o, new, values)
  PROVE  LET h == replaceOp(g, o, new, values) IN
         DOMAIN h.blocks = DOMAIN g.blocks /\ \A b \in DOMAIN g.blocks : h.blocks[b].types = g.blocks[b].types
PROOF
<1> DEFINE h == replaceOp(g, o, new, values)
           at == BlockOf(g, o)
<1>1. /\ DOMAIN h.blocks = DOMAIN g.blocks
      /\ \A b \in DOMAIN g.blocks : h.blocks[b].types = g.blocks[b].types
      /\ at \in DOMAIN g.blocks /\ o \in ToSet(g.blocks[at].ops)
      /\ h.blocks[at].ops = Around(g.blocks[at].ops, o, NewSeq(g, new))
      /\ \A b \in DOMAIN g.blocks \ {at} :
           h.blocks[b].ops = g.blocks[b].ops /\ o \notin ToSet(g.blocks[b].ops)
  BY ReplacedBlock DEF NewSeq
<1> QED
  BY <1>1

\* Values have the types of what they stand for.
LEMMA ReplacedTypes ==
  ASSUME NEW g, IsTree(g), NEW o, NEW new, NEW values, Replaces(g, o, new, values)
  PROVE  LET h == replaceOp(g, o, new, values)
             by == By(o, values)
         IN  /\ \A b \in DOMAIN g.blocks : \A v \in Arguments(g, b) :
                  ValueType(h, Rename(by, v)) = ValueType(g, v)
             /\ \A p \in DOMAIN g.ops : \A v \in Results(g, p) :
                  ValueType(h, Rename(by, v)) = ValueType(g, v)
             /\ \A i \in 1 .. Len(new) : \A k : ValueType(h, OpResult(g.next + i - 1, k)) = new[i].types[k]
PROOF
<1> DEFINE h == replaceOp(g, o, new, values)
           n == g.next
           m == Len(new)
           by == By(o, values)
<1>1. m \in Nat /\ m >= 1
  BY DEF Replaces
<1>2. /\ \A p \in DOMAIN g.ops \ {o} : h.ops[p] = WithArgs(g.ops[p], Renamed(g.ops[p].args, by))
      /\ \A i \in 1 .. m : h.ops[n + i - 1] = WithArgs(new[i], Renamed(new[i].args, by))
  BY ReplacedOp
<1>3. \A b \in DOMAIN g.blocks : h.blocks[b].types = g.blocks[b].types
  BY ReplacedArguments
<1>4. /\ \A i \in DOMAIN g.ops[o].types : Rename(by, OpResult(o, i)) = OpResult(n + m - 1, i)
      /\ \A p, i : p # o => Rename(by, OpResult(p, i)) = OpResult(p, i)
      /\ \A b, i : Rename(by, Argument(b, i)) = Argument(b, i)
  <2>1. values = [i \in DOMAIN g.ops[o].types |-> OpResult(n + m - 1, i)]
    BY DEF Replaces
  <2>2. DOMAIN values = DOMAIN g.ops[o].types
        /\ \A i \in DOMAIN g.ops[o].types : values[i] = OpResult(n + m - 1, i)
    BY <2>1
  <2> QED
    BY <2>2, RenameBy
<1>5. new[m].types = g.ops[o].types
  BY DEF Replaces
<1> HIDE DEF h, n, m, by
<1>6. \A i \in 1 .. m : \A k : ValueType(h, OpResult(n + i - 1, k)) = new[i].types[k]
  BY <1>2, TypeOfValue, WithArgsParts
<1>7. ASSUME NEW b \in DOMAIN g.blocks, NEW v \in Arguments(g, b)
      PROVE  ValueType(h, Rename(by, v)) = ValueType(g, v)
  <2>1. PICK i : v = Argument(b, i)
    BY DEF Arguments
  <2> QED
    BY <1>3, <1>4, <2>1, TypeOfValue
<1>8. ASSUME NEW p \in DOMAIN g.ops, NEW v \in Results(g, p)
      PROVE  ValueType(h, Rename(by, v)) = ValueType(g, v)
  <2>1. PICK i \in DOMAIN g.ops[p].types : v = OpResult(p, i)
    BY DEF Results
  <2>2. CASE p = o
    <3>1. m \in 1 .. m
      BY <1>1
    <3> QED
      BY <1>4, <1>5, <1>6, <2>1, <2>2, <3>1, TypeOfValue
  <2>3. CASE p # o
    BY <1>2, <1>4, <2>1, <2>3, TypeOfValue, WithArgsParts
  <2> QED
    BY <2>2, <2>3
<1> QED
  BY <1>6, <1>7, <1>8 DEF h, n, m, by

\* The same of operands and bodies.
LEMMA ReplacedBodies ==
  ASSUME NEW g, IsTree(g), Regular(g), Dominated(g), NEW o, NEW new, NEW values, Replaces(g, o, new, values)
  PROVE  LET h == replaceOp(g, o, new, values)
             n == g.next
         IN  /\ \A p \in DOMAIN g.ops \ {o} : ArgTypes(h, p) = ArgTypes(g, p) /\ Bodies(h, p) = Bodies(g, p)
             /\ \A i \in 1 .. Len(new) : Bodies(h, n + i - 1) = IF i = Len(new) THEN Bodies(g, o) ELSE << >>
             /\ \A v \in InSight(g, BlockOf(g, o), o) : ValueType(h, v) = ValueType(g, v)
PROOF
<1> DEFINE h == replaceOp(g, o, new, values)
           n == g.next
           m == Len(new)
           at == BlockOf(g, o)
           by == By(o, values)
<1>1. o \in DOMAIN g.ops /\ n \in Nat /\ m \in Nat /\ m >= 1 /\ DOMAIN g.ops \subseteq 1 .. n - 1
  BY DEF Replaces, IsTree
<1>2. /\ DOMAIN h.ops = (DOMAIN g.ops \ {o}) \cup (n .. n + m - 1)
      /\ \A p \in DOMAIN g.ops \ {o} : h.ops[p] = WithArgs(g.ops[p], Renamed(g.ops[p].args, by))
      /\ \A i \in 1 .. m : h.ops[n + i - 1] = WithArgs(new[i], Renamed(new[i].args, by))
  BY ReplacedOp
<1>3. DOMAIN h.blocks = DOMAIN g.blocks /\ \A b \in DOMAIN g.blocks : h.blocks[b].types = g.blocks[b].types
  BY ReplacedArguments
<1>4. \A b \in DOMAIN g.blocks :
        Last(h.blocks[b].ops) = IF Last(g.blocks[b].ops) = o THEN n + m - 1 ELSE Last(g.blocks[b].ops)
  BY ReplacedRegular
<1>5. /\ \A b \in DOMAIN g.blocks : \A v \in Arguments(g, b) : ValueType(h, Rename(by, v)) = ValueType(g, v)
      /\ \A p \in DOMAIN g.ops : \A v \in Results(g, p) : ValueType(h, Rename(by, v)) = ValueType(g, v)
  BY ReplacedTypes
<1>6. \A i \in 1 .. m : h.ops[n + i - 1].args = new[i].args
  BY ReplacedDominated
<1>7. /\ \A i \in 1 .. m : new[i].regions = IF i = m THEN g.ops[o].regions ELSE << >>
      /\ g.ops[o].kind \in Terminators => new[m].args = g.ops[o].args
  BY DEF Replaces
<1>8. /\ \A i \in 1 .. m : \A v \in SeenByNew(g, o, new, i) : Rename(by, v) = v
  BY ReplacedSight
<1> HIDE DEF h, n, m, by
<1>9. m \in 1 .. m
  BY <1>1
<1>10. ASSUME NEW b \in DOMAIN g.blocks, NEW q \in ToSet(g.blocks[b].ops), NEW v \in InSight(g, b, q)
       PROVE  ValueType(h, Rename(by, v)) = ValueType(g, v)
  BY <1>5, SightIs
<1>11. ASSUME NEW v \in InSight(g, at, o) PROVE ValueType(h, v) = ValueType(g, v)
  <2>1. v \in SeenByNew(g, o, new, m)
    BY DEF SeenByNew
  <2>2. at \in DOMAIN g.blocks /\ o \in ToSet(g.blocks[at].ops)
    BY <1>1, InBlock
  <2> QED
    BY <1>8, <1>9, <1>10, <2>1, <2>2
<1>12. ASSUME NEW p \in DOMAIN g.ops \ {o} PROVE ArgTypes(h, p) = ArgTypes(g, p)
  <2> DEFINE b == BlockOf(g, p)
             args == g.ops[p].args
  <2>1. b \in DOMAIN g.blocks /\ p \in ToSet(g.blocks[b].ops)
    BY InBlock
  <2>2. args \in Seq(InSight(g, b, p))
    BY <2>1, Operands
  <2> HIDE DEF b
  <2>3. h.ops[p].args = Renamed(args, by)
    BY <1>2, WithArgsParts
  <2> HIDE DEF args
  <2>4. /\ DOMAIN Renamed(args, by) = DOMAIN args
        /\ \A j \in DOMAIN args : args[j] \in InSight(g, b, p) /\ Renamed(args, by)[j] = Rename(by, args[j])
    <3>1. DOMAIN Renamed(args, by) = DOMAIN args
          /\ \A j \in DOMAIN args : Renamed(args, by)[j] = Rename(by, args[j])
      BY DEF Renamed
    <3> QED
      BY <2>2, <3>1
  <2>5. \A j \in DOMAIN args : ValueType(h, Renamed(args, by)[j]) = ValueType(g, args[j])
    BY <1>10, <2>1, <2>4
  <2> QED
    BY <2>3, <2>4, <2>5 DEF ArgTypes, args
<1>13. ASSUME g.ops[o].kind \in Terminators PROVE ArgTypes(h, n + m - 1) = ArgTypes(g, o)
  <2>1. h.ops[n + m - 1].args = g.ops[o].args
    BY <1>6, <1>7, <1>9, <1>13
  <2>2. g.ops[o].args \in Seq(InSight(g, at, o))
    BY <1>1, InBlock, Operands
  <2>3. \A j \in DOMAIN g.ops[o].args : ValueType(h, g.ops[o].args[j]) = ValueType(g, g.ops[o].args[j])
    BY <1>11, <2>2
  <2> QED
    BY <2>1, <2>3 DEF ArgTypes
<1>14. ASSUME NEW b \in DOMAIN g.blocks PROVE Body(h, b) = Body(g, b)
  <2> DEFINE y == Last(g.blocks[b].ops)
  <2>1. y \in ToSet(g.blocks[b].ops) /\ y \in DOMAIN g.ops /\ g.ops[y].kind \in Terminators
    <3>1. g.blocks[b].ops \in Seq(Nat) /\ g.blocks[b].ops # << >> /\ ToSet(g.blocks[b].ops) \subseteq DOMAIN g.ops
      BY BlockSeq DEF Regular
    <3>2. y \in ToSet(g.blocks[b].ops)
      <4> DEFINE ops == g.blocks[b].ops
      <4>1. ops \in Seq(Nat) /\ ops # << >>
        BY <3>1
      <4> HIDE DEF ops
      <4>2. Len(ops) \in DOMAIN ops
        BY <4>1
      <4>3. Last(ops) \in ToSet(ops)
        BY <4>2 DEF ToSet, Last
      <4> QED
        BY <4>3 DEF ops
    <3> QED
      BY <3>1, <3>2 DEF Regular
  <2>2. ArgTypes(h, Last(h.blocks[b].ops)) = ArgTypes(g, y)
    BY <1>4, <1>12, <1>13, <2>1
  <2> QED
    BY <1>3, <2>2 DEF Body
<1>15. \A p \in DOMAIN g.ops : \A r \in DOMAIN g.ops[p].regions : g.ops[p].regions[r] \in DOMAIN g.blocks
  BY DEF IsTree
<1>16. ASSUME NEW p \in DOMAIN g.ops \ {o} PROVE Bodies(h, p) = Bodies(g, p)
  <2>1. h.ops[p].regions = g.ops[p].regions
    BY <1>2, WithArgsParts
  <2> QED
    BY <1>14, <1>15, <2>1 DEF Bodies
<1>17. ASSUME NEW i \in 1 .. m
       PROVE  Bodies(h, n + i - 1) = IF i = m THEN Bodies(g, o) ELSE << >>
  <2>1. h.ops[n + i - 1].regions = IF i = m THEN g.ops[o].regions ELSE << >>
    BY <1>2, <1>7, WithArgsParts
  <2>2. CASE i = m
    BY <1>1, <1>14, <1>15, <2>1, <2>2 DEF Bodies
  <2>3. CASE i # m
    BY <2>1, <2>3 DEF Bodies
  <2> QED
    BY <2>2, <2>3
<1> QED
  BY <1>11, <1>12, <1>16, <1>17 DEF h, n, m

\* A pattern whose new operations the verifier accepts gives a valid function.
LEMMA ReplacedValid ==
  ASSUME NEW g, Valid(g), NEW o, NEW new, NEW values, Replaces(g, o, new, values),
         \A i \in 1 .. Len(new) :
           Accepts(new[i].kind, ArgTypes(replaceOp(g, o, new, values), g.next + i - 1), new[i].types,
                   IF i = Len(new) THEN Bodies(g, o) ELSE << >>)
  PROVE  Valid(replaceOp(g, o, new, values))
PROOF
<1> DEFINE h == replaceOp(g, o, new, values)
           n == g.next
           m == Len(new)
           by == By(o, values)
<1>1. IsTree(g) /\ Regular(g) /\ Dominated(g) /\ Typed(g)
  BY DEF Valid
<1>2. IsTree(h) /\ Regular(h) /\ Dominated(h)
  BY <1>1, ReplacedIsTree, ReplacedRegular, ReplacedDominated
<1>3. o \in DOMAIN g.ops /\ n \in Nat /\ m \in Nat /\ m >= 1 /\ DOMAIN g.ops \subseteq 1 .. n - 1
  BY <1>1 DEF Replaces, IsTree
<1>4. /\ DOMAIN h.ops = (DOMAIN g.ops \ {o}) \cup (n .. n + m - 1)
      /\ \A p \in DOMAIN g.ops \ {o} : h.ops[p] = WithArgs(g.ops[p], Renamed(g.ops[p].args, by))
      /\ \A i \in 1 .. m : h.ops[n + i - 1] = WithArgs(new[i], Renamed(new[i].args, by))
  BY <1>1, ReplacedOp
<1>5. /\ \A p \in DOMAIN g.ops \ {o} : ArgTypes(h, p) = ArgTypes(g, p) /\ Bodies(h, p) = Bodies(g, p)
      /\ \A i \in 1 .. m : Bodies(h, n + i - 1) = IF i = m THEN Bodies(g, o) ELSE << >>
  BY <1>1, ReplacedBodies
<1>6. \A i \in 1 .. m : new[i].types \in Seq(Type)
  BY DEF Replaces
<1>7. \A i \in 1 .. m : Accepts(new[i].kind, ArgTypes(h, n + i - 1), new[i].types,
                                IF i = m THEN Bodies(g, o) ELSE << >>)
  OBVIOUS
<1> HIDE DEF h, n, m, by
<1>8. ASSUME NEW p \in DOMAIN h.ops
      PROVE  /\ h.ops[p].types \in Seq(Type)
             /\ Accepts(h.ops[p].kind, ArgTypes(h, p), h.ops[p].types, Bodies(h, p))
  <2>1. CASE p \in DOMAIN g.ops \ {o}
    <3>1. g.ops[p].types \in Seq(Type) /\ Accepts(g.ops[p].kind, ArgTypes(g, p), g.ops[p].types, Bodies(g, p))
      BY <1>1, <2>1 DEF Typed
    <3>2. h.ops[p].kind = g.ops[p].kind /\ h.ops[p].types = g.ops[p].types
      BY <1>4, <2>1, WithArgsParts
    <3> QED
      BY <1>5, <2>1, <3>1, <3>2
  <2>2. CASE p \in n .. n + m - 1
    <3> DEFINE i == p - n + 1
    <3>1. i \in 1 .. m /\ p = n + i - 1
      BY <1>3, <2>2, NewNumber
    <3> HIDE DEF i
    <3>2. h.ops[p].kind = new[i].kind /\ h.ops[p].types = new[i].types
      BY <1>4, <3>1, WithArgsParts
    <3>3. Bodies(h, p) = IF i = m THEN Bodies(g, o) ELSE << >>
      BY <1>5, <3>1
    <3> QED
      BY <1>6, <1>7, <3>1, <3>2, <3>3
  <2> QED
    BY <1>4, <2>1, <2>2
<1>9. Typed(h)
  BY <1>8 DEF Typed
<1> QED
  BY <1>2, <1>9 DEF Valid, h

\* The types of what the new operations get.
LEMMA NewArgTypes ==
  ASSUME NEW g, IsTree(g), Regular(g), Dominated(g), NEW o, NEW new, NEW values, Replaces(g, o, new, values)
  PROVE  LET h == replaceOp(g, o, new, values)
             n == g.next
         IN  /\ \A i \in 1 .. Len(new) :
                  ArgTypes(h, n + i - 1) = [j \in DOMAIN new[i].args |-> ValueType(h, new[i].args[j])]
             /\ \A v \in InSight(g, BlockOf(g, o), o) : ValueType(h, v) = ValueType(g, v)
             /\ \A i \in 1 .. Len(new) : \A k : ValueType(h, OpResult(n + i - 1, k)) = new[i].types[k]
PROOF
<1> DEFINE h == replaceOp(g, o, new, values)
           n == g.next
           m == Len(new)
           by == By(o, values)
           at == BlockOf(g, o)
<1>1. /\ \A p \in DOMAIN g.ops \ {o} : ArgTypes(h, p) = ArgTypes(g, p) /\ Bodies(h, p) = Bodies(g, p)
      /\ \A i \in 1 .. m : Bodies(h, n + i - 1) = IF i = m THEN Bodies(g, o) ELSE << >>
      /\ \A v \in InSight(g, at, o) : ValueType(h, v) = ValueType(g, v)
  BY ReplacedBodies
<1>2. /\ \A b \in DOMAIN g.blocks : \A v \in Arguments(g, b) : ValueType(h, Rename(by, v)) = ValueType(g, v)
      /\ \A p \in DOMAIN g.ops : \A v \in Results(g, p) : ValueType(h, Rename(by, v)) = ValueType(g, v)
      /\ \A i \in 1 .. m : \A k : ValueType(h, OpResult(n + i - 1, k)) = new[i].types[k]
  BY ReplacedTypes
<1>3. Dominated(h) /\ \A i \in 1 .. m : h.ops[n + i - 1].args = new[i].args
  BY ReplacedDominated
<1> HIDE DEF h, n, m, by, at
<1>4. \A i \in 1 .. m : ArgTypes(h, n + i - 1) = [j \in DOMAIN new[i].args |-> ValueType(h, new[i].args[j])]
  BY <1>3 DEF ArgTypes
<1> QED
  BY <1>1, <1>2, <1>4 DEF h, n, m, at

\* An operation under another name: constant, yield and if.
Relabels == {<<"colgm.constant", "arith.constant">>, <<"colgm.yield", "scf.yield">>, <<"colgm.if", "scf.if">>}

\* The verifier asks the same of both.
LEMMA RelabelsAlike ==
  ASSUME NEW was, NEW kind, <<was, kind>> \in Relabels
  PROVE  /\ kind # "colgm.cast" /\ RegionCount(kind) = RegionCount(was)
         /\ kind \in Terminators <=> was \in Terminators
         /\ \A args, out, bodies : Accepts(was, args, out, bodies) => Accepts(kind, args, out, bodies)
PROOF
<1>1. CASE was = "colgm.constant" /\ kind = "arith.constant"
  BY <1>1 DEF RegionCount, Terminators, Accepts
<1>2. CASE was = "colgm.yield" /\ kind = "scf.yield"
  BY <1>2 DEF RegionCount, Terminators, Accepts
<1>3. CASE was = "colgm.if" /\ kind = "scf.if"
  BY <1>3 DEF RegionCount, Terminators, Accepts
<1> QED
  BY <1>1, <1>2, <1>3 DEF Relabels

\* Relabelling keeps a function valid (lowering.cpp: constant, yield, if).
LEMMA RelabelledValid ==
  ASSUME NEW g, Valid(g), NEW o \in DOMAIN g.ops, NEW kind, <<g.ops[o].kind, kind>> \in Relabels
  PROVE  Valid(Relabelled(g, o, kind)[1])
PROOF
<1> DEFINE op == g.ops[o]
           renamed == [op EXCEPT !.kind = kind]
           new == <<renamed>>
           n == g.next
           at == BlockOf(g, o)
           values == [i \in DOMAIN op.types |-> OpResult(n, i)]
           h == replaceOp(g, o, new, values)
<1>1. Relabelled(g, o, kind)[1] = h
  BY DEF Relabelled
<1>2. IsTree(g) /\ Regular(g) /\ Dominated(g) /\ Typed(g) /\ n \in Nat
  BY DEF Valid, IsTree
<1>3. op = WithArgs(op, op.args) /\ op.types \in Seq(Type)
      /\ Accepts(op.kind, ArgTypes(g, o), op.types, Bodies(g, o))
      /\ Len(op.regions) = RegionCount(op.kind)
  BY <1>2 DEF IsTree, Typed, Regular
<1>4. /\ renamed.kind = kind /\ renamed.regions = op.regions /\ renamed.args = op.args
      /\ renamed.types = op.types /\ renamed = WithArgs(renamed, renamed.args)
  BY <1>3 DEF WithArgs
<1>5. op.args \in Seq(InSight(g, at, o))
  BY <1>2, InBlock, Operands
<1> HIDE DEF op, renamed
<1>6. Len(new) = 1 /\ DOMAIN new = 1 .. 1 /\ new[1] = renamed
  OBVIOUS
<1>7. /\ kind # "colgm.cast" /\ RegionCount(kind) = RegionCount(op.kind)
      /\ kind \in Terminators <=> op.kind \in Terminators
      /\ \A args, out, bodies : Accepts(op.kind, args, out, bodies) => Accepts(kind, args, out, bodies)
  BY RelabelsAlike DEF op
<1>8. SeenByNew(g, o, new, 1) = InSight(g, at, o)
  BY DEF SeenByNew
<1>9. values = [i \in DOMAIN op.types |-> OpResult(n + 1 - 1, i)]
  BY <1>2
<1> HIDE DEF new, values, n
<1>10. Replaces(g, o, new, values)
  <2>1. \A i \in 1 .. 1 : i = 1
    OBVIOUS
  <2> QED
    BY <1>3, <1>4, <1>5, <1>6, <1>7, <1>8, <1>9, <2>1 DEF Replaces, op, n, at
<1>11. /\ \A i \in 1 .. 1 :
            ArgTypes(h, n + i - 1) = [j \in DOMAIN new[i].args |-> ValueType(h, new[i].args[j])]
       /\ \A v \in InSight(g, at, o) : ValueType(h, v) = ValueType(g, v)
  <2>1. /\ \A i \in 1 .. Len(new) :
             ArgTypes(h, n + i - 1) = [j \in DOMAIN new[i].args |-> ValueType(h, new[i].args[j])]
        /\ \A v \in InSight(g, at, o) : ValueType(h, v) = ValueType(g, v)
        /\ \A i \in 1 .. Len(new) : \A k : ValueType(h, OpResult(n + i - 1, k)) = new[i].types[k]
    BY <1>2, <1>10, NewArgTypes DEF n
  <2> QED
    BY <1>6, <2>1
<1> HIDE DEF h, at
<1>12. ArgTypes(h, n + 1 - 1) = ArgTypes(g, o)
  <2>1. \A j \in DOMAIN op.args : ValueType(h, op.args[j]) = ValueType(g, op.args[j])
    BY <1>5, <1>11
  <2>2. ArgTypes(h, n + 1 - 1) = [j \in DOMAIN op.args |-> ValueType(h, op.args[j])]
    BY <1>4, <1>6, <1>11
  <2> QED
    BY <2>1, <2>2 DEF ArgTypes, op
<1>13. \A i \in 1 .. Len(new) :
         Accepts(new[i].kind, ArgTypes(h, n + i - 1), new[i].types,
                 IF i = Len(new) THEN Bodies(g, o) ELSE << >>)
  <2>1. \A i \in 1 .. Len(new) : i = 1 /\ i = Len(new)
    BY <1>6
  <2> QED
    BY <1>3, <1>4, <1>6, <1>7, <1>12, <2>1
<1> QED
  BY <1>1, <1>10, <1>13, ReplacedValid DEF h, n

\* What the verifier asks of a loop.
LoopTypes(bounds, args, out, bodies) ==
  /\ Len(args) = bounds + Len(out)
  /\ \A i \in 1 .. bounds : args[i] = Index
  /\ \A i \in DOMAIN out : args[bounds + i] = out[i]
  /\ bodies[1] = [types |-> <<Index>> \o out, yields |-> out]

\* That is what the verifier asks of a loop.
LEMMA AcceptsLoop ==
  ASSUME NEW args, NEW out, NEW bodies
  PROVE  /\ Accepts("colgm.for", args, out, bodies) <=> LoopTypes(2, args, out, bodies)
         /\ Accepts("scf.for", args, out, bodies) <=> LoopTypes(3, args, out, bodies)
  BY DEF Accepts, LoopTypes

\* The type of an induction variable.
LEMMA IndexType == Index \in Type /\ <<Index>> \in Seq(Type)
PROOF
<1>1. Index \in Type
  BY DEF Index, Ty, Type
<1> QED
  BY <1>1

\* The parts of a concatenation.
LEMMA ConcatIs ==
  ASSUME NEW S, NEW x \in Seq(S), NEW y \in Seq(S)
  PROVE  /\ x \o y \in Seq(S) /\ Len(x \o y) = Len(x) + Len(y) /\ DOMAIN (x \o y) = 1 .. Len(x) + Len(y)
         /\ \A i \in 1 .. Len(x) : (x \o y)[i] = x[i]
         /\ \A i \in 1 .. Len(y) : (x \o y)[Len(x) + i] = y[i]
  OBVIOUS

\* A sequence is what its elements are.
LEMMA SequenceIs ==
  ASSUME NEW S, NEW x \in Seq(S)
  PROVE  x = [i \in 1 .. Len(x) |-> x[i]] /\ Len(x) \in Nat /\ DOMAIN x = 1 .. Len(x)
  OBVIOUS

\* The operands of the new loop.
LEMMA LoopOperandsAre ==
  ASSUME NEW S, NEW args \in Seq(S), Len(args) >= 2, NEW step
  PROVE  LET new == LoopOperands(args, step) IN
         /\ new \in Seq(S \cup {step}) /\ Len(new) = Len(args) + 1 /\ DOMAIN new = 1 .. Len(args) + 1
         /\ new[1] = args[1] /\ new[2] = args[2] /\ new[3] = step
         /\ \A i \in 1 .. Len(args) - 2 : new[3 + i] = args[2 + i]
PROOF
<1> DEFINE rest == SubSeq(args, 3, Len(args))
           first == <<args[1], args[2], step>>
           T == S \cup {step}
<1>1. Len(args) \in Nat /\ DOMAIN args = 1 .. Len(args) /\ \A k \in 1 .. Len(args) : args[k] \in S
  OBVIOUS
<1>2. rest \in Seq(S) /\ Len(rest) = Len(args) - 2 /\ \A i \in 1 .. Len(args) - 2 : rest[i] = args[2 + i]
  <2>1. rest \in Seq(S)
    BY <1>1
  <2>2. Len(rest) = Len(args) - 2
    BY <1>1
  <2>3. \A i \in 1 .. Len(args) - 2 : rest[i] = args[2 + i]
    BY <1>1
  <2> QED
    BY <2>1, <2>2, <2>3
<1>3. rest \in Seq(T)
  BY <1>2
<1>4. first \in Seq(T)
  BY <1>1
<1>5. Len(first) = 3 /\ first[1] = args[1] /\ first[2] = args[2] /\ first[3] = step
  OBVIOUS
<1> HIDE DEF rest, first, T
<1>6. /\ first \o rest \in Seq(T) /\ Len(first \o rest) = Len(first) + Len(rest)
      /\ DOMAIN (first \o rest) = 1 .. Len(first) + Len(rest)
      /\ \A i \in 1 .. Len(first) : (first \o rest)[i] = first[i]
      /\ \A i \in 1 .. Len(rest) : (first \o rest)[Len(first) + i] = rest[i]
  BY <1>3, <1>4, ConcatIs
<1>7. 1 \in 1 .. 3 /\ 2 \in 1 .. 3 /\ 3 \in 1 .. 3 /\ Len(args) + 1 = 3 + (Len(args) - 2)
  BY <1>1
<1>8. LoopOperands(args, step) = first \o rest
  BY DEF LoopOperands, first, rest
<1> DEFINE new == LoopOperands(args, step)
<1> HIDE DEF new
<1>9. new = first \o rest
  BY <1>8 DEF new
<1>10. new \in Seq(T) /\ Len(new) = Len(args) + 1 /\ DOMAIN new = 1 .. Len(args) + 1
  BY <1>2, <1>5, <1>6, <1>7, <1>9
<1>11. new[1] = args[1] /\ new[2] = args[2] /\ new[3] = step
  BY <1>5, <1>6, <1>7, <1>9
<1>12. \A i \in 1 .. Len(args) - 2 : new[3 + i] = args[2 + i]
  BY <1>2, <1>5, <1>6, <1>9
<1> QED
  BY <1>10, <1>11, <1>12 DEF new, T

\* The types a loop of the dialect has.
LEMMA ForTypes ==
  ASSUME NEW g, Valid(g), NEW o \in DOMAIN g.ops, g.ops[o].kind = "colgm.for"
  PROVE  LET op == g.ops[o] IN
         /\ op.args \in Seq(InSight(g, BlockOf(g, o), o)) /\ Len(op.args) = 2 + Len(op.types)
         /\ op.types \in Seq(Type)
         /\ ValueType(g, op.args[1]) = Index /\ ValueType(g, op.args[2]) = Index
         /\ \A i \in 1 .. Len(op.types) : ValueType(g, op.args[2 + i]) = op.types[i]
         /\ Bodies(g, o)[1] = [types |-> <<Index>> \o op.types, yields |-> op.types]
PROOF
<1> DEFINE op == g.ops[o]
           args == ArgTypes(g, o)
<1>1. IsTree(g) /\ Regular(g) /\ Dominated(g) /\ Typed(g)
  BY DEF Valid
<1>2. op.args \in Seq(InSight(g, BlockOf(g, o), o))
  BY <1>1, InBlock, Operands
<1>3. op.types \in Seq(Type) /\ LoopTypes(2, args, op.types, Bodies(g, o))
  BY <1>1, AcceptsLoop DEF Typed
<1>4. Len(op.args) \in Nat /\ DOMAIN op.args = 1 .. Len(op.args)
  BY <1>2
<1>5. args = [i \in 1 .. Len(op.args) |-> ValueType(g, op.args[i])]
  BY <1>4 DEF ArgTypes
<1>6. Len(args) = Len(op.args) /\ \A i \in 1 .. Len(op.args) : args[i] = ValueType(g, op.args[i])
  BY <1>4, <1>5, FunctionLen
<1>7. Len(op.types) \in Nat /\ DOMAIN op.types = 1 .. Len(op.types)
  BY <1>3
<1> HIDE DEF op, args
<1>8. Len(op.args) = 2 + Len(op.types) /\ args[1] = Index /\ args[2] = Index
      /\ \A i \in 1 .. Len(op.types) : args[2 + i] = op.types[i]
  <2>1. 1 \in 1 .. 2 /\ 2 \in 1 .. 2
    OBVIOUS
  <2> QED
    BY <1>3, <1>6, <1>7, <2>1 DEF LoopTypes
<1>9. ValueType(g, op.args[1]) = Index /\ ValueType(g, op.args[2]) = Index
  <2>1. 1 \in 1 .. Len(op.args) /\ 2 \in 1 .. Len(op.args)
    BY <1>7, <1>8
  <2> QED
    BY <1>6, <1>8, <2>1
<1>10. \A i \in 1 .. Len(op.types) : ValueType(g, op.args[2 + i]) = op.types[i]
  <2>1. \A i \in 1 .. Len(op.types) : 2 + i \in 1 .. Len(op.args)
    BY <1>7, <1>8
  <2> QED
    BY <1>6, <1>8, <2>1
<1> QED
  BY <1>2, <1>3, <1>8, <1>9, <1>10 DEF op, LoopTypes

\* The lowered loop.
LEMMA ForValid ==
  ASSUME NEW g, Valid(g), NEW o \in DOMAIN g.ops, g.ops[o].kind = "colgm.for"
  PROVE  Valid(lowering_for(g, o)[1])
PROOF
<1> DEFINE op == g.ops[o]
           n == g.next
           at == BlockOf(g, o)
           step == [Op("arith.constant", << >>, <<Index>>) EXCEPT !.value = 1]
           types == [i \in 1 .. Len(op.args) - 2 |-> ValueType(g, op.args[i + 2])]
           args == LoopOperands(op.args, OpResult(n, 1))
           loop == [kind |-> "scf.for", args |-> LoopOperands(op.args, OpResult(n, 1)), types |-> types,
                    regions |-> op.regions, value |-> op.value]
           new == <<step, loop>>
           values == [i \in DOMAIN types |-> OpResult(n + 1, i)]
           h == replaceOp(g, o, new, values)
           L == Len(op.types)
<1>1. lowering_for(g, o)[1] = h
  BY DEF lowering_for
<1>2. IsTree(g) /\ Regular(g) /\ Dominated(g) /\ Typed(g) /\ n \in Nat
  BY DEF Valid, IsTree
<1>3. op = WithArgs(op, op.args) /\ Len(op.regions) = 1
  BY <1>2 DEF IsTree, Regular, RegionCount
<1>4. /\ op.args \in Seq(InSight(g, at, o)) /\ Len(op.args) = 2 + L
      /\ op.types \in Seq(Type)
      /\ ValueType(g, op.args[1]) = Index /\ ValueType(g, op.args[2]) = Index
      /\ \A i \in 1 .. L : ValueType(g, op.args[2 + i]) = op.types[i]
      /\ Bodies(g, o)[1] = [types |-> <<Index>> \o op.types, yields |-> op.types]
  BY ForTypes
<1>5. L \in Nat /\ DOMAIN op.types = 1 .. L
  BY <1>4
<1>6. types = op.types
  <2>1. Len(op.args) - 2 = L
    BY <1>4, <1>5
  <2>2. \A i \in 1 .. L : i + 2 = 2 + i
    OBVIOUS
  <2>3. \A i \in 1 .. L : ValueType(g, op.args[i + 2]) = op.types[i]
    BY <1>4, <2>2
  <2>4. types = [i \in 1 .. L |-> op.types[i]]
    BY <2>1, <2>3
  <2>5. op.types = [i \in 1 .. L |-> op.types[i]]
    BY <1>4, SequenceIs
  <2> QED
    BY <2>4, <2>5
<1>7. /\ args \in Seq(InSight(g, at, o) \cup {OpResult(n, 1)}) /\ Len(args) = Len(op.args) + 1
      /\ DOMAIN args = 1 .. Len(op.args) + 1
      /\ args[1] = op.args[1] /\ args[2] = op.args[2] /\ args[3] = OpResult(n, 1)
      /\ \A i \in 1 .. Len(op.args) - 2 : args[3 + i] = op.args[2 + i]
  <2> DEFINE had == op.args
             S == InSight(g, at, o)
             one == OpResult(n, 1)
  <2>1. had \in Seq(S) /\ Len(had) >= 2
    BY <1>4, <1>5
  <2> HIDE DEF had, S, one
  <2> DEFINE a == LoopOperands(had, one)
  <2>2. /\ a \in Seq(S \cup {one}) /\ Len(a) = Len(had) + 1 /\ DOMAIN a = 1 .. Len(had) + 1
        /\ a[1] = had[1] /\ a[2] = had[2] /\ a[3] = one
        /\ \A i \in 1 .. Len(had) - 2 : a[3 + i] = had[2 + i]
    BY <2>1, LoopOperandsAre
  <2> QED
    BY <2>2 DEF had, S, one
<1>8. /\ step.kind = "arith.constant" /\ step.regions = << >> /\ step.args = << >>
      /\ step.types = <<Index>> /\ step = WithArgs(step, step.args)
  BY DEF Op, WithArgs
<1>9. /\ loop.kind = "scf.for" /\ loop.regions = op.regions /\ loop.args = args
      /\ loop.types = types /\ loop = WithArgs(loop, loop.args)
  <2> HIDE DEF types, op, args
  <2> QED
    BY DEF WithArgs, args
<1> HIDE DEF types
<1>10. Len(new) = 2 /\ DOMAIN new = 1 .. 2 /\ new[1] = step /\ new[2] = loop
  OBVIOUS
<1>11. values = [i \in DOMAIN op.types |-> OpResult(n + 2 - 1, i)]
  BY <1>2, <1>6
<1> HIDE DEF step, loop, args, new, values, h, n, L, at, op
<1>12. \A i \in 1 .. 2 : i = 1 \/ i = 2
  OBVIOUS
<1>13. OpResult(n, 1) \in Fresh(g, new, 1)
  <2>1. n + 1 - 1 = n /\ 1 \in DOMAIN <<Index>>
    BY <1>2
  <2> QED
    BY <1>8, <1>10, <2>1 DEF Fresh, n
<1>14. InSight(g, at, o) \cup {OpResult(n, 1)} \subseteq SeenByNew(g, o, new, 2)
  <2>1. 1 \in 1 .. 2 - 1
    OBVIOUS
  <2> QED
    BY <1>13, <2>1 DEF SeenByNew, at
<1>15. args \in Seq(SeenByNew(g, o, new, 2)) /\ << >> \in Seq(SeenByNew(g, o, new, 1))
  BY <1>7, <1>14
<1>16. <<Index>> \in Seq(Type)
  BY IndexType
<1>17. op.kind = "colgm.for" /\ op.kind \notin Terminators
       /\ RegionCount("arith.constant") = 0 /\ RegionCount("scf.for") = 1
       /\ "arith.constant" \notin Terminators /\ "scf.for" \notin Terminators
  BY DEF op, Terminators, RegionCount
<1>18. Replaces(g, o, new, values)
  <2>1. \A i \in 1 .. 2 :
       /\ new[i] = WithArgs(new[i], new[i].args)
       /\ new[i].kind # "colgm.cast" /\ new[i].types \in Seq(Type)
       /\ new[i].regions = IF i = 2 THEN op.regions ELSE << >>
       /\ Len(new[i].regions) = RegionCount(new[i].kind)
       /\ new[i].kind \in Terminators <=> i = 2 /\ op.kind \in Terminators
       /\ new[i].args \in Seq(SeenByNew(g, o, new, i))
    <3>1. Len(<< >>) = 0
      OBVIOUS
    <3> QED
      BY <1>3, <1>4, <1>6, <1>8, <1>9, <1>10, <1>12, <1>15, <1>16, <1>17, <3>1
  <2> QED
    BY <1>6, <1>9, <1>10, <1>11, <1>17, <2>1 DEF Replaces, op, n
<1>19. /\ \A i \in 1 .. 2 :
            ArgTypes(h, n + i - 1) = [j \in DOMAIN new[i].args |-> ValueType(h, new[i].args[j])]
       /\ \A v \in InSight(g, at, o) : ValueType(h, v) = ValueType(g, v)
       /\ \A i \in 1 .. 2 : \A k : ValueType(h, OpResult(n + i - 1, k)) = new[i].types[k]
  <2>1. /\ \A i \in 1 .. Len(new) :
             ArgTypes(h, n + i - 1) = [j \in DOMAIN new[i].args |-> ValueType(h, new[i].args[j])]
        /\ \A v \in InSight(g, at, o) : ValueType(h, v) = ValueType(g, v)
        /\ \A i \in 1 .. Len(new) : \A k : ValueType(h, OpResult(n + i - 1, k)) = new[i].types[k]
    BY <1>2, <1>18, NewArgTypes DEF n, h, at
  <2> QED
    BY <1>10, <2>1
<1>20. LoopTypes(3, ArgTypes(h, n + 2 - 1), op.types, Bodies(g, o))
  <2> DEFINE a == ArgTypes(h, n + 2 - 1)
  <2>1. a = [j \in 1 .. L + 3 |-> ValueType(h, args[j])]
    <3>1. DOMAIN args = 1 .. L + 3
      BY <1>4, <1>5, <1>7
    <3>2. 2 \in 1 .. 2
      OBVIOUS
    <3> QED
      BY <1>9, <1>10, <1>19, <3>1, <3>2
  <2> HIDE DEF a
  <2>2. L + 3 \in Nat
    BY <1>5
  <2>3. Len(a) = L + 3 /\ \A j \in 1 .. L + 3 : a[j] = ValueType(h, args[j])
    BY <2>1, <2>2, FunctionLen
  <2>4. \A j \in 1 .. L + 2 : ValueType(h, op.args[j]) = ValueType(g, op.args[j])
    <3>1. \A j \in 1 .. L + 2 : op.args[j] \in InSight(g, at, o)
      <4>1. L + 2 = Len(op.args)
        BY <1>4, <1>5
      <4>2. op.args \in Seq(InSight(g, at, o))
        BY <1>4
      <4> QED
        BY <4>1, <4>2
    <3> QED
      BY <1>19, <3>1
  <2>5. a[1] = Index /\ a[2] = Index
    <3>1. 1 \in 1 .. L + 2 /\ 2 \in 1 .. L + 2 /\ 1 \in 1 .. L + 3 /\ 2 \in 1 .. L + 3
      BY <1>5
    <3> QED
      BY <1>4, <1>7, <2>3, <2>4, <3>1
  <2>6. a[3] = Index
    <3>1. ValueType(h, OpResult(n, 1)) = <<Index>>[1]
      <4>1. 1 \in 1 .. 2 /\ n + 1 - 1 = n
        BY <1>2
      <4> QED
        BY <1>8, <1>10, <1>19, <4>1
    <3>2. 3 \in 1 .. L + 3
      BY <1>5
    <3> QED
      BY <1>7, <2>3, <3>1, <3>2
  <2>7. ASSUME NEW i \in 1 .. L PROVE a[3 + i] = op.types[i]
    <3>1. 3 + i \in 1 .. L + 3 /\ 2 + i \in 1 .. L + 2 /\ i \in 1 .. Len(op.args) - 2
      BY <1>4, <1>5
    <3> QED
      BY <1>4, <1>7, <2>3, <2>4, <3>1
  <2>8. \A i \in 1 .. 3 : i = 1 \/ i = 2 \/ i = 3
    OBVIOUS
  <2>9. Len(a) = 3 + L
    BY <1>5, <2>3
  <2> QED
    BY <1>4, <1>5, <2>5, <2>6, <2>7, <2>8, <2>9 DEF LoopTypes, a, L
<1>21. Accepts("arith.constant", ArgTypes(h, n + 1 - 1), <<Index>>, << >>)
  BY DEF Accepts
<1>22. Accepts("scf.for", ArgTypes(h, n + 2 - 1), op.types, Bodies(g, o))
  BY <1>20, AcceptsLoop
<1>23. \A i \in 1 .. Len(new) :
         Accepts(new[i].kind, ArgTypes(h, n + i - 1), new[i].types,
                 IF i = Len(new) THEN Bodies(g, o) ELSE << >>)
  BY <1>6, <1>8, <1>9, <1>10, <1>12, <1>21, <1>22
<1> QED
  BY <1>1, <1>18, <1>23, ReplacedValid DEF h, n

Width(e) == CASE e = "i1" -> 1 [] e \in {"i32", "f32"} -> 32 [] OTHER -> 64

\* What the verifier asks of what a cast becomes.
LEMMA AcceptsScalars ==
  ASSUME NEW s, NEW d, s.rank = -1, d.rank = -1
  PROVE  /\ s.elem \in Ints /\ d.elem \in Ints /\ Width(s.elem) < Width(d.elem) =>
              Accepts("arith.extsi", <<s>>, <<d>>, << >>)
         /\ s.elem \in Ints /\ d.elem \in Ints /\ Width(s.elem) > Width(d.elem) =>
              Accepts("arith.trunci", <<s>>, <<d>>, << >>)
         /\ s.elem \in Floats /\ d.elem \in Floats /\ Width(s.elem) < Width(d.elem) =>
              Accepts("arith.extf", <<s>>, <<d>>, << >>)
         /\ s.elem \in Floats /\ d.elem \in Floats /\ Width(s.elem) > Width(d.elem) =>
              Accepts("arith.truncf", <<s>>, <<d>>, << >>)
         /\ s.elem \in Ints /\ d.elem \in Floats => Accepts("arith.sitofp", <<s>>, <<d>>, << >>)
         /\ s.elem \in Floats /\ d.elem \in Ints => Accepts("arith.fptosi", <<s>>, <<d>>, << >>)
         /\ s.elem \in Ints /\ d.elem = "index" => Accepts("arith.index_cast", <<s>>, <<d>>, << >>)
         /\ s.elem = "index" /\ d.elem \in Ints => Accepts("arith.index_cast", <<s>>, <<d>>, << >>)
PROOF
<1>1. Len(<<s>>) = 1 /\ Len(<<d>>) = 1 /\ <<s>>[1] = s /\ <<d>>[1] = d
  OBVIOUS
<1> QED
  BY <1>1 DEF Accepts, Width

\* The operation of arith takes the element and gives the other one.
LEMMA ArithAccepts ==
  ASSUME NEW s \in Type, NEW d \in Type, s.rank = -1, d.rank = -1, arith_cast(s.elem, d.elem) # NoCast
  PROVE  \/ arith_cast(s.elem, d.elem) = << >> /\ s = d
         \/ \E k \in CastKinds \ {"tensor.extract", "tensor.from_elements"} :
              arith_cast(s.elem, d.elem) = <<k>> /\ Accepts(k, <<s>>, <<d>>, << >>)
PROOF
<1> DEFINE src == s.elem
           dst == d.elem
           width == [e \in Ints \cup Floats |->
                       CASE e = "i1" -> 1 [] e \in {"i32", "f32"} -> 32 [] OTHER -> 64]
<1>1. src \in Ints \cup Floats \cup {"index"} /\ dst \in Ints \cup Floats \cup {"index"}
  BY DEF Type
<1>2. \A e \in Ints \cup Floats : width[e] = Width(e)
  BY DEF Width
<1> HIDE DEF src, dst, width
<1>3. CASE src = dst
  <2>0. "index" \notin Ints /\ \A e \in Ints : e \notin Floats
    BY DEF Ints, Floats
  <2>1. arith_cast(src, dst) = << >>
    BY <1>3, <2>0 DEF arith_cast
  <2>2. s = [elem |-> s.elem, rank |-> s.rank] /\ d = [elem |-> d.elem, rank |-> d.rank]
    BY DEF Type
  <2>3. s = d
    BY <1>3, <2>2 DEF src, dst
  <2> QED
    BY <2>1, <2>3 DEF src, dst
<1>4. CASE src \in Ints /\ dst \in Ints /\ src # dst
  <2>0. src # "index" /\ dst # "index" /\ src \notin Floats /\ dst \notin Floats
    BY <1>4 DEF Ints, Floats
  <2>1. arith_cast(src, dst) = <<IF width[src] < width[dst] THEN "arith.extsi" ELSE "arith.trunci">>
    BY <1>4, <2>0 DEF arith_cast, width
  <2>2. Width(src) < Width(dst) \/ Width(src) > Width(dst)
    BY <1>4 DEF Width, Ints
  <2>3. Width(src) \in Nat /\ Width(dst) \in Nat
    BY DEF Width
  <2>4. CASE Width(src) < Width(dst)
    <3>1. arith_cast(src, dst) = <<"arith.extsi">>
      BY <1>2, <1>4, <2>1, <2>4
    <3>2. Accepts("arith.extsi", <<s>>, <<d>>, << >>)
      BY <1>4, <2>4, AcceptsScalars DEF src, dst
    <3> QED
      BY <3>1, <3>2 DEF src, dst, CastKinds
  <2>5. CASE Width(src) > Width(dst)
    <3>1. arith_cast(src, dst) = <<"arith.trunci">>
      BY <1>2, <1>4, <2>1, <2>3, <2>5
    <3>2. Accepts("arith.trunci", <<s>>, <<d>>, << >>)
      BY <1>4, <2>5, AcceptsScalars DEF src, dst
    <3> QED
      BY <3>1, <3>2 DEF src, dst, CastKinds
  <2> QED
    BY <2>2, <2>4, <2>5
<1>5. CASE src \in Floats /\ dst \in Floats /\ src # dst
  <2>0. src \notin Ints /\ dst \notin Ints
    BY <1>5 DEF Ints, Floats
  <2>1. arith_cast(src, dst) = <<IF width[src] < width[dst] THEN "arith.extf" ELSE "arith.truncf">>
    BY <1>5, <2>0 DEF arith_cast, width
  <2>2. Width(src) < Width(dst) \/ Width(src) > Width(dst)
    BY <1>5 DEF Width, Floats
  <2>3. Width(src) \in Nat /\ Width(dst) \in Nat
    BY DEF Width
  <2>4. CASE Width(src) < Width(dst)
    <3>1. arith_cast(src, dst) = <<"arith.extf">>
      BY <1>2, <1>5, <2>1, <2>4
    <3>2. Accepts("arith.extf", <<s>>, <<d>>, << >>)
      BY <1>5, <2>4, AcceptsScalars DEF src, dst
    <3> QED
      BY <3>1, <3>2 DEF src, dst, CastKinds
  <2>5. CASE Width(src) > Width(dst)
    <3>1. arith_cast(src, dst) = <<"arith.truncf">>
      BY <1>2, <1>5, <2>1, <2>3, <2>5
    <3>2. Accepts("arith.truncf", <<s>>, <<d>>, << >>)
      BY <1>5, <2>5, AcceptsScalars DEF src, dst
    <3> QED
      BY <3>1, <3>2 DEF src, dst, CastKinds
  <2> QED
    BY <2>2, <2>4, <2>5
<1>6. CASE src \in Ints /\ dst \in Floats
  <2>1. dst \notin Ints /\ src \notin Floats
    BY <1>6 DEF Ints, Floats
  <2>2. arith_cast(src, dst) = <<"arith.sitofp">>
    BY <1>6, <2>1 DEF arith_cast
  <2>3. Accepts("arith.sitofp", <<s>>, <<d>>, << >>)
    BY <1>6, AcceptsScalars DEF src, dst
  <2> QED
    BY <2>2, <2>3 DEF src, dst, CastKinds
<1>7. CASE src \in Floats /\ dst \in Ints
  <2>1. src \notin Ints /\ dst \notin Floats
    BY <1>7 DEF Ints, Floats
  <2>2. arith_cast(src, dst) = <<"arith.fptosi">>
    BY <1>7, <2>1 DEF arith_cast
  <2>3. Accepts("arith.fptosi", <<s>>, <<d>>, << >>)
    BY <1>7, AcceptsScalars DEF src, dst
  <2> QED
    BY <2>2, <2>3 DEF src, dst, CastKinds
<1>8. CASE (src \in Ints /\ dst = "index") \/ (src = "index" /\ dst \in Ints)
  <2>1. "index" \notin Ints /\ "index" \notin Floats /\ \A e \in Ints : e \notin Floats
    BY DEF Ints, Floats
  <2>2. arith_cast(src, dst) = <<"arith.index_cast">>
    BY <1>8, <2>1 DEF arith_cast
  <2>3. Accepts("arith.index_cast", <<s>>, <<d>>, << >>)
    BY <1>8, AcceptsScalars DEF src, dst
  <2> QED
    BY <2>2, <2>3 DEF src, dst, CastKinds
<1>9. ASSUME (src \in Floats /\ dst = "index") \/ (src = "index" /\ dst \in Floats) PROVE FALSE
  <2>1. "index" \notin Ints /\ "index" \notin Floats /\ \A e \in Floats : e \notin Ints
    BY DEF Ints, Floats
  <2>2. arith_cast(src, dst) = NoCast
    BY <1>9, <2>1 DEF arith_cast
  <2> QED
    BY <2>2 DEF src, dst
<1> QED
  BY <1>1, <1>3, <1>4, <1>5, <1>6, <1>7, <1>8, <1>9

\* Values in sight have types.
LEMMA ValueTyped ==
  ASSUME NEW g, IsTree(g), Typed(g), NEW b \in DOMAIN g.blocks, NEW o \in ToSet(g.blocks[b].ops),
         NEW v \in InSight(g, b, o)
  PROVE  ValueType(g, v) \in Type
PROOF
<1>1. ASSUME NEW d \in DOMAIN g.blocks, v \in Arguments(g, d) PROVE ValueType(g, v) \in Type
  <2>1. PICK i \in DOMAIN g.blocks[d].types : v = Argument(d, i)
    BY <1>1 DEF Arguments
  <2>2. g.blocks[d].types \in Seq(Type)
    BY <1>1, BlockSeq
  <2>3. g.blocks[d].types[i] \in Type
    BY <2>2
  <2> QED
    BY <2>1, <2>3, TypeOfValue
<1>2. ASSUME NEW p \in DOMAIN g.ops, v \in Results(g, p) PROVE ValueType(g, v) \in Type
  <2>1. PICK i \in DOMAIN g.ops[p].types : v = OpResult(p, i)
    BY <1>2 DEF Results
  <2>2. g.ops[p].types \in Seq(Type)
    BY <1>2 DEF Typed
  <2>3. g.ops[p].types[i] \in Type
    BY <2>2
  <2> QED
    BY <2>1, <2>3, TypeOfValue
<1> QED
  BY <1>1, <1>2, SightIs

\* Operations of one operand and one result, each of the one before.
Linked(kinds, src, dst, type) ==
  /\ Len(kinds) \in Nat /\ Len(kinds) >= 1 /\ DOMAIN kinds = 1 .. Len(kinds)
  /\ \A i \in 1 .. Len(kinds) :
       /\ kinds[i] \in CastKinds /\ type[kinds[i]] \in Type
       /\ Accepts(kinds[i], <<IF i = 1 THEN src ELSE type[kinds[i - 1]]>>, <<type[kinds[i]]>>, << >>)
  /\ type[kinds[Len(kinds)]] = dst

\* One, two or three operations in a row.
LEMMA LinkedChains ==
  ASSUME NEW src, NEW dst, NEW type, NEW x \in CastKinds, NEW y \in CastKinds, NEW z \in CastKinds,
         type[x] \in Type, type[y] \in Type, type[z] \in Type,
         Accepts(x, <<src>>, <<type[x]>>, << >>)
  PROVE  /\ type[x] = dst => Linked(<<x>>, src, dst, type)
         /\ Accepts(y, <<type[x]>>, <<type[y]>>, << >>) /\ type[y] = dst => Linked(<<x, y>>, src, dst, type)
         /\ Accepts(y, <<type[x]>>, <<type[y]>>, << >>) /\ Accepts(z, <<type[y]>>, <<type[z]>>, << >>)
            /\ type[z] = dst => Linked(<<x, y, z>>, src, dst, type)
PROOF
<1>1. /\ Len(<<x>>) = 1 /\ DOMAIN <<x>> = 1 .. 1 /\ <<x>>[1] = x
      /\ Len(<<x, y>>) = 2 /\ DOMAIN <<x, y>> = 1 .. 2 /\ <<x, y>>[1] = x /\ <<x, y>>[2] = y
      /\ Len(<<x, y, z>>) = 3 /\ DOMAIN <<x, y, z>> = 1 .. 3
      /\ <<x, y, z>>[1] = x /\ <<x, y, z>>[2] = y /\ <<x, y, z>>[3] = z
  OBVIOUS
<1>2. /\ \A i \in 1 .. 1 : i = 1
      /\ \A i \in 1 .. 2 : i = 1 \/ (i = 2 /\ i - 1 = 1)
      /\ \A i \in 1 .. 3 : i = 1 \/ (i = 2 /\ i - 1 = 1) \/ (i = 3 /\ i - 1 = 2)
  OBVIOUS
<1>3. ASSUME type[x] = dst PROVE Linked(<<x>>, src, dst, type)
  <2> DEFINE s == <<x>>
  <2>1. Len(s) = 1 /\ DOMAIN s = 1 .. 1 /\ s[1] = x
    BY <1>1
  <2> HIDE DEF s
  <2>2. \A i \in 1 .. Len(s) : i = 1 /\ s[i] = x
    BY <1>2, <2>1
  <2>3. Linked(s, src, dst, type)
    BY <1>3, <2>1, <2>2 DEF Linked
  <2> QED
    BY <2>3 DEF s
<1>4. ASSUME Accepts(y, <<type[x]>>, <<type[y]>>, << >>), type[y] = dst
      PROVE  Linked(<<x, y>>, src, dst, type)
  <2> DEFINE s == <<x, y>>
  <2>1. Len(s) = 2 /\ DOMAIN s = 1 .. 2 /\ s[1] = x /\ s[2] = y
    BY <1>1
  <2> HIDE DEF s
  <2> QED
    BY <1>2, <1>4, <2>1 DEF Linked
<1>5. ASSUME Accepts(y, <<type[x]>>, <<type[y]>>, << >>), Accepts(z, <<type[y]>>, <<type[z]>>, << >>),
             type[z] = dst
      PROVE  Linked(<<x, y, z>>, src, dst, type)
  <2> DEFINE s == <<x, y, z>>
  <2>1. Len(s) = 3 /\ DOMAIN s = 1 .. 3 /\ s[1] = x /\ s[2] = y /\ s[3] = z
    BY <1>1
  <2> HIDE DEF s
  <2> QED
    BY <1>2, <1>5, <2>1 DEF Linked
<1> QED
  BY <1>3, <1>4, <1>5

\* Two and three in a row.
LEMMA InARow ==
  ASSUME NEW x, NEW y, NEW z
  PROVE  /\ <<x>> \o << >> \o <<y>> = <<x, y>> /\ <<x>> \o <<y>> \o << >> = <<x, y>>
         /\ << >> \o <<x>> \o <<y>> = <<x, y>> /\ <<x>> \o <<y>> \o <<z>> = <<x, y, z>>
PROOF
<1> DEFINE S == {x, y, z}
<1>1. <<x>> \in Seq(S) /\ <<y>> \in Seq(S) /\ <<z>> \in Seq(S) /\ << >> \in Seq(S)
      /\ <<x, y>> \in Seq(S) /\ <<x, y, z>> \in Seq(S)
  OBVIOUS
<1> HIDE DEF S
<1>2. <<x>> \o << >> = <<x>> /\ << >> \o <<x>> = <<x>>
  OBVIOUS
<1>3. <<x, y>> = <<x>> \o <<y>>
  <2> DEFINE p == <<x>>
             q == <<y>>
             r == <<x, y>>
  <2>1. p \in Seq(S) /\ q \in Seq(S) /\ r \in Seq(S) /\ Len(p) = 1 /\ Len(q) = 1 /\ Len(r) = 2
        /\ p[1] = x /\ q[1] = y /\ r[1] = x /\ r[2] = y
    BY <1>1
  <2> HIDE DEF p, q, r
  <2>2. Len(r) = Len(p) + Len(q) /\ \A k \in 1 .. Len(p) : r[k] = p[k]
    BY <2>1
  <2>3. \A k \in 1 .. Len(q) : r[Len(p) + k] = q[k]
    BY <2>1
  <2>4. r = p \o q
    BY <2>1, <2>2, <2>3, Concatenation
  <2> QED
    BY <2>4 DEF p, q, r
<1>4. <<x, y, z>> = <<x, y>> \o <<z>>
  BY <1>1, Concatenation
<1>5. <<x, y>> \o << >> = <<x, y>>
  BY <1>1
<1> QED
  BY <1>2, <1>3, <1>4, <1>5

\* What lowering_cast makes of a cast, as it writes it down.
KindsOf(src, dst) ==
  (IF IsTensor(src) THEN <<"tensor.extract">> ELSE << >>)
  \o arith_cast(src.elem, dst.elem)
  \o (IF IsTensor(dst) THEN <<"tensor.from_elements">> ELSE << >>)
TypesOf(src, dst) ==
  [kind \in CastKinds |->
     CASE kind = "tensor.extract" -> ElementType(src)
       [] kind = "tensor.from_elements" -> dst
       [] OTHER -> ElementType(dst)]

\* The operations that a cast becomes are such a row (lowering_cast).
LEMMA CastLinked ==
  ASSUME NEW src \in Type, NEW dst \in Type, src.rank <= 0, dst.rank <= 0,
         IsTensor(src) \/ IsTensor(dst), arith_cast(src.elem, dst.elem) # NoCast
  PROVE  Linked(KindsOf(src, dst), src, dst, TypesOf(src, dst))
PROOF
<1> DEFINE ex == "tensor.extract"
           fr == "tensor.from_elements"
           type == TypesOf(src, dst)
           es == ElementType(src)
           ed == ElementType(dst)
           a == IF IsTensor(src) THEN <<ex>> ELSE << >>
           b == arith_cast(src.elem, dst.elem)
           c == IF IsTensor(dst) THEN <<fr>> ELSE << >>
<1>1. /\ es \in Type /\ ed \in Type /\ es.rank = -1 /\ ed.rank = -1
      /\ es.elem = src.elem /\ ed.elem = dst.elem
  BY DEF Type, ElementType, Ty
<1>2. /\ IsTensor(src) => src.rank = 0
      /\ ~IsTensor(src) => es = src
      /\ IsTensor(dst) => dst.rank = 0
      /\ ~IsTensor(dst) => ed = dst
  BY DEF Type, IsTensor, ElementType, Ty
<1>3. /\ type[ex] = es /\ type[fr] = dst
      /\ \A k \in CastKinds \ {ex, fr} : type[k] = ed
      /\ ex \in CastKinds /\ fr \in CastKinds
  BY DEF TypesOf, CastKinds
<1>4. IsTensor(src) => Accepts(ex, <<src>>, <<es>>, << >>)
  <2>1. Len(<<src>>) = 1 /\ Len(<<es>>) = 1 /\ <<src>>[1] = src /\ <<es>>[1] = es
    OBVIOUS
  <2> HIDE DEF es
  <2> QED
    BY <1>2, <2>1 DEF Accepts, es
<1>5. IsTensor(dst) => Accepts(fr, <<ed>>, <<dst>>, << >>)
  <2>1. Len(<<dst>>) = 1 /\ Len(<<ed>>) = 1 /\ <<dst>>[1] = dst /\ <<ed>>[1] = ed
    OBVIOUS
  <2> HIDE DEF ed
  <2> QED
    BY <1>2, <2>1 DEF Accepts, ed
<1>6. \/ b = << >> /\ es = ed
      \/ \E k \in CastKinds \ {ex, fr} : b = <<k>> /\ Accepts(k, <<es>>, <<ed>>, << >>)
  <2> HIDE DEF es, ed
  <2>1. arith_cast(es.elem, ed.elem) # NoCast /\ b = arith_cast(es.elem, ed.elem)
    BY <1>1
  <2> HIDE DEF b
  <2> QED
    BY <1>1, <2>1, ArithAccepts
<1>7. KindsOf(src, dst) = a \o b \o c
  BY DEF KindsOf
<1> HIDE DEF type, es, ed, b
<1> USE DEF a, c
<1>8. CASE b = << >> /\ es = ed
  <2>1. CASE IsTensor(src) /\ IsTensor(dst)
    <3>1. KindsOf(src, dst) = <<ex, fr>>
      BY <1>7, <1>8, <2>1, InARow
    <3>2. Linked(<<ex, fr>>, src, dst, type)
      BY <1>1, <1>3, <1>4, <1>5, <1>8, <2>1, LinkedChains
    <3> QED
      BY <3>1, <3>2 DEF type
  <2>2. CASE IsTensor(src) /\ ~IsTensor(dst)
    <3>1. KindsOf(src, dst) = <<ex>>
      BY <1>7, <1>8, <2>2
    <3>2. Linked(<<ex>>, src, dst, type)
      BY <1>1, <1>2, <1>3, <1>4, <1>8, <2>2, LinkedChains
    <3> QED
      BY <3>1, <3>2 DEF type
  <2>3. CASE ~IsTensor(src) /\ IsTensor(dst)
    <3>1. KindsOf(src, dst) = <<fr>>
      BY <1>7, <1>8, <2>3
    <3>2. Linked(<<fr>>, src, dst, type)
      BY <1>1, <1>2, <1>3, <1>5, <1>8, <2>3, LinkedChains
    <3> QED
      BY <3>1, <3>2 DEF type
  <2> QED
    BY <2>1, <2>2, <2>3
<1>9. ASSUME NEW k \in CastKinds \ {ex, fr}, b = <<k>>, Accepts(k, <<es>>, <<ed>>, << >>)
      PROVE  Linked(KindsOf(src, dst), src, dst, type)
  <2>1. CASE IsTensor(src) /\ IsTensor(dst)
    <3>1. KindsOf(src, dst) = <<ex, k, fr>>
      BY <1>7, <1>9, <2>1, InARow
    <3>2. Linked(<<ex, k, fr>>, src, dst, type)
      BY <1>1, <1>3, <1>4, <1>5, <1>9, <2>1, LinkedChains
    <3> QED
      BY <3>1, <3>2
  <2>2. CASE IsTensor(src) /\ ~IsTensor(dst)
    <3>1. KindsOf(src, dst) = <<ex, k>>
      BY <1>7, <1>9, <2>2, InARow
    <3>2. Linked(<<ex, k>>, src, dst, type)
      BY <1>1, <1>2, <1>3, <1>4, <1>9, <2>2, LinkedChains
    <3> QED
      BY <3>1, <3>2
  <2>3. CASE ~IsTensor(src) /\ IsTensor(dst)
    <3>1. KindsOf(src, dst) = <<k, fr>>
      BY <1>7, <1>9, <2>3, InARow
    <3>2. Linked(<<k, fr>>, src, dst, type)
      BY <1>1, <1>2, <1>3, <1>5, <1>9, <2>3, LinkedChains
    <3> QED
      BY <3>1, <3>2
  <2> QED
    BY <2>1, <2>2, <2>3
<1> QED
  BY <1>6, <1>8, <1>9 DEF type

\* The types of a cast.
LEMMA CastTypes ==
  ASSUME NEW g, Valid(g), NEW o \in DOMAIN g.ops, g.ops[o].kind = "colgm.cast"
  PROVE  LET op == g.ops[o] IN
         /\ op.args[1] \in InSight(g, BlockOf(g, o), o) /\ ValueType(g, op.args[1]) \in Type
         /\ op.types = <<op.types[1]>> /\ op.types[1] \in Type /\ op.regions = << >>
         /\ cast_verify(ValueType(g, op.args[1]), op.types[1])
PROOF
<1> DEFINE op == g.ops[o]
           args == ArgTypes(g, o)
           at == BlockOf(g, o)
<1>1. IsTree(g) /\ Regular(g) /\ Dominated(g) /\ Typed(g)
  BY DEF Valid
<1>2. op.regions = << >>
  BY <1>1 DEF IsTree
<1>3. at \in DOMAIN g.blocks /\ o \in ToSet(g.blocks[at].ops)
  BY <1>1, InBlock
<1>4. op.args \in Seq(InSight(g, at, o))
  BY <1>1, <1>3, Operands
<1>5. op.types \in Seq(Type) /\ Len(args) = 1 /\ Len(op.types) = 1 /\ cast_verify(args[1], op.types[1])
  BY <1>1 DEF Typed, Accepts
<1>6. args = [i \in 1 .. Len(op.args) |-> ValueType(g, op.args[i])] /\ Len(op.args) \in Nat
      /\ DOMAIN op.args = 1 .. Len(op.args)
  BY <1>4 DEF ArgTypes
<1> HIDE DEF at, args, op
<1>7. Len(args) = Len(op.args)
  BY <1>6, FunctionLen
<1>8. 1 \in DOMAIN op.args /\ args[1] = ValueType(g, op.args[1])
  BY <1>5, <1>6, <1>7
<1>9. op.args[1] \in InSight(g, at, o)
  BY <1>4, <1>8
<1>10. ValueType(g, op.args[1]) \in Type
  BY <1>1, <1>3, <1>9, ValueTyped
<1>11. op.types = <<op.types[1]>> /\ op.types[1] \in Type
  BY <1>5
<1> QED
  BY <1>2, <1>5, <1>8, <1>9, <1>10, <1>11 DEF op, at

\* What MLIR's verifier asks of operations without regions.
LEMMA CastKindsPlain ==
  ASSUME NEW k \in CastKinds
  PROVE  k # "colgm.cast" /\ RegionCount(k) = 0 /\ k \notin Terminators
  BY DEF CastKinds, RegionCount, Terminators

\* A chain in the place of an operation that has one operand and one result.
LinkedOps(g, input, kinds, type) ==
  [i \in DOMAIN kinds |->
     Op(kinds[i], <<IF i = 1 THEN input ELSE OpResult(g.next + i - 2, 1)>>, <<type[kinds[i]]>>)]

\* A row in the place of a cast keeps a function valid.
LEMMA LinkedValid ==
  ASSUME NEW g, Valid(g), NEW o \in DOMAIN g.ops, NEW input \in InSight(g, BlockOf(g, o), o),
         NEW kinds, NEW dst, NEW type, Linked(kinds, ValueType(g, input), dst, type),
         g.ops[o].types = <<dst>>, g.ops[o].regions = << >>, g.ops[o].kind = "colgm.cast"
  PROVE  Valid(replaceOp(g, o, LinkedOps(g, input, kinds, type),
                         <<OpResult(g.next + Len(kinds) - 1, 1)>>))
         /\ Len(LinkedOps(g, input, kinds, type)) = Len(kinds)
PROOF
<1> DEFINE n == g.next
           m == Len(kinds)
           at == BlockOf(g, o)
           new == LinkedOps(g, input, kinds, type)
           values == <<OpResult(n + m - 1, 1)>>
           h == replaceOp(g, o, new, values)
           arg(i) == IF i = 1 THEN input ELSE OpResult(n + i - 2, 1)
<1>1. IsTree(g) /\ Regular(g) /\ Dominated(g) /\ Typed(g) /\ n \in Nat
  BY DEF Valid, IsTree
<1>2. /\ m \in Nat /\ m >= 1 /\ DOMAIN kinds = 1 .. m
      /\ \A i \in 1 .. m :
           /\ kinds[i] \in CastKinds /\ type[kinds[i]] \in Type
           /\ Accepts(kinds[i], <<IF i = 1 THEN ValueType(g, input) ELSE type[kinds[i - 1]]>>,
                      <<type[kinds[i]]>>, << >>)
      /\ type[kinds[m]] = dst
  BY DEF Linked
<1> HIDE DEF m
<1>3. new = [i \in 1 .. m |-> Op(kinds[i], <<arg(i)>>, <<type[kinds[i]]>>)]
  BY <1>2 DEF LinkedOps
<1>4. DOMAIN new = 1 .. m /\ \A i \in 1 .. m : new[i] = Op(kinds[i], <<arg(i)>>, <<type[kinds[i]]>>)
  BY <1>3
<1> HIDE DEF new, arg
<1>5. Len(new) = m
  <2>1. new = [i \in 1 .. m |-> new[i]]
    BY <1>3, <1>4
  <2> QED
    BY <1>2, <2>1, FunctionLen
<1>6. \A i \in 1 .. m :
        /\ new[i].kind = kinds[i] /\ new[i].args = <<arg(i)>> /\ new[i].types = <<type[kinds[i]]>>
        /\ new[i].regions = << >> /\ new[i] = WithArgs(new[i], new[i].args)
  BY <1>4 DEF Op, WithArgs
<1>7. ASSUME NEW i \in 1 .. m PROVE <<arg(i)>> \in Seq(SeenByNew(g, o, new, i))
  <2>1. CASE i = 1
    <3>1. arg(i) \in SeenByNew(g, o, new, i)
      BY <2>1 DEF SeenByNew, arg
    <3> QED
      BY <3>1
  <2>2. CASE i # 1
    <3>1. i - 1 \in 1 .. m /\ i - 1 \in 1 .. i - 1 /\ n + (i - 1) - 1 = n + i - 2
      BY <1>1, <1>2, <2>2
    <3>2. new[i - 1].types = <<type[kinds[i - 1]]>>
      BY <1>6, <3>1
    <3>3. 1 \in DOMAIN new[i - 1].types
      BY <3>2
    <3>4. arg(i) = OpResult(n + (i - 1) - 1, 1)
      BY <2>2, <3>1 DEF arg
    <3>5. arg(i) \in Fresh(g, new, i - 1)
      BY <3>3, <3>4 DEF Fresh
    <3>6. arg(i) \in SeenByNew(g, o, new, i)
      BY <3>1, <3>5 DEF SeenByNew
    <3> QED
      BY <3>6
  <2> QED
    BY <2>1, <2>2
<1>8. m \in 1 .. m
  BY <1>2
<1>9. values = [i \in DOMAIN <<dst>> |-> OpResult(n + m - 1, i)]
  OBVIOUS
<1> HIDE DEF values, n, h, at
<1>10. Replaces(g, o, new, values)
  <2>1. \A i \in 1 .. m :
       /\ new[i] = WithArgs(new[i], new[i].args)
       /\ new[i].kind # "colgm.cast" /\ new[i].types \in Seq(Type)
       /\ new[i].regions = IF i = m THEN g.ops[o].regions ELSE << >>
       /\ Len(new[i].regions) = RegionCount(new[i].kind)
       /\ new[i].kind \in Terminators <=> i = m /\ g.ops[o].kind \in Terminators
       /\ new[i].args \in Seq(SeenByNew(g, o, new, i))
    <3> SUFFICES ASSUME NEW i \in 1 .. m
                 PROVE
       /\ new[i] = WithArgs(new[i], new[i].args)
       /\ new[i].kind # "colgm.cast" /\ new[i].types \in Seq(Type)
       /\ new[i].regions = IF i = m THEN g.ops[o].regions ELSE << >>
       /\ Len(new[i].regions) = RegionCount(new[i].kind)
       /\ new[i].kind \in Terminators <=> i = m /\ g.ops[o].kind \in Terminators
       /\ new[i].args \in Seq(SeenByNew(g, o, new, i))
      OBVIOUS
    <3>1. /\ kinds[i] # "colgm.cast" /\ RegionCount(kinds[i]) = 0 /\ kinds[i] \notin Terminators
      BY <1>2, CastKindsPlain
    <3>2. <<type[kinds[i]]>> \in Seq(Type)
      <4>1. type[kinds[i]] \in Type
        BY <1>2
      <4> QED
        BY <4>1
    <3>3. Len(<< >>) = 0
      OBVIOUS
    <3>4. g.ops[o].kind \notin Terminators
      BY DEF Terminators
    <3> QED
      BY <1>6, <1>7, <3>1, <3>2, <3>3, <3>4
  <2>2. new[m].types = g.ops[o].types
    BY <1>2, <1>6, <1>8
  <2>3. g.ops[o].kind \notin Terminators
    BY DEF Terminators
  <2> QED
    BY <1>2, <1>4, <1>5, <1>9, <2>1, <2>2, <2>3 DEF Replaces, n
<1>11. /\ \A i \in 1 .. m :
            ArgTypes(h, n + i - 1) = [j \in DOMAIN new[i].args |-> ValueType(h, new[i].args[j])]
       /\ \A v \in InSight(g, at, o) : ValueType(h, v) = ValueType(g, v)
       /\ \A i \in 1 .. m : \A k : ValueType(h, OpResult(n + i - 1, k)) = new[i].types[k]
  <2>1. /\ \A i \in 1 .. Len(new) :
             ArgTypes(h, n + i - 1) = [j \in DOMAIN new[i].args |-> ValueType(h, new[i].args[j])]
        /\ \A v \in InSight(g, at, o) : ValueType(h, v) = ValueType(g, v)
        /\ \A i \in 1 .. Len(new) : \A k : ValueType(h, OpResult(n + i - 1, k)) = new[i].types[k]
    BY <1>1, <1>10, NewArgTypes DEF n, h, at
  <2> QED
    BY <1>5, <2>1
<1>12. ASSUME NEW i \in 1 .. m
       PROVE  ArgTypes(h, n + i - 1) = <<IF i = 1 THEN ValueType(g, input) ELSE type[kinds[i - 1]]>>
  <2>1. ArgTypes(h, n + i - 1) = [j \in DOMAIN <<arg(i)>> |-> ValueType(h, <<arg(i)>>[j])]
    BY <1>6, <1>11
  <2>2. ArgTypes(h, n + i - 1) = <<ValueType(h, arg(i))>>
    BY <2>1
  <2>3. CASE i = 1
    <3>1. arg(i) = input /\ input \in InSight(g, at, o)
      BY <2>3 DEF arg, at
    <3> QED
      BY <1>11, <2>2, <2>3, <3>1
  <2>4. CASE i # 1
    <3>1. i - 1 \in 1 .. m /\ n + (i - 1) - 1 = n + i - 2
      BY <1>1, <1>2, <2>4
    <3>2. arg(i) = OpResult(n + (i - 1) - 1, 1)
      BY <2>4, <3>1 DEF arg, n
    <3>3. ValueType(h, arg(i)) = <<type[kinds[i - 1]]>>[1]
      BY <1>6, <1>11, <3>1, <3>2
    <3> QED
      BY <2>2, <2>4, <3>3
  <2> QED
    BY <2>3, <2>4
<1>13. Bodies(g, o) = << >>
  BY DEF Bodies
<1>14. \A i \in 1 .. Len(new) :
         Accepts(new[i].kind, ArgTypes(h, n + i - 1), new[i].types,
                 IF i = Len(new) THEN Bodies(g, o) ELSE << >>)
  BY <1>2, <1>5, <1>6, <1>12, <1>13
<1> QED
  BY <1>5, <1>10, <1>14, ReplacedValid DEF h, n, values, m, new

\* The operations a cast becomes.
LEMMA CastValid ==
  ASSUME NEW g, Valid(g), NEW o \in DOMAIN g.ops, g.ops[o].kind = "colgm.cast",
         lowering_cast(g, o) # << >>
  PROVE  Valid(lowering_cast(g, o)[1])
PROOF
<1> DEFINE op == g.ops[o]
           input == op.args[1]
           src == ValueType(g, input)
           dst == op.types[1]
           n == g.next
           kinds == (IF IsTensor(src) THEN <<"tensor.extract">> ELSE << >>)
                    \o arith_cast(src.elem, dst.elem)
                    \o (IF IsTensor(dst) THEN <<"tensor.from_elements">> ELSE << >>)
           type(kind) == CASE kind = "tensor.extract" -> ElementType(src)
                           [] kind = "tensor.from_elements" -> dst
                           [] OTHER -> ElementType(dst)
           new == [i \in DOMAIN kinds |->
                     Op(kinds[i], <<IF i = 1 THEN input ELSE OpResult(n + i - 2, 1)>>, <<type(kinds[i])>>)]
           values == <<OpResult(n + Len(new) - 1, 1)>>
           t == TypesOf(src, dst)
<1>1. /\ lowering_cast(g, o) = <<replaceOp(g, o, new, values)>>
      /\ src.rank <= 0 /\ dst.rank <= 0 /\ (IsTensor(src) \/ IsTensor(dst))
      /\ arith_cast(src.elem, dst.elem) # NoCast
  BY DEF lowering_cast
<1>2. /\ input \in InSight(g, BlockOf(g, o), o) /\ src \in Type
      /\ op.types = <<dst>> /\ dst \in Type /\ op.regions = << >>
      /\ cast_verify(src, dst)
  BY CastTypes
<1>3. kinds = KindsOf(src, dst)
  BY DEF KindsOf
<1> HIDE DEF kinds, src, dst, op, input
<1>4. Linked(kinds, src, dst, t)
  BY <1>1, <1>2, <1>3, CastLinked
<1>5. \A k \in CastKinds : t[k] = type(k)
  BY DEF TypesOf
<1>6. DOMAIN kinds = 1 .. Len(kinds) /\ \A i \in 1 .. Len(kinds) : kinds[i] \in CastKinds
  BY <1>4 DEF Linked
<1> HIDE DEF t, type
<1>7. new = LinkedOps(g, input, kinds, t)
  BY <1>5, <1>6 DEF LinkedOps
<1> HIDE DEF new, n, values
<1>8. Valid(replaceOp(g, o, LinkedOps(g, input, kinds, t), <<OpResult(n + Len(kinds) - 1, 1)>>))
      /\ Len(LinkedOps(g, input, kinds, t)) = Len(kinds)
  BY <1>2, <1>4, LinkedValid DEF op, src, n
<1>9. Valid(replaceOp(g, o, new, values))
  BY <1>7, <1>8 DEF values
<1> QED
  BY <1>1, <1>9

\* Every pattern keeps a valid function valid (lowering.cpp).
LEMMA LoweredValid ==
  ASSUME NEW g, Valid(g), NEW o \in DOMAIN g.ops, g.ops[o].kind \in Colgm, Lowered(g, o) # << >>
  PROVE  Valid(Lowered(g, o)[1])
PROOF
<1>1. CASE g.ops[o].kind = "colgm.constant"
  BY <1>1, RelabelledValid DEF Lowered, Relabels
<1>2. CASE g.ops[o].kind = "colgm.yield"
  BY <1>2, RelabelledValid DEF Lowered, Relabels
<1>3. CASE g.ops[o].kind = "colgm.if"
  BY <1>3, RelabelledValid DEF Lowered, Relabels
<1>4. CASE g.ops[o].kind = "colgm.for"
  BY <1>4, ForValid DEF Lowered
<1>5. CASE g.ops[o].kind = "colgm.cast"
  <2>1. Lowered(g, o) = lowering_cast(g, o)
    BY <1>5 DEF Lowered
  <2> QED
    BY <1>5, <2>1, CastValid
<1> QED
  BY <1>1, <1>2, <1>3, <1>4, <1>5 DEF Colgm

-----------------------------------------------------------------------------
(* The numbers of the new operations. *)

\* One step of Ascending.
AscendingTo(S, list, k) ==
  IF k = 0 THEN << >> ELSE IF k \in S THEN Append(list[k - 1], k) ELSE list[k - 1]

\* There is such a function.
LEMMA AscendingExists ==
  ASSUME NEW S, NEW n \in Nat
  PROVE  \E f : f = [k \in 0 .. n |-> AscendingTo(S, f, k)]
PROOF
<1> DEFINE To(m, f) == f = [k \in 0 .. m |-> AscendingTo(S, f, k)]
           Missing == {m \in 0 .. n : ~\E f : To(m, f)}
<1>1. Missing = {}
  <2> SUFFICES ASSUME Missing # {} PROVE FALSE
    OBVIOUS
  <2>1. PICK m \in Missing : \A k \in Missing : m <= k
    <3>1. Missing \in SUBSET Nat
      OBVIOUS
    <3> HIDE DEF Missing
    <3> QED
      BY <3>1, Least
  <2>2. m \in 0 .. n /\ ~\E f : To(m, f)
    BY <2>1
  <2>3. m # 0
    <3> DEFINE f == [k \in 0 .. 0 |-> << >>]
    <3>1. f = [k \in 0 .. 0 |-> AscendingTo(S, f, k)]
      <4> HIDE DEF f
      <4>1. \A k \in 0 .. 0 : AscendingTo(S, f, k) = << >>
        BY DEF AscendingTo
      <4> QED
        BY <4>1 DEF f
    <3>2. To(0, f)
      BY <3>1
    <3> QED
      BY <2>2, <3>2
  <2>4. PICK f : To(m - 1, f)
    <3>1. m - 1 \in 0 .. n /\ ~(m <= m - 1)
      BY <2>2, <2>3
    <3>2. m - 1 \notin Missing
      <4> HIDE DEF Missing
      <4> QED
        BY <2>1, <3>1
    <3> HIDE DEF To
    <3> QED
      BY <3>1, <3>2
  <2> DEFINE h == [k \in 0 .. m |-> AscendingTo(S, f, k)]
  <2>5. \A k \in 0 .. m - 1 : h[k] = f[k]
    <3> HIDE DEF h
    <3>1. \A k \in 0 .. m - 1 : f[k] = AscendingTo(S, f, k)
      BY <2>4
    <3>2. 0 .. m - 1 \subseteq 0 .. m
      BY <2>2
    <3> QED
      BY <3>1, <3>2 DEF h
  <2>6. \A k \in 0 .. m : AscendingTo(S, f, k) = AscendingTo(S, h, k)
    <3> SUFFICES ASSUME NEW k \in 0 .. m
                 PROVE  AscendingTo(S, f, k) = AscendingTo(S, h, k)
      OBVIOUS
    <3> HIDE DEF h
    <3>1. k = 0 \/ k - 1 \in 0 .. m - 1
      BY <2>2
    <3> QED
      BY <2>5, <3>1 DEF AscendingTo
  <2>7. h = [k \in 0 .. m |-> AscendingTo(S, h, k)]
    BY <2>6
  <2> QED
    BY <2>2, <2>7
<1>2. n \in 0 .. n
  OBVIOUS
<1> QED
  BY <1>1, <1>2

\* It lists each number of the set once.
LEMMA AscendingIs ==
  ASSUME NEW S, NEW n \in Nat
  PROVE  /\ Ascending(S, n) \in Seq(Nat) /\ IsInjective(Ascending(S, n))
         /\ ToSet(Ascending(S, n)) = S \cap 1 .. n
PROOF
<1> DEFINE list == CHOOSE f : f = [k \in 0 .. n |-> AscendingTo(S, f, k)]
           Good(k) == /\ list[k] \in Seq(Nat) /\ IsInjective(list[k])
                      /\ ToSet(list[k]) = S \cap 1 .. k
           Bad == {k \in 0 .. n : ~Good(k)}
<1>1. Ascending(S, n) = list[n]
  BY Zenon DEF Ascending, AscendingTo
<1>2. list = [k \in 0 .. n |-> AscendingTo(S, list, k)]
  BY AscendingExists
<1> HIDE DEF list
<1>3. \A k \in 0 .. n : list[k] = AscendingTo(S, list, k)
  BY <1>2
<1>4. Bad = {}
  <2> SUFFICES ASSUME Bad # {} PROVE FALSE
    OBVIOUS
  <2>1. PICK m \in Bad : \A k \in Bad : m <= k
    <3>1. Bad \in SUBSET Nat
      OBVIOUS
    <3> HIDE DEF Bad
    <3> QED
      BY <3>1, Least
  <2>2. m \in 0 .. n /\ ~Good(m)
    BY <2>1
  <2>3. CASE m = 0
    <3>1. list[0] = << >>
      BY <1>3, <2>3 DEF AscendingTo
    <3>2. << >> \in Seq(Nat) /\ IsInjective(<< >>) /\ ToSet(<< >>) = {} /\ 1 .. 0 = {}
      BY DEF IsInjective, ToSet
    <3> QED
      BY <2>2, <2>3, <3>1, <3>2
  <2>4. CASE m # 0
    <3>1. m - 1 \in 0 .. n /\ ~(m <= m - 1) /\ m \in 1 .. m /\ 1 .. m = (1 .. m - 1) \cup {m}
      BY <2>2, <2>4
    <3>2. Good(m - 1)
      <4>1. m - 1 \notin Bad
        <5> HIDE DEF Bad
        <5> QED
          BY <2>1, <3>1
      <4> QED
        BY <3>1, <4>1
    <3> DEFINE l == list[m - 1]
    <3>3. l \in Seq(Nat) /\ IsInjective(l) /\ ToSet(l) = S \cap 1 .. m - 1
      BY <3>2
    <3>4. list[m] = IF m \in S THEN Append(l, m) ELSE l
      BY <1>3, <2>2, <2>4 DEF AscendingTo
    <3> HIDE DEF l
    <3>5. CASE m \notin S
      BY <2>2, <3>1, <3>3, <3>4, <3>5
    <3>6. CASE m \in S
      <4>1. Append(l, m) = l \o <<m>> /\ <<m>> \in Seq(Nat)
        BY <2>2, <3>3
      <4>2. ToSet(<<m>>) = {m} /\ IsInjective(<<m>>)
        BY DEF ToSet, IsInjective
      <4>3. m \notin ToSet(l)
        BY <2>2, <3>3
      <4>4. l \o <<m>> \in Seq(Nat) /\ ToSet(l \o <<m>>) = ToSet(l) \cup {m}
        <5>1. ToSet(l \o <<m>>) = ToSet(l) \cup ToSet(<<m>>)
          BY <3>3, <4>1, ToSetConcat
        <5>2. l \o <<m>> \in Seq(Nat)
          BY <3>3, <4>1
        <5> QED
          BY <4>2, <5>1, <5>2
      <4>5. IsInjective(l \o <<m>>)
        BY <3>3, <4>1, <4>2, <4>3, InjectiveConcat
      <4> QED
        BY <2>2, <3>1, <3>3, <3>4, <3>6, <4>1, <4>4, <4>5
    <3> QED
      BY <3>5, <3>6
  <2> QED
    BY <2>3, <2>4
<1>5. Good(n)
  BY <1>4
<1> QED
  BY <1>1, <1>5

\* Numbers moved by a base.
LEMMA MovedIds ==
  ASSUME NEW l \in Seq(Nat), IsInjective(l), NEW base \in Nat
  PROVE  LET s == [k \in DOMAIN l |-> base + l[k]] IN
         /\ s \in Seq(Nat) /\ IsInjective(s) /\ ToSet(s) = {base + i : i \in ToSet(l)}
PROOF
<1> DEFINE s == [k \in DOMAIN l |-> base + l[k]]
<1>1. DOMAIN l = 1 .. Len(l) /\ Len(l) \in Nat /\ \A k \in DOMAIN l : l[k] \in Nat
  OBVIOUS
<1>2. s \in Seq(Nat)
  <2>1. s = [k \in 1 .. Len(l) |-> base + l[k]] /\ \A k \in 1 .. Len(l) : base + l[k] \in Nat
    BY <1>1
  <2> QED
    BY <1>1, <2>1
<1>3. DOMAIN s = DOMAIN l /\ \A k \in DOMAIN l : s[k] = base + l[k]
  OBVIOUS
<1> HIDE DEF s
<1>4. IsInjective(s)
  <2> SUFFICES ASSUME NEW i \in DOMAIN l, NEW j \in DOMAIN l, s[i] = s[j] PROVE i = j
    BY <1>3 DEF IsInjective
  <2>1. l[i] = l[j]
    BY <1>1, <1>3
  <2> QED
    BY <2>1 DEF IsInjective
<1>5. ToSet(s) = {base + i : i \in ToSet(l)}
  BY <1>3 DEF ToSet
<1> QED
  BY <1>2, <1>4, <1>5 DEF s

\* The other way round.
LEMMA Reversed ==
  ASSUME NEW s \in Seq(Nat), IsInjective(s)
  PROVE  Reverse(s) \in Seq(Nat) /\ IsInjective(Reverse(s)) /\ ToSet(Reverse(s)) = ToSet(s)
PROOF
<1> DEFINE r == Reverse(s)
<1>1. DOMAIN s = 1 .. Len(s) /\ Len(s) \in Nat /\ \A k \in DOMAIN s : s[k] \in Nat
  OBVIOUS
<1>2. r = [k \in 1 .. Len(s) |-> s[(Len(s) - k) + 1]]
  BY DEF Reverse
<1>3. \A k \in 1 .. Len(s) : (Len(s) - k) + 1 \in 1 .. Len(s) /\ (Len(s) - ((Len(s) - k) + 1)) + 1 = k
  BY <1>1
<1>4. r \in Seq(Nat)
  <2>1. \A k \in 1 .. Len(s) : s[(Len(s) - k) + 1] \in Nat
    BY <1>1, <1>3
  <2> QED
    BY <1>1, <1>2, <2>1
<1>5. DOMAIN r = 1 .. Len(s) /\ \A k \in 1 .. Len(s) : r[k] = s[(Len(s) - k) + 1]
  BY <1>2
<1> HIDE DEF r
<1>6. IsInjective(r)
  <2> SUFFICES ASSUME NEW i \in 1 .. Len(s), NEW j \in 1 .. Len(s), r[i] = r[j] PROVE i = j
    BY <1>5 DEF IsInjective
  <2>1. (Len(s) - i) + 1 = (Len(s) - j) + 1
    BY <1>1, <1>3, <1>5 DEF IsInjective
  <2> QED
    BY <1>1, <2>1
<1>7. ToSet(r) = ToSet(s)
  <2>1. ToSet(r) \subseteq ToSet(s)
    BY <1>1, <1>3, <1>5 DEF ToSet
  <2>2. ASSUME NEW k \in DOMAIN s PROVE s[k] \in ToSet(r)
    <3>1. r[(Len(s) - k) + 1] = s[k] /\ (Len(s) - k) + 1 \in DOMAIN r
      BY <1>1, <1>3, <1>5
    <3> QED
      BY <3>1 DEF ToSet
  <2> QED
    BY <2>1, <2>2 DEF ToSet
<1> QED
  BY <1>4, <1>6, <1>7 DEF r

-----------------------------------------------------------------------------
(* rewriteForOp, and what MLIR's verifier asks. *)

\* Its loop has one block, which is inside the block around the loop.
LEMMA LoopPlace ==
  ASSUME NEW g, Valid(g), NEW f \in Loops(g)
  PROVE  /\ f \in DOMAIN g.ops /\ g.ops[f].kind = "scf.for" /\ g.ops[f].regions = <<LoopBody(g, f)>>
         /\ BlockOf(g, f) \in DOMAIN g.blocks /\ f \in ToSet(g.blocks[BlockOf(g, f)].ops)
         /\ LoopBody(g, f) \in DOMAIN g.blocks /\ LoopBody(g, f) > BlockOf(g, f) /\ LoopBody(g, f) # 1
         /\ \A d \in DOMAIN g.blocks \ {1} : Owner(g, d) = f <=> d = LoopBody(g, f)
PROOF
<1> DEFINE b == LoopBody(g, f)
<1>1. IsTree(g) /\ Regular(g) /\ Dominated(g) /\ Typed(g)
  BY DEF Valid
<1>2. f \in DOMAIN g.ops /\ g.ops[f].kind = "scf.for"
  BY DEF Loops
<1>3. g.ops[f].regions \in Seq(DOMAIN g.blocks) /\ Len(g.ops[f].regions) = 1
  BY <1>1, <1>2 DEF IsTree, Regular, RegionCount
<1>4. g.ops[f].regions = <<b>> /\ b \in DOMAIN g.blocks
  BY <1>3 DEF LoopBody
<1>5. BlockOf(g, f) \in DOMAIN g.blocks /\ f \in ToSet(g.blocks[BlockOf(g, f)].ops)
  BY <1>1, <1>2, InBlock
<1> HIDE DEF b
<1>6. ToSet(g.ops[f].regions) = {b}
  BY <1>4 DEF ToSet
<1>7. b > BlockOf(g, f)
  BY <1>1, <1>5, <1>6 DEF IsTree
<1>8. b # 1
  <2>1. DOMAIN g.blocks \subseteq Nat \ {0}
    BY <1>1 DEF IsTree
  <2> QED
    BY <1>4, <1>5, <1>7, <2>1
<1>9. ASSUME NEW d \in DOMAIN g.blocks \ {1} PROVE Owner(g, d) = f <=> d = b
  <2>1. d \in ToSet(g.ops[Owner(g, d)].regions)
    BY <1>1, OwnerAround
  <2>2. d = b => Owner(g, d) = f
    BY <1>1, <1>2, <1>6, OwnerIs
  <2> QED
    BY <1>6, <2>1, <2>2
<1> QED
  BY <1>2, <1>4, <1>5, <1>7, <1>8, <1>9 DEF b

\* What the loop carries: its operands behind the bounds, its results, the
\* arguments of its body behind the first, and what the body yields.
LEMMA LoopCarries ==
  ASSUME NEW g, Valid(g), NEW f \in Loops(g)
  PROVE  /\ Carried(g, f) \in Seq(Type) /\ Len(Carried(g, f)) \in Nat /\ Len(Carried(g, f)) >= 1
         /\ Carried(g, f)[1] = Index
         /\ g.ops[f].types \in Seq(Type) /\ Len(g.ops[f].types) = Len(Carried(g, f)) - 1
         /\ \A i \in 1 .. Len(Carried(g, f)) - 1 : g.ops[f].types[i] = Carried(g, f)[i + 1]
         /\ g.ops[f].args \in Seq(InSight(g, BlockOf(g, f), f))
         /\ Len(g.ops[f].args) = Len(Carried(g, f)) + 2
         /\ \A j \in 1 .. 3 : ValueType(g, g.ops[f].args[j]) = Index
         /\ \A i \in 1 .. Len(Carried(g, f)) - 1 : ValueType(g, g.ops[f].args[i + 3]) = Carried(g, f)[i + 1]
         /\ Body(g, LoopBody(g, f)).yields = g.ops[f].types
PROOF
<1> DEFINE op == g.ops[f]
           args == ArgTypes(g, f)
           out == op.types
           c == Carried(g, f)
           L == Len(c)
           bodies == Bodies(g, f)
<1>1. IsTree(g) /\ Regular(g) /\ Dominated(g) /\ Typed(g)
  BY DEF Valid
<1>2. f \in DOMAIN g.ops /\ op.kind = "scf.for" /\ op.regions = <<LoopBody(g, f)>>
      /\ BlockOf(g, f) \in DOMAIN g.blocks /\ f \in ToSet(g.blocks[BlockOf(g, f)].ops)
      /\ LoopBody(g, f) \in DOMAIN g.blocks
  BY LoopPlace
<1>3. op.args \in Seq(InSight(g, BlockOf(g, f), f))
  BY <1>1, <1>2, Operands
<1>4. out \in Seq(Type) /\ LoopTypes(3, args, out, bodies)
  BY <1>1, <1>2, AcceptsLoop DEF Typed
<1>5. Len(op.args) \in Nat /\ DOMAIN op.args = 1 .. Len(op.args)
  BY <1>3
<1>6. args = [i \in 1 .. Len(op.args) |-> ValueType(g, op.args[i])]
  BY <1>5 DEF ArgTypes
<1>7. Len(args) = Len(op.args) /\ \A i \in 1 .. Len(op.args) : args[i] = ValueType(g, op.args[i])
  BY <1>5, <1>6, FunctionLen
<1>8. Len(out) \in Nat /\ DOMAIN out = 1 .. Len(out)
  BY <1>4
<1>9. bodies[1] = Body(g, LoopBody(g, f)) /\ bodies[1] = [types |-> <<Index>> \o out, yields |-> out]
  BY <1>2, <1>4 DEF Bodies, LoopTypes
<1>10. c = <<Index>> \o out /\ Body(g, LoopBody(g, f)).yields = out
  BY <1>9 DEF Body, Carried
<1>11. c \in Seq(Type) /\ Len(c) = 1 + Len(out) /\ c[1] = Index /\ \A i \in 1 .. Len(out) : c[1 + i] = out[i]
  <2>1. <<Index>> \in Seq(Type) /\ Len(<<Index>>) = 1 /\ <<Index>>[1] = Index
    BY IndexType
  <2> DEFINE one == <<Index>>
  <2> HIDE DEF one, c, out
  <2>2. /\ one \o out \in Seq(Type) /\ Len(one \o out) = Len(one) + Len(out)
        /\ DOMAIN (one \o out) = 1 .. Len(one) + Len(out)
        /\ \A i \in 1 .. Len(one) : (one \o out)[i] = one[i]
        /\ \A i \in 1 .. Len(out) : (one \o out)[Len(one) + i] = out[i]
    BY <1>4, <2>1, ConcatIs DEF one
  <2>3. c = one \o out /\ Len(one) = 1 /\ one[1] = Index /\ 1 \in 1 .. 1
    BY <1>10, <2>1 DEF one
  <2> QED
    BY <2>2, <2>3
<1> HIDE DEF op, args, c, out, bodies
<1>12. L \in Nat /\ L >= 1 /\ Len(out) = L - 1
  BY <1>8, <1>11
<1>13. Len(op.args) = L + 2 /\ \A j \in 1 .. 3 : args[j] = Index
       /\ \A i \in 1 .. L - 1 : args[3 + i] = out[i]
  <2>1. Len(args) = 3 + Len(out) /\ (\A i \in 1 .. 3 : args[i] = Index)
        /\ \A i \in DOMAIN out : args[3 + i] = out[i]
    BY <1>4 DEF LoopTypes
  <2>2. 3 + Len(out) = L + 2
    BY <1>12
  <2> QED
    BY <1>7, <1>8, <1>12, <2>1, <2>2
<1>14. \A j \in 1 .. 3 : ValueType(g, op.args[j]) = Index
  <2>1. \A j \in 1 .. 3 : j \in 1 .. L + 2
    BY <1>12
  <2> QED
    BY <1>7, <1>13, <2>1
<1>15. \A i \in 1 .. L - 1 : out[i] = c[i + 1]
  <2>1. \A i \in 1 .. L - 1 : 1 + i = i + 1
    OBVIOUS
  <2> QED
    BY <1>11, <1>12, <2>1
<1>16. \A i \in 1 .. L - 1 : ValueType(g, op.args[i + 3]) = c[i + 1]
  <2> SUFFICES ASSUME NEW i \in 1 .. L - 1 PROVE ValueType(g, op.args[i + 3]) = c[i + 1]
    OBVIOUS
  <2>1. i + 3 \in 1 .. Len(op.args)
    BY <1>12, <1>13
  <2>2. args[i + 3] = ValueType(g, op.args[i + 3])
    BY <1>7, <2>1
  <2>3. i + 3 = 3 + i
    OBVIOUS
  <2>4. args[3 + i] = out[i]
    BY <1>13
  <2>5. out[i] = c[i + 1]
    BY <1>15
  <2>6. args[i + 3] = args[3 + i]
    BY <2>3, Zenon
  <2> QED
    BY <2>2, <2>4, <2>5, <2>6, Zenon
<1> QED
  BY <1>3, <1>4, <1>10, <1>11, <1>12, <1>13, <1>14, <1>15, <1>16 DEF op, out, c

\* The terminator of a body.
LEMMA TerminatorIs ==
  ASSUME NEW g, Valid(g), NEW b \in DOMAIN g.blocks
  PROVE  /\ Last(g.blocks[b].ops) \in ToSet(g.blocks[b].ops) /\ Last(g.blocks[b].ops) \in DOMAIN g.ops
         /\ g.ops[Last(g.blocks[b].ops)].kind \in Terminators
         /\ g.blocks[b].ops # << >>
         /\ \A o \in ToSet(g.blocks[b].ops) : g.ops[o].kind \in Terminators <=> o = Last(g.blocks[b].ops)
PROOF
<1> DEFINE ops == g.blocks[b].ops
<1>1. IsTree(g) /\ Regular(g)
  BY DEF Valid
<1>2. ops \in Seq(Nat) /\ ToSet(ops) \subseteq DOMAIN g.ops
  BY <1>1, BlockSeq
<1>3. ops # << >> /\ \A o \in ToSet(ops) : g.ops[o].kind \in Terminators <=> o = Last(ops)
  BY <1>1 DEF Regular
<1> HIDE DEF ops
<1>4. Len(ops) \in DOMAIN ops
  BY <1>2, <1>3
<1>5. Last(ops) \in ToSet(ops)
  BY <1>4 DEF ToSet, Last
<1> QED
  BY <1>2, <1>3, <1>5 DEF ops

\* The terminator of the body has an operand for each iter_arg, of its type.
LEMMA BodyEnd ==
  ASSUME NEW g, Valid(g), NEW f \in Loops(g)
  PROVE  /\ Terminator(g, f) \in ToSet(g.blocks[LoopBody(g, f)].ops)
         /\ Terminator(g, f) \in DOMAIN g.ops /\ Terminator(g, f) # f
         /\ g.ops[Terminator(g, f)].kind \in Terminators
         /\ g.ops[Terminator(g, f)].args \in Seq(InSight(g, LoopBody(g, f), Terminator(g, f)))
         /\ Len(g.ops[Terminator(g, f)].args) = Len(Carried(g, f)) - 1
         /\ \A i \in 1 .. Len(Carried(g, f)) - 1 :
              ValueType(g, g.ops[Terminator(g, f)].args[i]) = Carried(g, f)[i + 1]
PROOF
<1> DEFINE b == LoopBody(g, f)
           y == Terminator(g, f)
           c == Carried(g, f)
           args == g.ops[y].args
<1>1. IsTree(g) /\ Dominated(g)
  BY DEF Valid
<1>2. b \in DOMAIN g.blocks /\ g.ops[f].kind = "scf.for"
  BY LoopPlace
<1>3. y \in ToSet(g.blocks[b].ops) /\ y \in DOMAIN g.ops /\ g.ops[y].kind \in Terminators
  BY <1>2, TerminatorIs DEF Terminator
<1>4. y # f
  BY <1>2, <1>3 DEF Terminators
<1>5. args \in Seq(InSight(g, b, y))
  BY <1>1, <1>2, <1>3, Operands
<1>6. ArgTypes(g, y) = g.ops[f].types
  BY LoopCarries DEF Body, Terminator
<1>7. g.ops[f].types \in Seq(Type) /\ Len(g.ops[f].types) = Len(c) - 1 /\ Len(c) \in Nat
      /\ \A i \in 1 .. Len(c) - 1 : g.ops[f].types[i] = c[i + 1]
  BY LoopCarries
<1> HIDE DEF b, y, c
<1>8. Len(args) \in Nat /\ DOMAIN args = 1 .. Len(args)
  BY <1>5
<1>9. ArgTypes(g, y) = [i \in 1 .. Len(args) |-> ValueType(g, args[i])]
  BY <1>8 DEF ArgTypes
<1> HIDE DEF args
<1>10. Len(args) = Len(c) - 1 /\ \A i \in 1 .. Len(args) : ArgTypes(g, y)[i] = ValueType(g, args[i])
  BY <1>6, <1>7, <1>8, <1>9, FunctionLen
<1> QED
  BY <1>3, <1>4, <1>5, <1>6, <1>7, <1>10 DEF b, y, c, args

\* The tensors of rank 0.
LEMMA Rank0Is ==
  ASSUME NEW g, Valid(g), NEW f \in Loops(g)
  PROVE  Rank0(Carried(g, f)) = {i \in 1 .. Len(Carried(g, f)) - 1 : Carried(g, f)[i + 1].rank = 0}
PROOF
<1> DEFINE c == Carried(g, f)
<1>1. Len(c) \in Nat /\ DOMAIN c = 1 .. Len(c)
  <2>1. c \in Seq(Type)
    BY LoopCarries
  <2> QED
    BY <2>1
<1> HIDE DEF c
<1>2. ASSUME NEW j \in DOMAIN c \ {1}, c[j].rank = 0
      PROVE  j - 1 \in 1 .. Len(c) - 1 /\ c[(j - 1) + 1].rank = 0
  <2>1. (j - 1) + 1 = j
    BY <1>1
  <2> QED
    BY <1>1, <1>2, <2>1
<1>3. ASSUME NEW i \in 1 .. Len(c) - 1, c[i + 1].rank = 0
      PROVE  i \in Rank0(c)
  <2>1. i + 1 \in DOMAIN c \ {1} /\ (i + 1) - 1 = i
    BY <1>1
  <2> QED
    BY <1>3, <2>1 DEF Rank0
<1>4. Rank0(c) \subseteq {i \in 1 .. Len(c) - 1 : c[i + 1].rank = 0}
  BY <1>2 DEF Rank0
<1> QED
  BY <1>3, <1>4 DEF c

\* The new operations have numbers of their own.
LEMMA NewNumbers ==
  ASSUME NEW g, Valid(g), NEW f \in Loops(g),
         NEW i \in Rank0(Carried(g, f)), NEW j \in Rank0(Carried(g, f))
  PROVE  /\ g.next \in Nat /\ i \in 1 .. Len(Carried(g, f)) - 1
         /\ Extract(g, f, i) \in Nat /\ Wrapped(g, f, i) \in Nat
         /\ Yielded(g, f, i) \in Nat /\ ResultOf(g, f, i) \in Nat
         /\ Extract(g, f, i) > g.next /\ Wrapped(g, f, i) > g.next
         /\ Yielded(g, f, i) > g.next /\ ResultOf(g, f, i) > g.next
         /\ Extract(g, f, i) < g.next + 4 * Len(Carried(g, f))
         /\ Wrapped(g, f, i) < g.next + 4 * Len(Carried(g, f))
         /\ Yielded(g, f, i) < g.next + 4 * Len(Carried(g, f))
         /\ ResultOf(g, f, i) < g.next + 4 * Len(Carried(g, f))
         /\ Extract(g, f, i) # Wrapped(g, f, j) /\ Extract(g, f, i) # Yielded(g, f, j)
         /\ Extract(g, f, i) # ResultOf(g, f, j) /\ Wrapped(g, f, i) # Yielded(g, f, j)
         /\ Wrapped(g, f, i) # ResultOf(g, f, j) /\ Yielded(g, f, i) # ResultOf(g, f, j)
         /\ Extract(g, f, i) = Extract(g, f, j) => i = j
         /\ Wrapped(g, f, i) = Wrapped(g, f, j) => i = j
         /\ Yielded(g, f, i) = Yielded(g, f, j) => i = j
         /\ ResultOf(g, f, i) = ResultOf(g, f, j) => i = j
PROOF
<1> DEFINE n == g.next
           L == Len(Carried(g, f))
<1>1. n \in Nat /\ L \in Nat
  BY LoopCarries DEF Valid, IsTree
<1>2. i \in 1 .. L - 1 /\ j \in 1 .. L - 1
  BY Rank0Is
<1> HIDE DEF n, L
<1>3. /\ Extract(g, f, i) = n + i /\ Wrapped(g, f, i) = n + L + i
      /\ Yielded(g, f, i) = n + 2 * L + i /\ ResultOf(g, f, i) = n + 3 * L + i
      /\ Extract(g, f, j) = n + j /\ Wrapped(g, f, j) = n + L + j
      /\ Yielded(g, f, j) = n + 2 * L + j /\ ResultOf(g, f, j) = n + 3 * L + j
  BY DEF Extract, Wrapped, Yielded, ResultOf, n, L
<1>4. /\ n + i \in Nat /\ n + L + i \in Nat /\ n + 2 * L + i \in Nat /\ n + 3 * L + i \in Nat
      /\ n + i > n /\ n + L + i > n /\ n + 2 * L + i > n /\ n + 3 * L + i > n
      /\ n + i < n + 4 * L /\ n + L + i < n + 4 * L /\ n + 2 * L + i < n + 4 * L /\ n + 3 * L + i < n + 4 * L
      /\ n + i # n + L + j /\ n + i # n + 2 * L + j /\ n + i # n + 3 * L + j
      /\ n + L + i # n + 2 * L + j /\ n + L + i # n + 3 * L + j /\ n + 2 * L + i # n + 3 * L + j
      /\ (n + i = n + j => i = j) /\ (n + L + i = n + L + j => i = j)
      /\ (n + 2 * L + i = n + 2 * L + j => i = j) /\ (n + 3 * L + i = n + 3 * L + j => i = j)
  BY <1>1, <1>2
<1> QED
  BY <1>1, <1>2, <1>3, <1>4 DEF n, L

\* The ids of a kind of new operations are those for the tensors of rank 0.
LEMMA IdsAre ==
  ASSUME NEW g, Valid(g), NEW f \in Loops(g)
  PROVE  LET R == Rank0(Carried(g, f)) IN
         /\ Ids(g, f, Extract(g, f, 0)) = {Extract(g, f, i) : i \in R}
         /\ Ids(g, f, Wrapped(g, f, 0)) = {Wrapped(g, f, i) : i \in R}
         /\ Ids(g, f, Yielded(g, f, 0)) = {Yielded(g, f, i) : i \in R}
         /\ Ids(g, f, ResultOf(g, f, 0)) = {ResultOf(g, f, i) : i \in R}
         /\ \A i \in R : /\ Extract(g, f, i) - Extract(g, f, 0) = i
                         /\ Wrapped(g, f, i) - Wrapped(g, f, 0) = i
                         /\ Yielded(g, f, i) - Yielded(g, f, 0) = i
                         /\ ResultOf(g, f, i) - ResultOf(g, f, 0) = i
PROOF
<1> DEFINE n == g.next
           L == Len(Carried(g, f))
           R == Rank0(Carried(g, f))
<1>1. n \in Nat /\ L \in Nat
  BY LoopCarries DEF Valid, IsTree
<1>2. \A i \in R : i \in Nat
  BY Rank0Is
<1>3. \A i : /\ Extract(g, f, i) = n + i /\ Wrapped(g, f, i) = n + L + i
             /\ Yielded(g, f, i) = n + 2 * L + i /\ ResultOf(g, f, i) = n + 3 * L + i
  BY DEF Extract, Wrapped, Yielded, ResultOf
<1> HIDE DEF n, L, R
<1>4. \A i \in R : /\ Extract(g, f, 0) + i = Extract(g, f, i) /\ Wrapped(g, f, 0) + i = Wrapped(g, f, i)
                   /\ Yielded(g, f, 0) + i = Yielded(g, f, i) /\ ResultOf(g, f, 0) + i = ResultOf(g, f, i)
  BY <1>1, <1>2, <1>3
<1>5. \A i \in R : /\ Extract(g, f, i) - Extract(g, f, 0) = i
                   /\ Wrapped(g, f, i) - Wrapped(g, f, 0) = i
                   /\ Yielded(g, f, i) - Yielded(g, f, 0) = i
                   /\ ResultOf(g, f, i) - ResultOf(g, f, 0) = i
  BY <1>1, <1>2, <1>3
<1>6. \A base : Ids(g, f, base) = {base + i : i \in R}
  BY DEF Ids, R
<1> QED
  BY <1>4, <1>5, <1>6 DEF R

\* The operations of the rewritten function.
LEMMA RewrittenIds ==
  ASSUME NEW g, Valid(g), NEW f \in Loops(g)
  PROVE  LET h == rewriteForOp(g, f)
             R == Rank0(Carried(g, f))
         IN  /\ DOMAIN h.ops = (DOMAIN g.ops \ {f}) \cup {g.next}
                               \cup {Extract(g, f, i) : i \in R} \cup {Wrapped(g, f, i) : i \in R}
                               \cup {Yielded(g, f, i) : i \in R} \cup {ResultOf(g, f, i) : i \in R}
             /\ \A o \in DOMAIN g.ops \ {f} : h.ops[o] = KeptOp(g, f, o)
             /\ h.ops[g.next] = NewLoop(g, f)
             /\ \A i \in R :
                  /\ h.ops[Extract(g, f, i)] =
                       Op("tensor.extract", <<g.ops[f].args[i + 3]>>, <<ElementType(Tensor(g, f, i))>>)
                  /\ h.ops[Wrapped(g, f, i)] =
                       Op("tensor.from_elements", <<Argument(LoopBody(g, f), i + 1)>>, <<Tensor(g, f, i)>>)
                  /\ h.ops[Yielded(g, f, i)] =
                       Op("tensor.extract", <<YieldedTensors(g, f)[i]>>, <<ElementType(Tensor(g, f, i))>>)
                  /\ h.ops[ResultOf(g, f, i)] =
                       Op("tensor.from_elements", <<OpResult(g.next, i)>>, <<Tensor(g, f, i)>>)
             /\ \A p \in DOMAIN h.ops \ (DOMAIN g.ops \ {f}) : p >= g.next /\ p \notin DOMAIN g.ops
PROOF
<1> DEFINE h == rewriteForOp(g, f)
           n == g.next
           R == Rank0(Carried(g, f))
           ie == InitExtracts(g, f)
           wr == Wraps(g, f)
           ye == YieldExtracts(g, f)
           rw == ResultWraps(g, f)
           lo == [p \in {g.next} |-> NewLoop(g, f)]
           E == {Extract(g, f, i) : i \in R}
           W == {Wrapped(g, f, i) : i \in R}
           Y == {Yielded(g, f, i) : i \in R}
           S == {ResultOf(g, f, i) : i \in R}
           new == NewOps(g, f)
<1>1. n \in Nat /\ DOMAIN g.ops \subseteq 1 .. n - 1
  BY DEF Valid, IsTree
<1>2. DOMAIN ie = E /\ DOMAIN wr = W /\ DOMAIN ye = Y /\ DOMAIN rw = S
  BY IdsAre DEF InitExtracts, Wraps, YieldExtracts, ResultWraps
<1>3. \A i \in R :
        /\ ie[Extract(g, f, i)] =
             Op("tensor.extract", <<g.ops[f].args[i + 3]>>, <<ElementType(Tensor(g, f, i))>>)
        /\ wr[Wrapped(g, f, i)] =
             Op("tensor.from_elements", <<Argument(LoopBody(g, f), i + 1)>>, <<Tensor(g, f, i)>>)
        /\ ye[Yielded(g, f, i)] =
             Op("tensor.extract", <<YieldedTensors(g, f)[i]>>, <<ElementType(Tensor(g, f, i))>>)
        /\ rw[ResultOf(g, f, i)] =
             Op("tensor.from_elements", <<OpResult(g.next, i)>>, <<Tensor(g, f, i)>>)
  <2> SUFFICES ASSUME NEW i \in R
               PROVE
        /\ ie[Extract(g, f, i)] =
             Op("tensor.extract", <<g.ops[f].args[i + 3]>>, <<ElementType(Tensor(g, f, i))>>)
        /\ wr[Wrapped(g, f, i)] =
             Op("tensor.from_elements", <<Argument(LoopBody(g, f), i + 1)>>, <<Tensor(g, f, i)>>)
        /\ ye[Yielded(g, f, i)] =
             Op("tensor.extract", <<YieldedTensors(g, f)[i]>>, <<ElementType(Tensor(g, f, i))>>)
        /\ rw[ResultOf(g, f, i)] =
             Op("tensor.from_elements", <<OpResult(g.next, i)>>, <<Tensor(g, f, i)>>)
    OBVIOUS
  <2>1. Extract(g, f, i) - Extract(g, f, 0) = i /\ Wrapped(g, f, i) - Wrapped(g, f, 0) = i
        /\ Yielded(g, f, i) - Yielded(g, f, 0) = i /\ ResultOf(g, f, i) - ResultOf(g, f, 0) = i
        /\ Extract(g, f, i) \in Ids(g, f, Extract(g, f, 0))
        /\ Wrapped(g, f, i) \in Ids(g, f, Wrapped(g, f, 0))
        /\ Yielded(g, f, i) \in Ids(g, f, Yielded(g, f, 0))
        /\ ResultOf(g, f, i) \in Ids(g, f, ResultOf(g, f, 0))
    BY IdsAre
  <2>2. ie[Extract(g, f, i)] =
          Op("tensor.extract", <<g.ops[f].args[i + 3]>>, <<ElementType(Tensor(g, f, i))>>)
    BY <2>1 DEF InitExtracts
  <2>3. wr[Wrapped(g, f, i)] =
          Op("tensor.from_elements", <<Argument(LoopBody(g, f), i + 1)>>, <<Tensor(g, f, i)>>)
    BY <2>1 DEF Wraps, Wrap
  <2>4. ye[Yielded(g, f, i)] =
          Op("tensor.extract", <<YieldedTensors(g, f)[i]>>, <<ElementType(Tensor(g, f, i))>>)
    BY <2>1 DEF YieldExtracts
  <2>5. rw[ResultOf(g, f, i)] =
          Op("tensor.from_elements", <<OpResult(g.next, i)>>, <<Tensor(g, f, i)>>)
    BY <2>1 DEF ResultWraps
  <2> QED
    BY <2>2, <2>3, <2>4, <2>5
<1>4. \A i, j \in R :
        /\ Extract(g, f, i) > n /\ Wrapped(g, f, i) > n /\ Yielded(g, f, i) > n /\ ResultOf(g, f, i) > n
        /\ Extract(g, f, i) \in Nat /\ Wrapped(g, f, i) \in Nat
        /\ Yielded(g, f, i) \in Nat /\ ResultOf(g, f, i) \in Nat
        /\ Extract(g, f, i) # Wrapped(g, f, j) /\ Extract(g, f, i) # Yielded(g, f, j)
        /\ Extract(g, f, i) # ResultOf(g, f, j) /\ Wrapped(g, f, i) # Yielded(g, f, j)
        /\ Wrapped(g, f, i) # ResultOf(g, f, j) /\ Yielded(g, f, i) # ResultOf(g, f, j)
  BY NewNumbers
<1>5. new = Joined(Joined(ie, lo), Joined(wr, Joined(ye, rw)))
  BY DEF NewOps
<1>6. DOMAIN lo = {n} /\ lo[n] = NewLoop(g, f)
  OBVIOUS
<1> HIDE DEF ie, wr, ye, rw, lo, new
<1>7. E \cap W = {} /\ E \cap Y = {} /\ E \cap S = {} /\ W \cap Y = {} /\ W \cap S = {} /\ Y \cap S = {}
  BY <1>4
<1>8. \A p \in {n} \cup E \cup W \cup Y \cup S : p \in Nat /\ p >= n
  BY <1>1, <1>4
<1>9. n \notin E \cup W \cup Y \cup S
  BY <1>1, <1>4
<1> HIDE DEF E, W, Y, S
<1>10. /\ DOMAIN new = {n} \cup E \cup W \cup Y \cup S
       /\ new[n] = lo[n]
       /\ \A p \in E : new[p] = ie[p]
       /\ \A p \in W : new[p] = wr[p]
       /\ \A p \in Y : new[p] = ye[p]
       /\ \A p \in S : new[p] = rw[p]
  <2> DEFINE a == Joined(ie, lo)
             b == Joined(ye, rw)
             c == Joined(wr, b)
  <2>1. DOMAIN a = E \cup {n} /\ (\A p \in E : a[p] = ie[p]) /\ a[n] = lo[n]
    BY <1>2, <1>6, <1>9 DEF Joined
  <2>2. DOMAIN b = Y \cup S /\ (\A p \in Y : b[p] = ye[p]) /\ (\A p \in S : b[p] = rw[p])
    BY <1>2, <1>7 DEF Joined
  <2> HIDE DEF b
  <2>3. DOMAIN c = W \cup Y \cup S /\ (\A p \in W : c[p] = wr[p])
        /\ (\A p \in Y : c[p] = ye[p]) /\ (\A p \in S : c[p] = rw[p])
    BY <1>2, <1>7, <2>2 DEF Joined
  <2> HIDE DEF a, c
  <2>4. new = Joined(a, c)
    BY <1>5 DEF a, b, c
  <2> QED
    BY <1>7, <1>9, <2>1, <2>3, <2>4 DEF Joined
<1>11. DOMAIN new \cap DOMAIN g.ops = {}
  BY <1>1, <1>8, <1>10
<1>12. /\ DOMAIN h.ops = (DOMAIN g.ops \ {f}) \cup DOMAIN new
       /\ \A o \in DOMAIN g.ops \ {f} : h.ops[o] = KeptOp(g, f, o)
       /\ \A o \in DOMAIN new : h.ops[o] = new[o]
  BY <1>11, RewrittenOps DEF new
<1> HIDE DEF h
<1>13. DOMAIN h.ops = (DOMAIN g.ops \ {f}) \cup {n} \cup E \cup W \cup Y \cup S
  BY <1>10, <1>12
<1>14. h.ops[n] = NewLoop(g, f)
  BY <1>6, <1>10, <1>12
<1>15. \A p \in DOMAIN h.ops \ (DOMAIN g.ops \ {f}) : p >= n /\ p \notin DOMAIN g.ops
  BY <1>8, <1>10, <1>11, <1>12
<1>16. \A i \in R : /\ h.ops[Extract(g, f, i)] = ie[Extract(g, f, i)]
                    /\ h.ops[Wrapped(g, f, i)] = wr[Wrapped(g, f, i)]
                    /\ h.ops[Yielded(g, f, i)] = ye[Yielded(g, f, i)]
                    /\ h.ops[ResultOf(g, f, i)] = rw[ResultOf(g, f, i)]
  <2>1. \A i \in R : /\ Extract(g, f, i) \in E /\ Wrapped(g, f, i) \in W
                     /\ Yielded(g, f, i) \in Y /\ ResultOf(g, f, i) \in S
    BY DEF E, W, Y, S
  <2> QED
    BY <1>10, <1>12, <2>1
<1>17. \A i \in R :
         /\ h.ops[Extract(g, f, i)] =
              Op("tensor.extract", <<g.ops[f].args[i + 3]>>, <<ElementType(Tensor(g, f, i))>>)
         /\ h.ops[Wrapped(g, f, i)] =
              Op("tensor.from_elements", <<Argument(LoopBody(g, f), i + 1)>>, <<Tensor(g, f, i)>>)
         /\ h.ops[Yielded(g, f, i)] =
              Op("tensor.extract", <<YieldedTensors(g, f)[i]>>, <<ElementType(Tensor(g, f, i))>>)
         /\ h.ops[ResultOf(g, f, i)] =
              Op("tensor.from_elements", <<OpResult(g.next, i)>>, <<Tensor(g, f, i)>>)
  BY <1>3, <1>16
<1> QED
  BY <1>12, <1>13, <1>14, <1>15, <1>17 DEF h, E, W, Y, S

\* A sequence is its front and its last element.
LEMMA FrontIs ==
  ASSUME NEW ops \in Seq(Nat), IsInjective(ops), ops # << >>
  PROVE  /\ Front(ops) \in Seq(Nat) /\ IsInjective(Front(ops))
         /\ Last(ops) \in ToSet(ops) /\ Last(ops) \in Nat /\ <<Last(ops)>> \in Seq(Nat)
         /\ ToSet(<<Last(ops)>>) = {Last(ops)} /\ IsInjective(<<Last(ops)>>)
         /\ Last(<<Last(ops)>>) = Last(ops) /\ <<Last(ops)>> # << >>
         /\ ToSet(Front(ops)) = ToSet(ops) \ {Last(ops)}
         /\ \A p, q : Precedes(ops, p, q) =>
              p \in ToSet(Front(ops)) /\ q \in ToSet(ops) /\ (q = Last(ops) \/ Precedes(Front(ops), p, q))
PROOF
<1> DEFINE fr == Front(ops)
           m == Len(ops)
<1>1. m \in Nat /\ m >= 1 /\ DOMAIN ops = 1 .. m /\ \A k \in 1 .. m : ops[k] \in Nat
  OBVIOUS
<1>2. /\ fr \in Seq(Nat) /\ Len(fr) = m - 1 /\ DOMAIN fr = 1 .. m - 1
      /\ \A k \in 1 .. m - 1 : fr[k] = ops[k] /\ k \in 1 .. m
  BY <1>1 DEF Front
<1>3. Last(ops) = ops[m] /\ m \in 1 .. m
  BY <1>1 DEF Last
<1> HIDE DEF fr, m
<1>4. IsInjective(fr)
  BY <1>1, <1>2 DEF IsInjective
<1>5. Last(ops) \in ToSet(ops) /\ Last(ops) \in Nat
  BY <1>1, <1>3 DEF ToSet
<1>6. \A k \in 1 .. m : k = m \/ k \in 1 .. m - 1
  BY <1>1
<1>7. \A k \in 1 .. m - 1 : k # m
  BY <1>1
<1>8. ToSet(fr) = ToSet(ops) \ {Last(ops)}
  <2>1. ToSet(fr) \subseteq ToSet(ops) \ {Last(ops)}
    <3> SUFFICES ASSUME NEW k \in 1 .. m - 1 PROVE fr[k] \in ToSet(ops) \ {Last(ops)}
      BY <1>2 DEF ToSet
    <3>1. k \in DOMAIN ops /\ m \in DOMAIN ops /\ k # m /\ fr[k] = ops[k]
      BY <1>1, <1>2, <1>3, <1>7
    <3>2. ops[k] # ops[m]
      BY <3>1 DEF IsInjective
    <3> QED
      BY <1>3, <3>1, <3>2 DEF ToSet
  <2>2. ASSUME NEW k \in 1 .. m, ops[k] # Last(ops) PROVE ops[k] \in ToSet(fr)
    <3>1. k \in 1 .. m - 1
      BY <1>3, <1>6, <2>2
    <3> QED
      BY <1>2, <3>1 DEF ToSet
  <2> QED
    BY <1>1, <2>1, <2>2 DEF ToSet
<1>9. ASSUME NEW p, NEW q, Precedes(ops, p, q)
      PROVE  p \in ToSet(fr) /\ q \in ToSet(ops) /\ (q = Last(ops) \/ Precedes(fr, p, q))
  <2>1. PICK j \in 1 .. m, k \in 1 .. m : j < k /\ ops[j] = p /\ ops[k] = q
    BY <1>1, <1>9 DEF Precedes
  <2>2. j \in 1 .. m - 1
    BY <1>1, <2>1
  <2>3. p \in ToSet(fr)
    BY <1>2, <2>1, <2>2 DEF ToSet
  <2>4. q \in ToSet(ops)
    BY <1>1, <2>1 DEF ToSet
  <2>5. q = Last(ops) \/ Precedes(fr, p, q)
    <3>1. CASE k = m
      BY <1>3, <2>1, <3>1
    <3>2. CASE k \in 1 .. m - 1
      BY <1>2, <2>1, <2>2, <3>2 DEF Precedes
    <3> QED
      BY <1>6, <3>1, <3>2
  <2> QED
    BY <2>3, <2>4, <2>5
<1>10. <<Last(ops)>> \in Seq(Nat) /\ ToSet(<<Last(ops)>>) = {Last(ops)} /\ IsInjective(<<Last(ops)>>)
       /\ Last(<<Last(ops)>>) = Last(ops) /\ <<Last(ops)>> # << >>
  <2> DEFINE z == Last(ops)
  <2>1. z \in Nat
    BY <1>5
  <2> HIDE DEF z
  <2>2. <<z>> \in Seq(Nat) /\ ToSet(<<z>>) = {z} /\ IsInjective(<<z>>) /\ Last(<<z>>) = z /\ <<z>> # << >>
    BY <2>1 DEF ToSet, IsInjective, Last
  <2> QED
    BY <2>2 DEF z
<1> QED
  BY <1>2, <1>4, <1>5, <1>8, <1>9, <1>10 DEF fr

\* New operations in front of a block and before its last one.
Bracketed(w, ops, y) == w \o Front(ops) \o y \o <<Last(ops)>>

\* They all stand there once, and in this order.
LEMMA BracketedIs ==
  ASSUME NEW ops \in Seq(Nat), IsInjective(ops), ops # << >>,
         NEW w \in Seq(Nat), IsInjective(w), NEW y \in Seq(Nat), IsInjective(y),
         ToSet(w) \cap ToSet(ops) = {}, ToSet(y) \cap ToSet(ops) = {}, ToSet(w) \cap ToSet(y) = {}
  PROVE  LET all == Bracketed(w, ops, y) IN
         /\ all \in Seq(Nat) /\ IsInjective(all) /\ all # << >> /\ Last(all) = Last(ops)
         /\ ToSet(all) = ToSet(w) \cup ToSet(ops) \cup ToSet(y)
         /\ \A p, q : Precedes(ops, p, q) => Precedes(all, p, q)
         /\ \A p \in ToSet(w) : \A q \in ToSet(ops) \cup ToSet(y) : Precedes(all, p, q)
         /\ \A p : \A q \in ToSet(y) : Precedes(ops, p, Last(ops)) => Precedes(all, p, q)
         /\ \A p \in ToSet(y) : Precedes(all, p, Last(ops))
PROOF
<1> DEFINE fr == Front(ops)
           z == Last(ops)
           last == <<z>>
           a == w \o fr
           b == a \o y
           all == b \o last
<1>1. /\ fr \in Seq(Nat) /\ IsInjective(fr) /\ z \in ToSet(ops)
      /\ last \in Seq(Nat) /\ ToSet(last) = {z} /\ IsInjective(last) /\ Last(last) = z /\ last # << >>
      /\ ToSet(fr) = ToSet(ops) \ {z}
      /\ \A p, q : Precedes(ops, p, q) =>
           p \in ToSet(fr) /\ q \in ToSet(ops) /\ (q = z \/ Precedes(fr, p, q))
  BY FrontIs
<1> HIDE DEF fr, z, last
<1>2. a \in Seq(Nat) /\ ToSet(a) = ToSet(w) \cup ToSet(fr) /\ IsInjective(a)
      /\ (\A p, q : Precedes(fr, p, q) => Precedes(a, p, q))
      /\ (\A p, q : p \in ToSet(w) /\ q \in ToSet(fr) => Precedes(a, p, q))
  <2>1. ToSet(w) \cap ToSet(fr) = {}
    BY <1>1
  <2>2. \A p, q : /\ Precedes(fr, p, q) => Precedes(a, p, q)
                  /\ p \in ToSet(w) /\ q \in ToSet(fr) => Precedes(a, p, q)
    BY <1>1, PrecedesConcat
  <2>3. ToSet(a) = ToSet(w) \cup ToSet(fr)
    BY <1>1, ToSetConcat
  <2>4. IsInjective(a)
    BY <1>1, <2>1, InjectiveConcat
  <2> QED
    BY <1>1, <2>2, <2>3, <2>4
<1> HIDE DEF a
<1>3. b \in Seq(Nat) /\ ToSet(b) = ToSet(a) \cup ToSet(y) /\ IsInjective(b)
      /\ (\A p, q : Precedes(a, p, q) => Precedes(b, p, q))
      /\ (\A p, q : p \in ToSet(a) /\ q \in ToSet(y) => Precedes(b, p, q))
  <2>1. ToSet(a) \cap ToSet(y) = {}
    BY <1>1, <1>2
  <2>2. \A p, q : /\ Precedes(a, p, q) => Precedes(b, p, q)
                  /\ p \in ToSet(a) /\ q \in ToSet(y) => Precedes(b, p, q)
    BY <1>2, PrecedesConcat
  <2>3. ToSet(b) = ToSet(a) \cup ToSet(y)
    BY <1>2, ToSetConcat
  <2>4. IsInjective(b)
    BY <1>2, <2>1, InjectiveConcat
  <2> QED
    BY <1>2, <2>2, <2>3, <2>4
<1> HIDE DEF b
<1>4. all \in Seq(Nat) /\ ToSet(all) = ToSet(b) \cup {z} /\ IsInjective(all) /\ all # << >> /\ Last(all) = z
      /\ (\A p, q : Precedes(b, p, q) => Precedes(all, p, q))
      /\ (\A p : p \in ToSet(b) => Precedes(all, p, z))
  <2>1. ToSet(b) \cap ToSet(last) = {}
    BY <1>1, <1>2, <1>3
  <2>2. \A p, q : /\ Precedes(b, p, q) => Precedes(all, p, q)
                  /\ p \in ToSet(b) /\ q \in ToSet(last) => Precedes(all, p, q)
    BY <1>1, <1>3, PrecedesConcat
  <2>3. ToSet(all) = ToSet(b) \cup ToSet(last)
    BY <1>1, <1>3, ToSetConcat
  <2>4. IsInjective(all)
    BY <1>1, <1>3, <2>1, InjectiveConcat
  <2>5. Last(all) = Last(last) /\ all # << >>
    BY <1>1, <1>3, LastConcat
  <2> QED
    BY <1>1, <1>3, <2>2, <2>3, <2>4, <2>5
<1> HIDE DEF all
<1>5. ToSet(all) = ToSet(w) \cup ToSet(ops) \cup ToSet(y)
  BY <1>1, <1>2, <1>3, <1>4
<1>6. \A p, q : Precedes(ops, p, q) => Precedes(all, p, q)
  BY <1>1, <1>2, <1>3, <1>4
<1>7. \A p \in ToSet(w) : \A q \in ToSet(ops) \cup ToSet(y) : Precedes(all, p, q)
  BY <1>1, <1>2, <1>3, <1>4
<1>8. \A p : \A q \in ToSet(y) : Precedes(ops, p, z) => Precedes(all, p, q)
  BY <1>1, <1>2, <1>3, <1>4
<1>9. \A p \in ToSet(y) : Precedes(all, p, z)
  BY <1>3, <1>4
<1>10. all = Bracketed(w, ops, y)
  BY DEF Bracketed, all, b, a, last, fr, z
<1> QED
  BY <1>4, <1>5, <1>6, <1>7, <1>8, <1>9, <1>10 DEF z

\* An operation with new ones before and behind it.
LEMMA FlankedIs ==
  ASSUME NEW x \in Seq(Nat), IsInjective(x), NEW n \in Nat, NEW y \in Seq(Nat), IsInjective(y),
         n \notin ToSet(x), n \notin ToSet(y), ToSet(x) \cap ToSet(y) = {}
  PROVE  LET all == x \o <<n>> \o y IN
         /\ all \in Seq(Nat) /\ IsInjective(all) /\ all # << >>
         /\ ToSet(all) = ToSet(x) \cup {n} \cup ToSet(y)
         /\ \A p \in ToSet(x) : Precedes(all, p, n)
         /\ \A p \in ToSet(y) : Precedes(all, n, p)
PROOF
<1> DEFINE one == <<n>>
           a == x \o one
           all == a \o y
<1>1. one \in Seq(Nat) /\ ToSet(one) = {n} /\ IsInjective(one)
  BY DEF ToSet, IsInjective
<1> HIDE DEF one
<1>2. a \in Seq(Nat) /\ ToSet(a) = ToSet(x) \cup {n} /\ IsInjective(a)
      /\ \A p \in ToSet(x) : Precedes(a, p, n)
  <2>1. \A p, q : p \in ToSet(x) /\ q \in ToSet(one) => Precedes(a, p, q)
    BY <1>1, PrecedesConcat
  <2>2. ToSet(a) = ToSet(x) \cup ToSet(one)
    BY <1>1, ToSetConcat
  <2>3. IsInjective(a)
    BY <1>1, InjectiveConcat
  <2> QED
    BY <1>1, <2>1, <2>2, <2>3
<1> HIDE DEF a
<1>3. all \in Seq(Nat) /\ ToSet(all) = ToSet(a) \cup ToSet(y) /\ IsInjective(all)
      /\ (\A p, q : Precedes(a, p, q) => Precedes(all, p, q))
      /\ (\A p, q : p \in ToSet(a) /\ q \in ToSet(y) => Precedes(all, p, q))
  <2>1. \A p, q : /\ Precedes(a, p, q) => Precedes(all, p, q)
                  /\ p \in ToSet(a) /\ q \in ToSet(y) => Precedes(all, p, q)
    BY <1>2, PrecedesConcat
  <2>2. ToSet(all) = ToSet(a) \cup ToSet(y)
    BY <1>2, ToSetConcat
  <2>3. IsInjective(all)
    BY <1>2, InjectiveConcat
  <2> QED
    BY <1>2, <2>1, <2>2, <2>3
<1> HIDE DEF all
<1>4. all # << >>
  <2>1. n \in ToSet(all)
    BY <1>2, <1>3
  <2> QED
    BY <2>1 DEF ToSet
<1> QED
  BY <1>2, <1>3, <1>4 DEF all, a, one

\* The new operations of a kind, in the order of the tensors.
Listed(g, f) == Ascending(Rank0(Carried(g, f)), Len(Carried(g, f)))
Extracts(g, f) == [k \in DOMAIN Listed(g, f) |-> Extract(g, f, Listed(g, f)[k])]
WrapSeq(g, f) == [k \in DOMAIN Listed(g, f) |-> Wrapped(g, f, Listed(g, f)[k])]
Yields(g, f) == [k \in DOMAIN Listed(g, f) |-> Yielded(g, f, Listed(g, f)[k])]
ResultSeq(g, f) == [k \in DOMAIN Listed(g, f) |-> ResultOf(g, f, Listed(g, f)[k])]

\* They are sequences of new numbers.
LEMMA NewSequences ==
  ASSUME NEW g, Valid(g), NEW f \in Loops(g)
  PROVE  LET R == Rank0(Carried(g, f)) IN
         /\ Extracts(g, f) \in Seq(Nat) /\ IsInjective(Extracts(g, f))
         /\ ToSet(Extracts(g, f)) = {Extract(g, f, i) : i \in R}
         /\ Reverse(WrapSeq(g, f)) \in Seq(Nat) /\ IsInjective(Reverse(WrapSeq(g, f)))
         /\ ToSet(Reverse(WrapSeq(g, f))) = {Wrapped(g, f, i) : i \in R}
         /\ Yields(g, f) \in Seq(Nat) /\ IsInjective(Yields(g, f))
         /\ ToSet(Yields(g, f)) = {Yielded(g, f, i) : i \in R}
         /\ ResultSeq(g, f) \in Seq(Nat) /\ IsInjective(ResultSeq(g, f))
         /\ ToSet(ResultSeq(g, f)) = {ResultOf(g, f, i) : i \in R}
PROOF
<1> DEFINE n == g.next
           L == Len(Carried(g, f))
           R == Rank0(Carried(g, f))
           l == Listed(g, f)
<1>1. n \in Nat /\ L \in Nat
  BY LoopCarries DEF Valid, IsTree
<1>2. R \subseteq 1 .. L
  <2>1. \A i \in 1 .. L - 1 : i \in 1 .. L
    BY <1>1
  <2>2. R \subseteq 1 .. L - 1
    BY Rank0Is
  <2> HIDE DEF R, L
  <2> QED
    BY <2>1, <2>2
<1>3. l \in Seq(Nat) /\ IsInjective(l) /\ ToSet(l) = R
  <2>1. l \in Seq(Nat) /\ IsInjective(l) /\ ToSet(l) = R \cap 1 .. L
    BY <1>1, AscendingIs DEF Listed
  <2> HIDE DEF R, L, l
  <2> QED
    BY <1>2, <2>1
<1>4. \A i : /\ Extract(g, f, i) = n + i /\ Wrapped(g, f, i) = (n + L) + i
             /\ Yielded(g, f, i) = (n + 2 * L) + i /\ ResultOf(g, f, i) = (n + 3 * L) + i
  BY DEF Extract, Wrapped, Yielded, ResultOf
<1> HIDE DEF n, L, R, l
<1> DEFINE a == n + L
           b == n + 2 * L
           c == n + 3 * L
<1>5. a \in Nat /\ b \in Nat /\ c \in Nat
  BY <1>1
<1>6. \A i : /\ Extract(g, f, i) = n + i /\ Wrapped(g, f, i) = a + i
             /\ Yielded(g, f, i) = b + i /\ ResultOf(g, f, i) = c + i
  BY <1>4
<1> HIDE DEF a, b, c
<1>7. ASSUME NEW base \in Nat, NEW s, s = [k \in DOMAIN l |-> base + l[k]]
      PROVE  s \in Seq(Nat) /\ IsInjective(s) /\ ToSet(s) = {base + i : i \in R}
  <2>1. LET t == [k \in DOMAIN l |-> base + l[k]] IN
        t \in Seq(Nat) /\ IsInjective(t) /\ ToSet(t) = {base + i : i \in ToSet(l)}
    BY <1>3, MovedIds
  <2> QED
    BY <1>3, <1>7, <2>1
<1>8. /\ Extracts(g, f) = [k \in DOMAIN l |-> n + l[k]] /\ WrapSeq(g, f) = [k \in DOMAIN l |-> a + l[k]]
      /\ Yields(g, f) = [k \in DOMAIN l |-> b + l[k]] /\ ResultSeq(g, f) = [k \in DOMAIN l |-> c + l[k]]
  BY <1>6 DEF Extracts, WrapSeq, Yields, ResultSeq, l
<1>9. /\ Extracts(g, f) \in Seq(Nat) /\ IsInjective(Extracts(g, f))
      /\ ToSet(Extracts(g, f)) = {Extract(g, f, i) : i \in R}
  <2>1. {Extract(g, f, i) : i \in R} = {n + i : i \in R}
    BY <1>6
  <2>2. Extracts(g, f) \in Seq(Nat) /\ IsInjective(Extracts(g, f)) /\ ToSet(Extracts(g, f)) = {n + i : i \in R}
    BY <1>1, <1>7, <1>8
  <2> QED
    BY <2>1, <2>2
<1>10. /\ WrapSeq(g, f) \in Seq(Nat) /\ IsInjective(WrapSeq(g, f))
       /\ ToSet(WrapSeq(g, f)) = {Wrapped(g, f, i) : i \in R}
  <2>1. {Wrapped(g, f, i) : i \in R} = {a + i : i \in R}
    BY <1>6
  <2>2. WrapSeq(g, f) \in Seq(Nat) /\ IsInjective(WrapSeq(g, f)) /\ ToSet(WrapSeq(g, f)) = {a + i : i \in R}
    BY <1>5, <1>7, <1>8
  <2> QED
    BY <2>1, <2>2
<1>11. /\ Yields(g, f) \in Seq(Nat) /\ IsInjective(Yields(g, f))
       /\ ToSet(Yields(g, f)) = {Yielded(g, f, i) : i \in R}
  <2>1. {Yielded(g, f, i) : i \in R} = {b + i : i \in R}
    BY <1>6
  <2>2. Yields(g, f) \in Seq(Nat) /\ IsInjective(Yields(g, f)) /\ ToSet(Yields(g, f)) = {b + i : i \in R}
    BY <1>5, <1>7, <1>8
  <2> QED
    BY <2>1, <2>2
<1>12. /\ ResultSeq(g, f) \in Seq(Nat) /\ IsInjective(ResultSeq(g, f))
       /\ ToSet(ResultSeq(g, f)) = {ResultOf(g, f, i) : i \in R}
  <2>1. {ResultOf(g, f, i) : i \in R} = {c + i : i \in R}
    BY <1>6
  <2>2. ResultSeq(g, f) \in Seq(Nat) /\ IsInjective(ResultSeq(g, f)) /\ ToSet(ResultSeq(g, f)) = {c + i : i \in R}
    BY <1>5, <1>7, <1>8
  <2> QED
    BY <2>1, <2>2
<1>13. Reverse(WrapSeq(g, f)) \in Seq(Nat) /\ IsInjective(Reverse(WrapSeq(g, f)))
       /\ ToSet(Reverse(WrapSeq(g, f))) = ToSet(WrapSeq(g, f))
  BY <1>10, Reversed
<1> QED
  BY <1>9, <1>10, <1>11, <1>12, <1>13 DEF R

\* What stands in the body, and what stands around it in the place of the loop.
NewBody(g, f) == Bracketed(Reverse(WrapSeq(g, f)), g.blocks[LoopBody(g, f)].ops, Yields(g, f))
Place(g, f) == Extracts(g, f) \o <<g.next>> \o ResultSeq(g, f)

\* The two blocks that change, and the others.
LEMMA RewrittenBlocks ==
  ASSUME NEW g, Valid(g), NEW f \in Loops(g)
  PROVE  LET h == rewriteForOp(g, f)
             b == LoopBody(g, f)
             c == BlockOf(g, f)
         IN  /\ DOMAIN h.blocks = DOMAIN g.blocks
             /\ h.blocks[b] = [types |-> Retyped(Carried(g, f)), ops |-> NewBody(g, f)]
             /\ h.blocks[c] = [types |-> g.blocks[c].types, ops |-> Around(g.blocks[c].ops, f, Place(g, f))]
             /\ \A d \in DOMAIN g.blocks \ {b, c} : h.blocks[d] = g.blocks[d]
PROOF
<1> DEFINE h == rewriteForOp(g, f)
           b == LoopBody(g, f)
           c == BlockOf(g, f)
<1>1. b \in DOMAIN g.blocks /\ c \in DOMAIN g.blocks /\ f \in ToSet(g.blocks[c].ops) /\ f \in DOMAIN g.ops
  BY LoopPlace
<1>2. b # c
  <2>1. IsTree(g) /\ b > c
    BY LoopPlace DEF Valid
  <2>2. b \in Nat /\ c \in Nat
    BY <1>1, <2>1, BlockSeq
  <2> QED
    BY <2>1, <2>2
<1>3. \A d \in DOMAIN g.blocks : f \in ToSet(g.blocks[d].ops) <=> d = c
  BY <1>1, InBlock DEF Valid
<1>4. DOMAIN h.blocks = DOMAIN g.blocks /\ \A d \in DOMAIN g.blocks : h.blocks[d] = KeptBlock(g, f, d)
  BY DEF rewriteForOp
<1>5. KeptBlock(g, f, b) = [types |-> Retyped(Carried(g, f)), ops |-> NewBody(g, f)]
  BY DEF KeptBlock, NewBody, Bracketed, WrapSeq, Yields, Listed, Carried
<1>6. KeptBlock(g, f, c) =
        [types |-> g.blocks[c].types, ops |-> Around(g.blocks[c].ops, f, Place(g, f))]
  BY <1>1, <1>2 DEF KeptBlock, Place, Extracts, ResultSeq, Listed
<1>7. \A d \in DOMAIN g.blocks \ {b, c} : KeptBlock(g, f, d) = g.blocks[d]
  BY <1>3 DEF KeptBlock
<1> QED
  BY <1>1, <1>4, <1>5, <1>6, <1>7

\* The body: wraps, what was there, extracts, the yield.
LEMMA InnerIs ==
  ASSUME NEW g, Valid(g), NEW f \in Loops(g)
  PROVE  LET R == Rank0(Carried(g, f))
             ops == g.blocks[LoopBody(g, f)].ops
             all == NewBody(g, f)
             y == Terminator(g, f)
         IN  /\ all \in Seq(Nat) /\ IsInjective(all) /\ all # << >> /\ Last(all) = y
             /\ ToSet(all) = {Wrapped(g, f, i) : i \in R} \cup ToSet(ops) \cup {Yielded(g, f, i) : i \in R}
             /\ \A p, q : Precedes(ops, p, q) => Precedes(all, p, q)
             /\ \A i \in R : \A q \in ToSet(ops) : Precedes(all, Wrapped(g, f, i), q)
             /\ \A i, j \in R : Precedes(all, Wrapped(g, f, i), Yielded(g, f, j))
             /\ \A p : \A i \in R : Precedes(ops, p, y) => Precedes(all, p, Yielded(g, f, i))
             /\ \A i \in R : Precedes(all, Yielded(g, f, i), y)
PROOF
<1> DEFINE R == Rank0(Carried(g, f))
           ops == g.blocks[LoopBody(g, f)].ops
           w == Reverse(WrapSeq(g, f))
           e == Yields(g, f)
           y == Terminator(g, f)
<1>1. ops \in Seq(Nat) /\ IsInjective(ops) /\ ops # << >> /\ ToSet(ops) \subseteq 1 .. g.next - 1 /\ g.next \in Nat
  <2>1. LoopBody(g, f) \in DOMAIN g.blocks /\ IsTree(g)
    BY LoopPlace DEF Valid
  <2>2. ops \in Seq(Nat) /\ IsInjective(ops) /\ ToSet(ops) \subseteq DOMAIN g.ops
    BY <2>1, BlockSeq
  <2>3. ops # << >>
    BY <2>1, TerminatorIs
  <2> QED
    BY <2>1, <2>2, <2>3 DEF IsTree
<1>2. /\ w \in Seq(Nat) /\ IsInjective(w) /\ ToSet(w) = {Wrapped(g, f, i) : i \in R}
      /\ e \in Seq(Nat) /\ IsInjective(e) /\ ToSet(e) = {Yielded(g, f, i) : i \in R}
  BY NewSequences
<1>3. \A i, j \in R : Wrapped(g, f, i) > g.next /\ Yielded(g, f, i) > g.next /\ Wrapped(g, f, i) # Yielded(g, f, j)
        /\ Wrapped(g, f, i) \in Nat /\ Yielded(g, f, i) \in Nat
  BY NewNumbers
<1>4. y = Last(ops)
  BY DEF Terminator
<1> HIDE DEF R, ops, w, e, y
<1>5. ToSet(w) \cap ToSet(ops) = {} /\ ToSet(e) \cap ToSet(ops) = {} /\ ToSet(w) \cap ToSet(e) = {}
  <2>1. \A p \in ToSet(ops) : p \in Nat /\ p < g.next
    BY <1>1
  <2>2. \A p \in ToSet(w) \cup ToSet(e) : p \in Nat /\ p > g.next
    BY <1>2, <1>3
  <2>3. ToSet(w) \cap ToSet(e) = {}
    BY <1>2, <1>3
  <2> QED
    BY <1>1, <2>1, <2>2, <2>3
<1> DEFINE all == Bracketed(w, ops, e)
<1>6. /\ all \in Seq(Nat) /\ IsInjective(all) /\ all # << >> /\ Last(all) = Last(ops)
      /\ ToSet(all) = ToSet(w) \cup ToSet(ops) \cup ToSet(e)
      /\ \A p, q : Precedes(ops, p, q) => Precedes(all, p, q)
      /\ \A p \in ToSet(w) : \A q \in ToSet(ops) \cup ToSet(e) : Precedes(all, p, q)
      /\ \A p : \A q \in ToSet(e) : Precedes(ops, p, Last(ops)) => Precedes(all, p, q)
      /\ \A p \in ToSet(e) : Precedes(all, p, Last(ops))
  BY <1>1, <1>2, <1>5, BracketedIs
<1>7. all = NewBody(g, f)
  BY DEF NewBody, w, e, ops
<1> HIDE DEF all
<1>8. /\ \A i \in R : \A q \in ToSet(ops) : Precedes(all, Wrapped(g, f, i), q)
      /\ \A i, j \in R : Precedes(all, Wrapped(g, f, i), Yielded(g, f, j))
      /\ \A p : \A i \in R : Precedes(ops, p, y) => Precedes(all, p, Yielded(g, f, i))
      /\ \A i \in R : Precedes(all, Yielded(g, f, i), y)
  BY <1>2, <1>4, <1>6
<1>9. ToSet(all) = {Wrapped(g, f, i) : i \in R} \cup ToSet(ops) \cup {Yielded(g, f, i) : i \in R}
  BY <1>2, <1>6
<1> QED
  BY <1>4, <1>6, <1>7, <1>8, <1>9 DEF R, ops, y

\* The block around the loop: extracts, the new loop and wraps in the place of the old one.
LEMMA OuterIs ==
  ASSUME NEW g, Valid(g), NEW f \in Loops(g)
  PROVE  LET R == Rank0(Carried(g, f))
             ops == g.blocks[BlockOf(g, f)].ops
             all == Around(ops, f, Place(g, f))
             N == {Extract(g, f, i) : i \in R} \cup {g.next} \cup {ResultOf(g, f, i) : i \in R}
         IN  /\ all \in Seq(Nat) /\ IsInjective(all) /\ all # << >> /\ Last(all) = Last(ops)
             /\ f # Last(ops)
             /\ ToSet(all) = (ToSet(ops) \ {f}) \cup N
             /\ \A p, q : p # f /\ q # f /\ Precedes(ops, p, q) => Precedes(all, p, q)
             /\ \A p : Precedes(ops, p, f) => \A x \in N : Precedes(all, p, x)
             /\ \A q : Precedes(ops, f, q) => \A x \in N : Precedes(all, x, q)
             /\ \A i \in R : Precedes(all, Extract(g, f, i), g.next)
             /\ \A i \in R : Precedes(all, g.next, ResultOf(g, f, i))
PROOF
<1> DEFINE R == Rank0(Carried(g, f))
           ops == g.blocks[BlockOf(g, f)].ops
           x == Extracts(g, f)
           y == ResultSeq(g, f)
           n == g.next
           E == {Extract(g, f, i) : i \in R}
           S == {ResultOf(g, f, i) : i \in R}
<1>1. ops \in Seq(Nat) /\ IsInjective(ops) /\ ToSet(ops) \subseteq 1 .. n - 1 /\ n \in Nat
      /\ f \in ToSet(ops)
  <2>1. BlockOf(g, f) \in DOMAIN g.blocks /\ IsTree(g) /\ f \in ToSet(ops)
    BY LoopPlace DEF Valid
  <2>2. ops \in Seq(Nat) /\ IsInjective(ops) /\ ToSet(ops) \subseteq DOMAIN g.ops
    BY <2>1, BlockSeq
  <2> QED
    BY <2>1, <2>2 DEF IsTree
<1>2. f # Last(ops)
  <2>1. g.ops[f].kind = "scf.for" /\ BlockOf(g, f) \in DOMAIN g.blocks
    BY LoopPlace
  <2>2. g.ops[Last(ops)].kind \in Terminators
    BY <2>1, TerminatorIs
  <2> QED
    BY <2>1, <2>2 DEF Terminators
<1>3. /\ x \in Seq(Nat) /\ IsInjective(x) /\ ToSet(x) = E
      /\ y \in Seq(Nat) /\ IsInjective(y) /\ ToSet(y) = S
  BY NewSequences
<1>4. \A i, j \in R : Extract(g, f, i) > n /\ ResultOf(g, f, i) > n /\ Extract(g, f, i) # ResultOf(g, f, j)
        /\ Extract(g, f, i) \in Nat /\ ResultOf(g, f, i) \in Nat
  BY NewNumbers
<1>5. (\A i \in R : Extract(g, f, i) \in E) /\ (\A i \in R : ResultOf(g, f, i) \in S)
  OBVIOUS
<1>6. E \cap S = {} /\ \A p \in E \cup S : p \in Nat /\ p > n
  BY <1>4
<1> HIDE DEF R, ops, x, y, n, E, S
<1>7. n \notin E /\ n \notin S
  BY <1>1, <1>6
<1> DEFINE seq == x \o <<n>> \o y
           N == E \cup {n} \cup S
<1>8. /\ seq \in Seq(Nat) /\ IsInjective(seq) /\ seq # << >> /\ ToSet(seq) = ToSet(x) \cup {n} \cup ToSet(y)
      /\ \A p \in ToSet(x) : Precedes(seq, p, n)
      /\ \A p \in ToSet(y) : Precedes(seq, n, p)
  BY <1>1, <1>3, <1>6, <1>7, FlankedIs
<1>9. ToSet(seq) = N
  BY <1>3, <1>8
<1>10. Place(g, f) = seq
  BY DEF Place, seq, x, y, n
<1>11. N \cap ToSet(ops) = {}
  <2>1. \A p \in ToSet(ops) : p \in Nat /\ p < n
    BY <1>1
  <2>2. \A p \in N : p \in Nat /\ p >= n
    BY <1>1, <1>6
  <2> QED
    BY <1>1, <2>1, <2>2
<1> HIDE DEF seq, N
<1> DEFINE all == Around(ops, f, seq)
<1>12. /\ all \in Seq(Nat) /\ ToSet(all) = (ToSet(ops) \ {f}) \cup ToSet(seq)
       /\ IsInjective(seq) /\ ToSet(seq) \cap ToSet(ops) = {} => IsInjective(all)
  BY <1>1, <1>8, Splice
<1>13. /\ \A p, q : p # f /\ q # f /\ Precedes(ops, p, q) => Precedes(all, p, q)
       /\ \A p : Precedes(ops, p, f) => \A z \in ToSet(seq) : Precedes(all, p, z)
       /\ \A q : Precedes(ops, f, q) => \A z \in ToSet(seq) : Precedes(all, z, q)
       /\ \A z, w : Precedes(seq, z, w) => Precedes(all, z, w)
       /\ f # Last(ops) => Last(all) = Last(ops) /\ all # << >>
  BY <1>1, <1>8, AroundOrder
<1> HIDE DEF all
<1>14. IsInjective(all) /\ ToSet(all) = (ToSet(ops) \ {f}) \cup N
  BY <1>8, <1>9, <1>11, <1>12
<1>15. (\A i \in R : Precedes(all, Extract(g, f, i), n)) /\ (\A i \in R : Precedes(all, n, ResultOf(g, f, i)))
  BY <1>3, <1>5, <1>8, <1>13
<1> QED
  BY <1>2, <1>9, <1>10, <1>12, <1>13, <1>14, <1>15 DEF all, N, E, S, n, ops, R

\* The tensors of rank 0 are scalars, the other types what they were.
LEMMA RetypedIs ==
  ASSUME NEW c \in Seq(Type), Len(c) >= 1
  PROVE  /\ Retyped(c) \in Seq(Type) /\ Len(Retyped(c)) = Len(c) /\ DOMAIN Retyped(c) = 1 .. Len(c)
         /\ Retyped(c)[1] = c[1] /\ \A k \in 2 .. Len(c) : Retyped(c)[k] = Unwrapped(c[k])
         /\ Tail(Retyped(c)) \in Seq(Type) /\ Len(Tail(Retyped(c))) = Len(c) - 1
         /\ \A i \in 1 .. Len(c) - 1 : Tail(Retyped(c))[i] = Unwrapped(c[i + 1])
         /\ Retyped(c) = <<c[1]>> \o Tail(Retyped(c))
PROOF
<1> DEFINE r == Retyped(c)
           L == Len(c)
<1>1. L \in Nat /\ L >= 1 /\ DOMAIN c = 1 .. L /\ \A k \in 1 .. L : c[k] \in Type
  OBVIOUS
<1>2. r = [k \in 1 .. L |-> IF k = 1 THEN c[k] ELSE Unwrapped(c[k])]
  BY <1>1 DEF Retyped
<1>3. \A t \in Type : Unwrapped(t) \in Type
  BY DEF Unwrapped, ElementType, Ty, Type
<1>4. \A k \in 1 .. L : (IF k = 1 THEN c[k] ELSE Unwrapped(c[k])) \in Type
  BY <1>1, <1>3
<1> HIDE DEF L
<1>5. r \in Seq(Type)
  <2> HIDE DEF r
  <2> QED
    BY <1>1, <1>2, <1>4
<1>6. r[1] = c[1] /\ \A k \in 2 .. L : r[k] = Unwrapped(c[k])
  <2>1. 1 \in 1 .. L /\ \A k \in 2 .. L : k \in 1 .. L /\ k # 1
    BY <1>1
  <2> HIDE DEF r
  <2> QED
    BY <1>2, <2>1
<1>7. Len(r) = L /\ DOMAIN r = 1 .. L
  <2>1. DOMAIN r = 1 .. L
    <3> HIDE DEF r
    <3> QED
      BY <1>2
  <2> HIDE DEF r
  <2> QED
    BY <1>1, <1>5, <2>1
<1> HIDE DEF r
<1>8. Tail(r) \in Seq(Type) /\ Len(Tail(r)) = L - 1 /\ \A i \in 1 .. L - 1 : Tail(r)[i] = r[i + 1]
  <2>1. r # << >>
    BY <1>1, <1>7
  <2> QED
    BY <1>1, <1>5, <1>7, <2>1
<1>9. \A i \in 1 .. L - 1 : Tail(r)[i] = Unwrapped(c[i + 1])
  <2>1. \A i \in 1 .. L - 1 : i + 1 \in 2 .. L
    BY <1>1
  <2> QED
    BY <1>6, <1>8, <2>1
<1>10. r = <<c[1]>> \o Tail(r)
  <2> DEFINE one == <<c[1]>>
             t == Tail(r)
  <2>1. one \in Seq(Type) /\ Len(one) = 1 /\ one[1] = c[1]
    BY <1>1
  <2>2. t \in Seq(Type) /\ Len(t) = L - 1 /\ \A i \in 1 .. L - 1 : t[i] = r[i + 1]
    BY <1>8
  <2> HIDE DEF one, t
  <2>3. Len(r) = Len(one) + Len(t)
    BY <1>1, <1>7, <2>1, <2>2
  <2>4. \A k \in 1 .. Len(one) : r[k] = one[k]
    <3>1. \A k \in 1 .. 1 : k = 1
      OBVIOUS
    <3> QED
      BY <1>6, <2>1, <3>1
  <2>5. \A k \in 1 .. Len(t) : r[Len(one) + k] = t[k]
    <3>1. \A k \in 1 .. L - 1 : 1 + k = k + 1
      OBVIOUS
    <3> QED
      BY <2>1, <2>2, <3>1
  <2>6. r = one \o t
    BY <1>5, <2>1, <2>2, <2>3, <2>4, <2>5, Concatenation
  <2> QED
    BY <2>6 DEF one, t
<1> QED
  BY <1>5, <1>6, <1>7, <1>8, <1>9, <1>10 DEF r, L

\* What rewriteForOp adds in the body and around the loop, but the loop.
InBody(g, f) ==
  {Wrapped(g, f, i) : i \in Rank0(Carried(g, f))} \cup {Yielded(g, f, i) : i \in Rank0(Carried(g, f))}
AtLoop(g, f) ==
  {Extract(g, f, i) : i \in Rank0(Carried(g, f))} \cup {ResultOf(g, f, i) : i \in Rank0(Carried(g, f))}

\* The operations of the rewritten function, old and new.
LEMMA RewrittenParts ==
  ASSUME NEW g, Valid(g), NEW f \in Loops(g)
  PROVE  LET h == rewriteForOp(g, f)
             n == g.next
             A == InBody(g, f) \cup AtLoop(g, f)
         IN  /\ n \in Nat /\ h.next \in Nat /\ DOMAIN h.ops \subseteq 1 .. h.next - 1
             /\ DOMAIN h.ops = (DOMAIN g.ops \ {f}) \cup {n} \cup A
             /\ n \notin DOMAIN g.ops /\ n \notin A /\ A \cap DOMAIN g.ops = {}
             /\ InBody(g, f) \cap AtLoop(g, f) = {}
             /\ \A o \in DOMAIN g.ops \ {f} :
                  /\ h.ops[o] = WithArgs(h.ops[o], h.ops[o].args) /\ h.ops[o].kind = g.ops[o].kind
                  /\ h.ops[o].regions = g.ops[o].regions /\ h.ops[o].types = g.ops[o].types
             /\ h.ops[n] = WithArgs(h.ops[n], h.ops[n].args)
             /\ h.ops[n].kind = "scf.for" /\ h.ops[n].regions = <<LoopBody(g, f)>>
             /\ \A p \in A : /\ h.ops[p] = WithArgs(h.ops[p], h.ops[p].args) /\ h.ops[p].regions = << >>
                             /\ h.ops[p].kind \in {"tensor.extract", "tensor.from_elements"}
PROOF
<1> DEFINE h == rewriteForOp(g, f)
           n == g.next
           R == Rank0(Carried(g, f))
           L == Len(Carried(g, f))
           I == InBody(g, f)
           O == AtLoop(g, f)
<1>1. n \in Nat /\ DOMAIN g.ops \subseteq 1 .. n - 1 /\ L \in Nat /\ L >= 1 /\ h.next = n + 4 * L
      /\ f \in DOMAIN g.ops /\ g.ops[f].kind = "scf.for" /\ g.ops[f].regions = <<LoopBody(g, f)>>
  BY LoopCarries, LoopPlace DEF Valid, IsTree, rewriteForOp
<1>2. DOMAIN h.ops = (DOMAIN g.ops \ {f}) \cup {n} \cup (I \cup O)
  BY RewrittenIds DEF InBody, AtLoop
<1>3. \A o \in DOMAIN g.ops \ {f} : h.ops[o] = KeptOp(g, f, o)
  BY RewrittenIds
<1>4. h.ops[n] = NewLoop(g, f)
  BY RewrittenIds
<1>5. \A i \in R :
        /\ h.ops[Extract(g, f, i)] =
             Op("tensor.extract", <<g.ops[f].args[i + 3]>>, <<ElementType(Tensor(g, f, i))>>)
        /\ h.ops[Wrapped(g, f, i)] =
             Op("tensor.from_elements", <<Argument(LoopBody(g, f), i + 1)>>, <<Tensor(g, f, i)>>)
        /\ h.ops[Yielded(g, f, i)] =
             Op("tensor.extract", <<YieldedTensors(g, f)[i]>>, <<ElementType(Tensor(g, f, i))>>)
        /\ h.ops[ResultOf(g, f, i)] =
             Op("tensor.from_elements", <<OpResult(g.next, i)>>, <<Tensor(g, f, i)>>)
  BY RewrittenIds
<1>6. \A i, j \in R :
        /\ Extract(g, f, i) \in Nat /\ Wrapped(g, f, i) \in Nat
        /\ Yielded(g, f, i) \in Nat /\ ResultOf(g, f, i) \in Nat
        /\ Extract(g, f, i) > n /\ Wrapped(g, f, i) > n /\ Yielded(g, f, i) > n /\ ResultOf(g, f, i) > n
        /\ Extract(g, f, i) < n + 4 * L /\ Wrapped(g, f, i) < n + 4 * L
        /\ Yielded(g, f, i) < n + 4 * L /\ ResultOf(g, f, i) < n + 4 * L
        /\ Extract(g, f, i) # Wrapped(g, f, j) /\ Extract(g, f, i) # Yielded(g, f, j)
        /\ Wrapped(g, f, i) # ResultOf(g, f, j) /\ Yielded(g, f, i) # ResultOf(g, f, j)
  BY NewNumbers
<1> HIDE DEF h, n, R, L
<1>7. I \cap O = {}
  BY <1>6 DEF InBody, AtLoop, R
<1>8. \A p \in I \cup O : p \in Nat /\ p > n /\ p < n + 4 * L
  BY <1>6 DEF InBody, AtLoop, R
<1>9. \A k, x, t : LET op == Op(k, x, t) IN op = WithArgs(op, op.args) /\ op.kind = k /\ op.regions = << >>
  BY DEF Op, WithArgs
<1>10. \A p \in I \cup O : /\ h.ops[p] = WithArgs(h.ops[p], h.ops[p].args) /\ h.ops[p].regions = << >>
                           /\ h.ops[p].kind \in {"tensor.extract", "tensor.from_elements"}
  <2> SUFFICES ASSUME NEW p \in I \cup O PROVE \E k \in {"tensor.extract", "tensor.from_elements"} : \E x, t : h.ops[p] = Op(k, x, t)
    BY <1>9
  <2>1. PICK i \in R : p \in {Extract(g, f, i), Wrapped(g, f, i), Yielded(g, f, i), ResultOf(g, f, i)}
    BY DEF InBody, AtLoop, R
  <2>2. CASE p = Extract(g, f, i)
    BY <1>5, <2>2
  <2>3. CASE p = Wrapped(g, f, i)
    BY <1>5, <2>3
  <2>4. CASE p = Yielded(g, f, i)
    BY <1>5, <2>4
  <2>5. CASE p = ResultOf(g, f, i)
    BY <1>5, <2>5
  <2> QED
    BY <2>1, <2>2, <2>3, <2>4, <2>5
<1>11. h.ops[n] = WithArgs(h.ops[n], h.ops[n].args) /\ h.ops[n].kind = "scf.for" /\ h.ops[n].regions = <<LoopBody(g, f)>>
  BY <1>1, <1>4 DEF NewLoop, WithArgs
<1>12. ASSUME NEW o \in DOMAIN g.ops \ {f}
       PROVE  /\ h.ops[o] = WithArgs(h.ops[o], h.ops[o].args) /\ h.ops[o].kind = g.ops[o].kind
              /\ h.ops[o].regions = g.ops[o].regions /\ h.ops[o].types = g.ops[o].types
  <2>1. \E args : h.ops[o] = WithArgs(g.ops[o], args)
    BY <1>3 DEF KeptOp
  <2> QED
    BY <2>1, OtherOperands, WithArgsParts
<1> HIDE DEF I, O
<1>13. n \notin DOMAIN g.ops /\ n \notin I \cup O /\ (I \cup O) \cap DOMAIN g.ops = {}
  BY <1>1, <1>8
<1>14. DOMAIN h.ops \subseteq 1 .. h.next - 1 /\ h.next \in Nat
  <2>1. \A p \in I \cup O : p \in 1 .. (n + 4 * L) - 1
    BY <1>1, <1>8
  <2>2. n >= 1
    BY <1>1
  <2>3. n \in 1 .. (n + 4 * L) - 1 /\ n + 4 * L \in Nat
    BY <1>1, <2>2
  <2>4. \A p \in 1 .. n - 1 : p \in 1 .. (n + 4 * L) - 1
    BY <1>1
  <2> QED
    BY <1>1, <1>2, <2>1, <2>3, <2>4
<1> QED
  BY <1>1, <1>2, <1>7, <1>10, <1>11, <1>12, <1>13, <1>14 DEF h, n, I, O

\* The operations of the blocks.
LEMMA RewrittenMembers ==
  ASSUME NEW g, Valid(g), NEW f \in Loops(g)
  PROVE  LET h == rewriteForOp(g, f)
             b == LoopBody(g, f)
             c == BlockOf(g, f)
         IN  /\ DOMAIN h.blocks = DOMAIN g.blocks /\ h.blocks \in Seq(Blocks)
             /\ \A d \in DOMAIN g.blocks : IsInjective(h.blocks[d].ops) /\ h.blocks[d].ops # << >>
             /\ \A d \in DOMAIN g.blocks : Last(h.blocks[d].ops) = Last(g.blocks[d].ops)
             /\ ToSet(h.blocks[b].ops) = ToSet(g.blocks[b].ops) \cup InBody(g, f)
             /\ ToSet(h.blocks[c].ops) = (ToSet(g.blocks[c].ops) \ {f}) \cup {g.next} \cup AtLoop(g, f)
             /\ \A d \in DOMAIN g.blocks \ {b, c} : h.blocks[d] = g.blocks[d]
             /\ b # c /\ \A d \in DOMAIN g.blocks : f \in ToSet(g.blocks[d].ops) <=> d = c
PROOF
<1> DEFINE h == rewriteForOp(g, f)
           b == LoopBody(g, f)
           c == BlockOf(g, f)
           C == Carried(g, f)
<1>1. IsTree(g) /\ g.blocks \in Seq(Blocks)
  BY DEF Valid, IsTree
<1>2. b \in DOMAIN g.blocks /\ c \in DOMAIN g.blocks /\ f \in ToSet(g.blocks[c].ops) /\ f \in DOMAIN g.ops /\ b > c
  BY LoopPlace
<1>3. b # c
  <2>1. b \in Nat /\ c \in Nat
    BY <1>1, <1>2, BlockSeq
  <2> QED
    BY <1>2, <2>1
<1>4. \A d \in DOMAIN g.blocks : f \in ToSet(g.blocks[d].ops) <=> d = c
  BY <1>1, <1>2, InBlock
<1>5. /\ DOMAIN h.blocks = DOMAIN g.blocks
      /\ h.blocks[b] = [types |-> Retyped(C), ops |-> NewBody(g, f)]
      /\ h.blocks[c] = [types |-> g.blocks[c].types, ops |-> Around(g.blocks[c].ops, f, Place(g, f))]
      /\ \A d \in DOMAIN g.blocks \ {b, c} : h.blocks[d] = g.blocks[d]
  BY RewrittenBlocks
<1>6. /\ NewBody(g, f) \in Seq(Nat) /\ IsInjective(NewBody(g, f)) /\ NewBody(g, f) # << >>
      /\ Last(NewBody(g, f)) = Last(g.blocks[b].ops)
      /\ ToSet(NewBody(g, f)) = ToSet(g.blocks[b].ops) \cup InBody(g, f)
  BY InnerIs DEF InBody, Terminator
<1> DEFINE list == Around(g.blocks[c].ops, f, Place(g, f))
<1>7. /\ list \in Seq(Nat) /\ IsInjective(list) /\ list # << >> /\ Last(list) = Last(g.blocks[c].ops)
      /\ ToSet(list) = (ToSet(g.blocks[c].ops) \ {f}) \cup {g.next} \cup AtLoop(g, f)
  <2>1. /\ list \in Seq(Nat) /\ IsInjective(list) /\ list # << >> /\ Last(list) = Last(g.blocks[c].ops)
        /\ f # Last(g.blocks[c].ops)
        /\ ToSet(list) = (ToSet(g.blocks[c].ops) \ {f})
                          \cup ({Extract(g, f, i) : i \in Rank0(C)} \cup {g.next}
                                \cup {ResultOf(g, f, i) : i \in Rank0(C)})
    BY OuterIs
  <2>2. AtLoop(g, f) = {Extract(g, f, i) : i \in Rank0(C)} \cup {ResultOf(g, f, i) : i \in Rank0(C)}
    BY DEF AtLoop
  <2> HIDE DEF list, c, C
  <2> QED
    BY <2>1, <2>2
<1>8. Retyped(C) \in Seq(Type)
  BY LoopCarries, RetypedIs
<1> HIDE DEF list, b, c, C
<1>9. \A d \in DOMAIN g.blocks :
        /\ g.blocks[d].ops \in Seq(Nat) /\ IsInjective(g.blocks[d].ops) /\ g.blocks[d].types \in Seq(Type)
        /\ g.blocks[d].ops # << >> /\ g.blocks[d] \in Blocks
  BY <1>1, BlockSeq, TerminatorIs
<1>10. h.blocks[b] \in Blocks /\ h.blocks[b].ops = NewBody(g, f)
  BY <1>5, <1>6, <1>8 DEF Blocks
<1>11. h.blocks[c] \in Blocks /\ h.blocks[c].ops = list
  BY <1>2, <1>5, <1>7, <1>9 DEF Blocks, list
<1> HIDE DEF h
<1>12. \A d \in DOMAIN g.blocks : h.blocks[d] \in Blocks
  BY <1>5, <1>9, <1>10, <1>11
<1>13. h.blocks \in Seq(Blocks)
  <2>1. h.blocks = [d \in DOMAIN g.blocks |-> h.blocks[d]] /\ DOMAIN g.blocks = 1 .. Len(g.blocks) /\ Len(g.blocks) \in Nat
    <3>1. h.blocks = [d \in DOMAIN g.blocks |-> KeptBlock(g, f, d)]
      BY DEF h, rewriteForOp
    <3> QED
      BY <1>1, <3>1
  <2> QED
    BY <1>12, <2>1
<1>14. \A d \in DOMAIN g.blocks : IsInjective(h.blocks[d].ops) /\ h.blocks[d].ops # << >>
                                  /\ Last(h.blocks[d].ops) = Last(g.blocks[d].ops)
  BY <1>5, <1>6, <1>7, <1>9, <1>10, <1>11
<1> QED
  BY <1>3, <1>4, <1>5, <1>6, <1>7, <1>10, <1>11, <1>13, <1>14 DEF h, b, c

\* Where an operation stands.
LEMMA RewrittenHomes ==
  ASSUME NEW g, Valid(g), NEW f \in Loops(g), NEW d \in DOMAIN g.blocks
  PROVE  LET h == rewriteForOp(g, f) IN
         /\ ToSet(h.blocks[d].ops) \subseteq DOMAIN h.ops
         /\ \A p \in DOMAIN g.ops \ {f} : p \in ToSet(h.blocks[d].ops) <=> p \in ToSet(g.blocks[d].ops)
         /\ g.next \in ToSet(h.blocks[d].ops) <=> d = BlockOf(g, f)
         /\ \A p \in InBody(g, f) : p \in ToSet(h.blocks[d].ops) <=> d = LoopBody(g, f)
         /\ \A p \in AtLoop(g, f) : p \in ToSet(h.blocks[d].ops) <=> d = BlockOf(g, f)
PROOF
<1> DEFINE h == rewriteForOp(g, f)
           b == LoopBody(g, f)
           c == BlockOf(g, f)
           n == g.next
           I == InBody(g, f)
           O == AtLoop(g, f)
<1>1. ToSet(g.blocks[d].ops) \subseteq DOMAIN g.ops
  BY BlockSeq DEF Valid
<1>2. /\ DOMAIN h.ops = (DOMAIN g.ops \ {f}) \cup {n} \cup (I \cup O)
      /\ n \notin DOMAIN g.ops /\ n \notin I \cup O /\ (I \cup O) \cap DOMAIN g.ops = {}
      /\ I \cap O = {}
  BY RewrittenParts
<1>3. /\ ToSet(h.blocks[b].ops) = ToSet(g.blocks[b].ops) \cup I
      /\ ToSet(h.blocks[c].ops) = (ToSet(g.blocks[c].ops) \ {f}) \cup {n} \cup O
      /\ \A e \in DOMAIN g.blocks \ {b, c} : h.blocks[e] = g.blocks[e]
      /\ b # c /\ \A e \in DOMAIN g.blocks : f \in ToSet(g.blocks[e].ops) <=> e = c
  BY RewrittenMembers
<1> HIDE DEF h, b, c, n, I, O
<1>4. CASE d = b
  BY <1>1, <1>2, <1>3, <1>4 DEF h, b, c, n, I, O
<1>5. CASE d = c
  BY <1>1, <1>2, <1>3, <1>5 DEF h, b, c, n, I, O
<1>6. CASE d \notin {b, c}
  BY <1>1, <1>2, <1>3, <1>6 DEF h, b, c, n, I, O
<1> QED
  BY <1>4, <1>5, <1>6

\* The rewritten function is a tree.
LEMMA RewrittenTree ==
  ASSUME NEW g, Valid(g), NEW f \in Loops(g)
  PROVE  IsTree(rewriteForOp(g, f))
PROOF
<1> DEFINE h == rewriteForOp(g, f)
           b == LoopBody(g, f)
           c == BlockOf(g, f)
           n == g.next
           I == InBody(g, f)
           O == AtLoop(g, f)
           K == DOMAIN g.ops \ {f}
<1>1. IsTree(g) /\ g.blocks \in Seq(Blocks) /\ g.blocks # << >>
  BY DEF Valid, IsTree
<1>2. /\ n \in Nat /\ h.next \in Nat /\ DOMAIN h.ops \subseteq 1 .. h.next - 1
      /\ DOMAIN h.ops = K \cup {n} \cup (I \cup O)
      /\ n \notin DOMAIN g.ops /\ n \notin (I \cup O) /\ (I \cup O) \cap DOMAIN g.ops = {}
      /\ I \cap O = {}
      /\ \A o \in K :
           /\ h.ops[o] = WithArgs(h.ops[o], h.ops[o].args) /\ h.ops[o].kind = g.ops[o].kind
           /\ h.ops[o].regions = g.ops[o].regions /\ h.ops[o].types = g.ops[o].types
      /\ h.ops[n] = WithArgs(h.ops[n], h.ops[n].args)
      /\ h.ops[n].kind = "scf.for" /\ h.ops[n].regions = <<b>>
      /\ \A p \in I \cup O : /\ h.ops[p] = WithArgs(h.ops[p], h.ops[p].args) /\ h.ops[p].regions = << >>
                             /\ h.ops[p].kind \in {"tensor.extract", "tensor.from_elements"}
  BY RewrittenParts
<1>3. /\ DOMAIN h.blocks = DOMAIN g.blocks /\ h.blocks \in Seq(Blocks)
      /\ \A d \in DOMAIN g.blocks : IsInjective(h.blocks[d].ops) /\ h.blocks[d].ops # << >>
  BY RewrittenMembers
<1>4. \A d \in DOMAIN g.blocks :
         /\ ToSet(h.blocks[d].ops) \subseteq DOMAIN h.ops
         /\ \A p \in K : p \in ToSet(h.blocks[d].ops) <=> p \in ToSet(g.blocks[d].ops)
         /\ n \in ToSet(h.blocks[d].ops) <=> d = c
         /\ \A p \in I : p \in ToSet(h.blocks[d].ops) <=> d = b
         /\ \A p \in O : p \in ToSet(h.blocks[d].ops) <=> d = c
  BY RewrittenHomes
<1>5. /\ f \in DOMAIN g.ops /\ g.ops[f].regions = <<b>> /\ c \in DOMAIN g.blocks /\ b \in DOMAIN g.blocks /\ b > c
  BY LoopPlace
<1>6. h.blocks # << >>
  BY <1>1, <1>3
<1>7. ToSet(<<b>>) = {b} /\ <<b>> \in Seq(DOMAIN g.blocks)
  <2>1. ToSet(<<b>>) = {b}
    BY DEF ToSet
  <2> DEFINE D == DOMAIN g.blocks
  <2>2. b \in D
    BY <1>5
  <2> HIDE DEF D, b
  <2>3. <<b>> \in Seq(D)
    BY <2>2
  <2> QED
    BY <2>1, <2>3 DEF D
<1> HIDE DEF h, b, c, n, I, O
<1>8. ASSUME NEW p \in DOMAIN h.ops
      PROVE  /\ h.ops[p] = WithArgs(h.ops[p], h.ops[p].args)
             /\ h.ops[p].regions \in Seq(DOMAIN h.blocks)
             /\ h.ops[p].kind = "colgm.cast" => h.ops[p].regions = << >>
             /\ \E d \in DOMAIN h.blocks : p \in ToSet(h.blocks[d].ops)
  <2>1. CASE p \in K
    <3>1. /\ g.ops[p].regions \in Seq(DOMAIN g.blocks)
          /\ g.ops[p].kind = "colgm.cast" => g.ops[p].regions = << >>
          /\ \E d \in DOMAIN g.blocks : p \in ToSet(g.blocks[d].ops)
      BY <1>1, <2>1 DEF IsTree
    <3>2. \E d \in DOMAIN h.blocks : p \in ToSet(h.blocks[d].ops)
      BY <1>3, <1>4, <2>1, <3>1
    <3> QED
      BY <1>2, <1>3, <2>1, <3>1, <3>2
  <2>2. CASE p = n
    <3>1. h.ops[p].regions \in Seq(DOMAIN h.blocks)
      BY <1>2, <1>3, <1>7, <2>2
    <3>2. \E d \in DOMAIN h.blocks : p \in ToSet(h.blocks[d].ops)
      BY <1>3, <1>4, <1>5, <2>2
    <3> QED
      BY <1>2, <2>2, <3>1, <3>2
  <2>3. CASE p \in I \cup O
    <3>1. \E d \in DOMAIN h.blocks : p \in ToSet(h.blocks[d].ops)
      BY <1>3, <1>4, <1>5, <2>3
    <3>2. << >> \in Seq(DOMAIN h.blocks)
      OBVIOUS
    <3> QED
      BY <1>2, <2>3, <3>1, <3>2
  <2> QED
    BY <1>2, <2>1, <2>2, <2>3
<1>9. ASSUME NEW d \in DOMAIN h.blocks
      PROVE  /\ ToSet(h.blocks[d].ops) \subseteq DOMAIN h.ops /\ IsInjective(h.blocks[d].ops)
             /\ \A e \in DOMAIN h.blocks \ {d} : ToSet(h.blocks[d].ops) \cap ToSet(h.blocks[e].ops) = {}
             /\ \A o \in ToSet(h.blocks[d].ops) : \A r \in ToSet(h.ops[o].regions) : r > d
             /\ d # 1 => \E o \in DOMAIN h.ops : d \in ToSet(h.ops[o].regions)
  <2>1. ToSet(h.blocks[d].ops) \subseteq DOMAIN h.ops /\ IsInjective(h.blocks[d].ops)
    BY <1>3, <1>4
  <2>2. ASSUME NEW e \in DOMAIN h.blocks \ {d}, NEW p \in ToSet(h.blocks[d].ops), p \in ToSet(h.blocks[e].ops)
        PROVE  FALSE
    <3>1. ToSet(g.blocks[d].ops) \cap ToSet(g.blocks[e].ops) = {}
      BY <1>1, <1>3 DEF IsTree
    <3>2. CASE p \in K
      BY <1>3, <1>4, <2>2, <3>1, <3>2
    <3>3. CASE p \in {n} \cup (I \cup O)
      BY <1>3, <1>4, <1>5, <2>2, <3>3
    <3> QED
      BY <1>2, <2>1, <3>2, <3>3
  <2>3. ASSUME NEW o \in ToSet(h.blocks[d].ops), NEW r \in ToSet(h.ops[o].regions)
        PROVE  r > d
    <3>1. CASE o \in K
      <4>1. o \in ToSet(g.blocks[d].ops) /\ r \in ToSet(g.ops[o].regions)
        BY <1>2, <1>3, <1>4, <2>3, <3>1
      <4> QED
        BY <1>1, <1>3, <4>1 DEF IsTree
    <3>2. CASE o = n
      <4>1. d = c
        BY <1>3, <1>4, <2>3, <3>2
      <4>2. r = b
        BY <1>2, <1>7, <2>3, <3>2
      <4> QED
        BY <1>5, <4>1, <4>2
    <3>3. CASE o \in I \cup O
      BY <1>2, <2>3, <3>3 DEF ToSet
    <3> QED
      BY <1>2, <2>1, <3>1, <3>2, <3>3
  <2>4. ASSUME d # 1 PROVE \E o \in DOMAIN h.ops : d \in ToSet(h.ops[o].regions)
    <3>1. PICK o \in DOMAIN g.ops : d \in ToSet(g.ops[o].regions)
      BY <1>1, <1>3, <2>4 DEF IsTree
    <3>2. CASE o = f
      <4>1. d = b
        BY <1>5, <1>7, <3>1, <3>2
      <4> QED
        BY <1>2, <1>7, <4>1
    <3>3. CASE o # f
      BY <1>2, <3>1, <3>3
    <3> QED
      BY <3>2, <3>3
  <2> QED
    BY <2>1, <2>2, <2>3, <2>4
<1> QED
  BY <1>2, <1>3, <1>6, <1>8, <1>9 DEF IsTree, h

\* Its terminators stand last, and its regions have one owner.
LEMMA RewrittenRegular ==
  ASSUME NEW g, Valid(g), NEW f \in Loops(g)
  PROVE  Regular(rewriteForOp(g, f))
PROOF
<1> DEFINE h == rewriteForOp(g, f)
           b == LoopBody(g, f)
           c == BlockOf(g, f)
           n == g.next
           I == InBody(g, f)
           O == AtLoop(g, f)
           K == DOMAIN g.ops \ {f}
<1>1. IsTree(g) /\ Regular(g)
  BY DEF Valid
<1>2. /\ DOMAIN h.ops = K \cup {n} \cup (I \cup O)
      /\ n \notin DOMAIN g.ops /\ n \notin (I \cup O) /\ (I \cup O) \cap DOMAIN g.ops = {}
      /\ \A o \in K :
           /\ h.ops[o] = WithArgs(h.ops[o], h.ops[o].args) /\ h.ops[o].kind = g.ops[o].kind
           /\ h.ops[o].regions = g.ops[o].regions /\ h.ops[o].types = g.ops[o].types
      /\ h.ops[n].kind = "scf.for" /\ h.ops[n].regions = <<b>>
      /\ \A p \in I \cup O : /\ h.ops[p] = WithArgs(h.ops[p], h.ops[p].args) /\ h.ops[p].regions = << >>
                             /\ h.ops[p].kind \in {"tensor.extract", "tensor.from_elements"}
  BY RewrittenParts
<1>3. /\ DOMAIN h.blocks = DOMAIN g.blocks
      /\ \A d \in DOMAIN g.blocks : IsInjective(h.blocks[d].ops) /\ h.blocks[d].ops # << >>
      /\ \A d \in DOMAIN g.blocks : Last(h.blocks[d].ops) = Last(g.blocks[d].ops)
  BY RewrittenMembers
<1>4. \A d \in DOMAIN g.blocks :
         /\ ToSet(h.blocks[d].ops) \subseteq DOMAIN h.ops
         /\ \A p \in K : p \in ToSet(h.blocks[d].ops) <=> p \in ToSet(g.blocks[d].ops)
  BY RewrittenHomes
<1>5. f \in DOMAIN g.ops /\ g.ops[f].regions = <<b>> /\ g.ops[f].kind = "scf.for"
  BY LoopPlace
<1>6. \A d \in DOMAIN g.blocks :
        /\ Last(g.blocks[d].ops) \in DOMAIN g.ops
        /\ g.ops[Last(g.blocks[d].ops)].kind \in Terminators
        /\ \A o \in ToSet(g.blocks[d].ops) : g.ops[o].kind \in Terminators <=> o = Last(g.blocks[d].ops)
  BY TerminatorIs
<1> HIDE DEF h, b, c, n, I, O
<1>7. /\ ToSet(<< >>) = {} /\ IsInjective(<< >>) /\ Len(<< >>) = 0
      /\ RegionCount("tensor.extract") = 0 /\ RegionCount("tensor.from_elements") = 0
      /\ "tensor.extract" \notin Terminators /\ "tensor.from_elements" \notin Terminators
      /\ "scf.for" \notin Terminators
  BY DEF ToSet, IsInjective, RegionCount, Terminators
<1>8. \A o \in K \cup {f} :
        /\ Len(g.ops[o].regions) = RegionCount(g.ops[o].kind)
        /\ IsInjective(g.ops[o].regions)
        /\ \A p \in (K \cup {f}) \ {o} : ToSet(g.ops[o].regions) \cap ToSet(g.ops[p].regions) = {}
  BY <1>1, <1>5 DEF Regular
<1>9. ASSUME NEW o \in DOMAIN h.ops
      PROVE  /\ Len(h.ops[o].regions) = RegionCount(h.ops[o].kind)
             /\ IsInjective(h.ops[o].regions)
             /\ \A p \in DOMAIN h.ops \ {o} : ToSet(h.ops[o].regions) \cap ToSet(h.ops[p].regions) = {}
  <2> DEFINE was(p) == IF p = n THEN f ELSE p
  <2>1. ASSUME NEW p \in K \cup {n}
        PROVE  /\ was(p) \in K \cup {f} /\ h.ops[p].regions = g.ops[was(p)].regions
               /\ h.ops[p].kind = g.ops[was(p)].kind
    BY <1>2, <1>5
  <2>2. \A p, q \in K \cup {n} : p # q => was(p) # was(q)
    BY <1>2, <1>5
  <2>3. \A p \in I \cup O : ToSet(h.ops[p].regions) = {} /\ IsInjective(h.ops[p].regions)
                            /\ Len(h.ops[p].regions) = RegionCount(h.ops[p].kind)
    BY <1>2, <1>7
  <2> HIDE DEF was
  <2>4. CASE o \in K \cup {n}
    <3>1. Len(h.ops[o].regions) = RegionCount(h.ops[o].kind) /\ IsInjective(h.ops[o].regions)
      BY <1>8, <2>1, <2>4
    <3>2. ASSUME NEW p \in (K \cup {n}) \ {o} PROVE ToSet(h.ops[o].regions) \cap ToSet(h.ops[p].regions) = {}
      <4>1. was(o) \in K \cup {f} /\ was(p) \in (K \cup {f}) \ {was(o)}
        BY <2>1, <2>2, <2>4
      <4>2. ToSet(g.ops[was(o)].regions) \cap ToSet(g.ops[was(p)].regions) = {}
        BY <1>8, <4>1
      <4> QED
        BY <2>1, <2>4, <4>2
    <3> QED
      BY <1>2, <2>3, <3>1, <3>2
  <2>5. CASE o \in I \cup O
    BY <2>3, <2>5
  <2> QED
    BY <1>2, <2>4, <2>5
<1>10. ASSUME NEW d \in DOMAIN h.blocks
       PROVE  /\ h.blocks[d].ops # << >>
              /\ \A o \in ToSet(h.blocks[d].ops) :
                   h.ops[o].kind \in Terminators <=> o = Last(h.blocks[d].ops)
  <2>1. ASSUME NEW o \in ToSet(h.blocks[d].ops)
        PROVE  h.ops[o].kind \in Terminators <=> o = Last(h.blocks[d].ops)
    <3>1. o \in DOMAIN h.ops
      BY <1>3, <1>4
    <3>2. CASE o \in K
      <4>1. o \in ToSet(g.blocks[d].ops)
        BY <1>3, <1>4, <3>2
      <4> QED
        BY <1>2, <1>3, <1>6, <3>2, <4>1
    <3>3. CASE o \in {n} \cup (I \cup O)
      <4>1. h.ops[o].kind \notin Terminators
        BY <1>2, <1>7, <3>3
      <4>2. o # Last(h.blocks[d].ops)
        BY <1>2, <1>3, <1>6, <3>3
      <4> QED
        BY <4>1, <4>2
    <3> QED
      BY <1>2, <3>1, <3>2, <3>3
  <2> QED
    BY <1>3, <2>1
<1> QED
  BY <1>9, <1>10 DEF Regular, h

\* The new loop has the body, other blocks are where they were.
LEMMA RewrittenOwners ==
  ASSUME NEW g, Valid(g), NEW f \in Loops(g), NEW d \in DOMAIN g.blocks \ {1}
  PROVE  LET h == rewriteForOp(g, f) IN
         /\ Owner(h, d) = IF d = LoopBody(g, f) THEN g.next ELSE Owner(g, d)
         /\ d = LoopBody(g, f) => Owner(g, d) = f
         /\ d # LoopBody(g, f) => Owner(g, d) \in DOMAIN g.ops \ {f}
         /\ BlockOf(h, Owner(h, d)) = BlockOf(g, Owner(g, d))
PROOF
<1> DEFINE h == rewriteForOp(g, f)
           b == LoopBody(g, f)
           c == BlockOf(g, f)
           n == g.next
           p == Owner(g, d)
<1>1. IsTree(g) /\ IsTree(h) /\ Regular(h)
  BY RewrittenTree, RewrittenRegular DEF Valid
<1>2. /\ p \in DOMAIN g.ops /\ d \in ToSet(g.ops[p].regions)
      /\ BlockOf(g, p) \in DOMAIN g.blocks
      /\ p \in ToSet(g.blocks[BlockOf(g, p)].ops)
  BY <1>1, OwnerAround
<1>3. c \in DOMAIN g.blocks /\ (p = f <=> d = b)
  BY LoopPlace
<1>4. n \in DOMAIN h.ops /\ h.ops[n].regions = <<b>>
      /\ \A o \in DOMAIN g.ops \ {f} : o \in DOMAIN h.ops /\ h.ops[o].regions = g.ops[o].regions
  BY RewrittenParts
<1>5. DOMAIN h.blocks = DOMAIN g.blocks
  BY RewrittenMembers
<1>6. \A e \in DOMAIN g.blocks :
         /\ \A o \in DOMAIN g.ops \ {f} : o \in ToSet(h.blocks[e].ops) <=> o \in ToSet(g.blocks[e].ops)
         /\ n \in ToSet(h.blocks[e].ops) <=> e = c
  BY RewrittenHomes
<1>7. ToSet(<<b>>) = {b}
  BY DEF ToSet
<1> HIDE DEF h, b, c, n, p
<1>8. CASE d = b
  <2>1. Owner(h, d) = n
    BY <1>1, <1>4, <1>7, <1>8, OwnerIs
  <2>2. BlockOf(h, n) = c
    BY <1>1, <1>3, <1>4, <1>5, <1>6, InBlock
  <2> QED
    BY <1>3, <1>8, <2>1, <2>2 DEF h, b, c, n, p
<1>9. CASE d # b
  <2>1. p \in DOMAIN g.ops \ {f}
    BY <1>2, <1>3, <1>9
  <2>2. Owner(h, d) = p
    BY <1>1, <1>2, <1>4, <2>1, OwnerIs
  <2>3. BlockOf(h, p) = BlockOf(g, p)
    BY <1>1, <1>2, <1>4, <1>5, <1>6, <2>1, InBlock
  <2> QED
    BY <1>9, <2>1, <2>2, <2>3 DEF h, b, c, n, p
<1> QED
  BY <1>8, <1>9

\* What is used instead of a value.
LEMMA RenameNew ==
  ASSUME NEW g, Valid(g), NEW f \in Loops(g)
  PROVE  LET by == NewValues(g, f)
             C == Carried(g, f)
             b == LoopBody(g, f)
         IN  /\ \A i \in Rank0(C) : Rename(by, Argument(b, i + 1)) = OpResult(Wrapped(g, f, i), 1)
             /\ \A i \in 1 .. Len(C) - 1 :
                  Rename(by, OpResult(f, i)) =
                    IF i \in Rank0(C) THEN OpResult(ResultOf(g, f, i), 1) ELSE OpResult(g.next, i)
             /\ \A d, k : d # b => Rename(by, Argument(d, k)) = Argument(d, k)
             /\ \A k \in 1 .. Len(C) : k - 1 \notin Rank0(C) => Rename(by, Argument(b, k)) = Argument(b, k)
             /\ \A o, k : o # f => Rename(by, OpResult(o, k)) = OpResult(o, k)
PROOF
<1> DEFINE by == NewValues(g, f)
           R == Rank0(Carried(g, f))
           L == Len(Carried(g, f))
           b == LoopBody(g, f)
           A == {Argument(b, i + 1) : i \in R}
           S == {OpResult(f, i) : i \in 1 .. L - 1}
<1>1. L \in Nat /\ \A i \in R : i \in 1 .. L - 1
  BY LoopCarries, Rank0Is
<1>2. DOMAIN by = A \cup S
  BY DEF NewValues
<1>3. \A v \in A \cup S : by[v] = IF v[1] = "block" THEN OpResult(Wrapped(g, f, v[3] - 1), 1)
                                  ELSE IF v[3] \in R THEN OpResult(ResultOf(g, f, v[3]), 1)
                                  ELSE OpResult(g.next, v[3])
  BY DEF NewValues
<1> HIDE DEF by, R, L, b
<1>4. ASSUME NEW i \in R PROVE Rename(by, Argument(b, i + 1)) = OpResult(Wrapped(g, f, i), 1)
  <2>1. Argument(b, i + 1) \in A
    OBVIOUS
  <2>2. Argument(b, i + 1)[1] = "block" /\ Argument(b, i + 1)[3] = i + 1
    BY ValueParts
  <2>3. (i + 1) - 1 = i
    BY <1>1
  <2> HIDE DEF A, S
  <2>4. by[Argument(b, i + 1)] = OpResult(Wrapped(g, f, i), 1)
    BY <1>3, <2>1, <2>2, <2>3
  <2> QED
    BY <1>2, <2>1, <2>4 DEF Rename
<1>5. ASSUME NEW i \in 1 .. L - 1
      PROVE  Rename(by, OpResult(f, i)) =
               IF i \in R THEN OpResult(ResultOf(g, f, i), 1) ELSE OpResult(g.next, i)
  <2>1. OpResult(f, i) \in S
    OBVIOUS
  <2>2. OpResult(f, i)[1] = "op" /\ OpResult(f, i)[3] = i
    BY ValueParts
  <2> HIDE DEF A, S
  <2>3. by[OpResult(f, i)] = IF i \in R THEN OpResult(ResultOf(g, f, i), 1) ELSE OpResult(g.next, i)
    BY <1>3, <2>1, <2>2
  <2> QED
    BY <1>2, <2>1, <2>3 DEF Rename
<1>6. ASSUME NEW d, NEW k, d # b PROVE Rename(by, Argument(d, k)) = Argument(d, k)
  <2>1. Argument(d, k) \notin A
    BY <1>6, ValuesDiffer
  <2>2. Argument(d, k) \notin S
    BY ValuesDiffer
  <2> QED
    BY <1>2, <2>1, <2>2 DEF Rename
<1>7. ASSUME NEW k \in 1 .. L, k - 1 \notin R PROVE Rename(by, Argument(b, k)) = Argument(b, k)
  <2>1. ASSUME NEW i \in R, Argument(b, k) = Argument(b, i + 1) PROVE FALSE
    <3>1. k = i + 1
      BY <2>1, ValuesDiffer
    <3>2. k - 1 = i
      BY <1>1, <3>1
    <3> QED
      BY <1>7, <3>2
  <2>2. Argument(b, k) \notin A
    BY <2>1
  <2>3. Argument(b, k) \notin S
    BY ValuesDiffer
  <2> QED
    BY <1>2, <2>2, <2>3 DEF Rename
<1>8. ASSUME NEW o, NEW k, o # f PROVE Rename(by, OpResult(o, k)) = OpResult(o, k)
  <2>1. OpResult(o, k) \notin A
    BY ValuesDiffer
  <2>2. OpResult(o, k) \notin S
    BY <1>8, ValuesDiffer
  <2> QED
    BY <1>2, <2>1, <2>2 DEF Rename
<1> QED
  BY <1>4, <1>5, <1>6, <1>7, <1>8 DEF by, R, L, b

\* What the operations and blocks give.
LEMMA RewrittenValues ==
  ASSUME NEW g, Valid(g), NEW f \in Loops(g)
  PROVE  LET h == rewriteForOp(g, f)
             C == Carried(g, f)
         IN  /\ \A d \in DOMAIN g.blocks : Arguments(h, d) = Arguments(g, d)
             /\ \A d \in DOMAIN g.blocks \ {LoopBody(g, f)} : h.blocks[d].types = g.blocks[d].types
             /\ h.blocks[LoopBody(g, f)].types = Retyped(C)
             /\ \A o \in DOMAIN g.ops \ {f} : h.ops[o].types = g.ops[o].types /\ Results(h, o) = Results(g, o)
             /\ h.ops[g.next].types = Tail(Retyped(C))
             /\ Results(h, g.next) = {OpResult(g.next, i) : i \in 1 .. Len(C) - 1}
             /\ Results(g, f) = {OpResult(f, i) : i \in 1 .. Len(C) - 1}
             /\ \A i \in Rank0(C) :
                  /\ OpResult(Wrapped(g, f, i), 1) \in Results(h, Wrapped(g, f, i))
                  /\ OpResult(ResultOf(g, f, i), 1) \in Results(h, ResultOf(g, f, i))
                  /\ OpResult(Extract(g, f, i), 1) \in Results(h, Extract(g, f, i))
                  /\ OpResult(Yielded(g, f, i), 1) \in Results(h, Yielded(g, f, i))
                  /\ h.ops[Wrapped(g, f, i)].types = <<C[i + 1]>>
                  /\ h.ops[ResultOf(g, f, i)].types = <<C[i + 1]>>
                  /\ h.ops[Extract(g, f, i)].types = <<ElementType(C[i + 1])>>
                  /\ h.ops[Yielded(g, f, i)].types = <<ElementType(C[i + 1])>>
PROOF
<1> DEFINE h == rewriteForOp(g, f)
           C == Carried(g, f)
           L == Len(C)
           b == LoopBody(g, f)
           c == BlockOf(g, f)
           n == g.next
<1>1. C \in Seq(Type) /\ L \in Nat /\ L >= 1 /\ g.ops[f].types \in Seq(Type) /\ Len(g.ops[f].types) = L - 1
  BY LoopCarries
<1>2. /\ h.blocks[b] = [types |-> Retyped(C), ops |-> NewBody(g, f)]
      /\ h.blocks[c] = [types |-> g.blocks[c].types, ops |-> Around(g.blocks[c].ops, f, Place(g, f))]
      /\ \A d \in DOMAIN g.blocks \ {b, c} : h.blocks[d] = g.blocks[d]
  BY RewrittenBlocks
<1>3. /\ DOMAIN Retyped(C) = 1 .. L /\ Len(Tail(Retyped(C))) = L - 1 /\ Tail(Retyped(C)) \in Seq(Type)
  BY <1>1, RetypedIs
<1>4. h.ops[n].types = Tail(Retyped(C))
  <2>1. h.ops[n] = NewLoop(g, f)
    BY RewrittenIds
  <2> QED
    BY <2>1 DEF NewLoop
<1>5. \A o \in DOMAIN g.ops \ {f} : h.ops[o].types = g.ops[o].types
  BY RewrittenParts
<1>6. \A i \in Rank0(C) :
        /\ h.ops[Extract(g, f, i)] =
             Op("tensor.extract", <<g.ops[f].args[i + 3]>>, <<ElementType(Tensor(g, f, i))>>)
        /\ h.ops[Wrapped(g, f, i)] =
             Op("tensor.from_elements", <<Argument(LoopBody(g, f), i + 1)>>, <<Tensor(g, f, i)>>)
        /\ h.ops[Yielded(g, f, i)] =
             Op("tensor.extract", <<YieldedTensors(g, f)[i]>>, <<ElementType(Tensor(g, f, i))>>)
        /\ h.ops[ResultOf(g, f, i)] =
             Op("tensor.from_elements", <<OpResult(g.next, i)>>, <<Tensor(g, f, i)>>)
  BY RewrittenIds
<1>7. DOMAIN g.blocks[b].types = 1 .. L
  <2>1. DOMAIN C = 1 .. L
    BY <1>1
  <2> QED
    BY <2>1 DEF Carried
<1> HIDE DEF h, C, L, b, c, n
<1>8. \A d \in DOMAIN g.blocks \ {b} : h.blocks[d].types = g.blocks[d].types
  BY <1>2
<1>9. h.blocks[b].types = Retyped(C)
  BY <1>2
<1>10. \A d \in DOMAIN g.blocks : Arguments(h, d) = Arguments(g, d)
  <2>1. \A d \in DOMAIN g.blocks : DOMAIN h.blocks[d].types = DOMAIN g.blocks[d].types
    BY <1>3, <1>7, <1>8, <1>9
  <2> QED
    BY <2>1 DEF Arguments
<1>11. \A o \in DOMAIN g.ops \ {f} : Results(h, o) = Results(g, o)
  BY <1>5 DEF Results
<1>12. Results(h, n) = {OpResult(n, i) : i \in 1 .. L - 1}
  <2>1. DOMAIN h.ops[n].types = 1 .. L - 1
    BY <1>1, <1>3, <1>4
  <2> QED
    BY <2>1 DEF Results
<1>13. Results(g, f) = {OpResult(f, i) : i \in 1 .. L - 1}
  <2>1. DOMAIN g.ops[f].types = 1 .. L - 1
    BY <1>1
  <2> QED
    BY <2>1 DEF Results
<1>14. \A k, x, t : Op(k, x, <<t>>).types = <<t>> /\ DOMAIN <<t>> = {1}
  BY DEF Op
<1>15. ASSUME NEW i \in Rank0(C)
       PROVE  /\ h.ops[Wrapped(g, f, i)].types = <<C[i + 1]>>
              /\ h.ops[ResultOf(g, f, i)].types = <<C[i + 1]>>
              /\ h.ops[Extract(g, f, i)].types = <<ElementType(C[i + 1])>>
              /\ h.ops[Yielded(g, f, i)].types = <<ElementType(C[i + 1])>>
  <2>1. Tensor(g, f, i) = C[i + 1]
    BY DEF Tensor, C
  <2>2. h.ops[Wrapped(g, f, i)].types = <<C[i + 1]>>
    <3>1. h.ops[Wrapped(g, f, i)] = Op("tensor.from_elements", <<Argument(LoopBody(g, f), i + 1)>>, <<Tensor(g, f, i)>>)
      BY <1>6
    <3> QED
      BY <1>14, <2>1, <3>1
  <2>3. h.ops[ResultOf(g, f, i)].types = <<C[i + 1]>>
    <3>1. h.ops[ResultOf(g, f, i)] = Op("tensor.from_elements", <<OpResult(g.next, i)>>, <<Tensor(g, f, i)>>)
      BY <1>6
    <3> QED
      BY <1>14, <2>1, <3>1
  <2>4. h.ops[Extract(g, f, i)].types = <<ElementType(C[i + 1])>>
    <3>1. h.ops[Extract(g, f, i)] = Op("tensor.extract", <<g.ops[f].args[i + 3]>>, <<ElementType(Tensor(g, f, i))>>)
      BY <1>6
    <3> QED
      BY <1>14, <2>1, <3>1
  <2>5. h.ops[Yielded(g, f, i)].types = <<ElementType(C[i + 1])>>
    <3>1. h.ops[Yielded(g, f, i)] = Op("tensor.extract", <<YieldedTensors(g, f)[i]>>, <<ElementType(Tensor(g, f, i))>>)
      BY <1>6
    <3> QED
      BY <1>14, <2>1, <3>1
  <2> QED
    BY <2>2, <2>3, <2>4, <2>5
<1>16. \A o, t : h.ops[o].types = <<t>> => OpResult(o, 1) \in Results(h, o)
  BY <1>14 DEF Results
<1> QED
  BY <1>4, <1>5, <1>8, <1>9, <1>10, <1>11, <1>12, <1>13, <1>15, <1>16 DEF h, C, L, b, n

\* An operation p sees what q saw, if it stands behind what q stood behind.
LEMMA StandsBehind ==
  ASSUME NEW g, Valid(g), NEW f \in Loops(g), NEW d \in DOMAIN g.blocks, NEW q, NEW p,
         \A o : o # f /\ Precedes(g.blocks[d].ops, o, q) => Precedes(rewriteForOp(g, f).blocks[d].ops, o, p),
         Precedes(g.blocks[d].ops, f, q) =>
           /\ Precedes(rewriteForOp(g, f).blocks[d].ops, g.next, p)
           /\ \A i \in Rank0(Carried(g, f)) : Precedes(rewriteForOp(g, f).blocks[d].ops, ResultOf(g, f, i), p),
         d = LoopBody(g, f) =>
           \A i \in Rank0(Carried(g, f)) : Precedes(rewriteForOp(g, f).blocks[d].ops, Wrapped(g, f, i), p)
  PROVE  Stands(g, rewriteForOp(g, f), NewValues(g, f), d, q, p)
PROOF
<1> DEFINE h == rewriteForOp(g, f)
           by == NewValues(g, f)
           C == Carried(g, f)
           R == Rank0(C)
           L == Len(C)
           b == LoopBody(g, f)
           n == g.next
<1>1. /\ \A e \in DOMAIN g.blocks : Arguments(h, e) = Arguments(g, e)
      /\ \A o \in DOMAIN g.ops \ {f} : h.ops[o].types = g.ops[o].types /\ Results(h, o) = Results(g, o)
      /\ Results(h, n) = {OpResult(n, i) : i \in 1 .. L - 1}
      /\ Results(g, f) = {OpResult(f, i) : i \in 1 .. L - 1}
      /\ \A i \in R :
           /\ OpResult(Wrapped(g, f, i), 1) \in Results(h, Wrapped(g, f, i))
           /\ OpResult(ResultOf(g, f, i), 1) \in Results(h, ResultOf(g, f, i))
  BY RewrittenValues
<1>2. /\ \A i \in R : Rename(by, Argument(b, i + 1)) = OpResult(Wrapped(g, f, i), 1)
      /\ \A i \in 1 .. L - 1 :
           Rename(by, OpResult(f, i)) = IF i \in R THEN OpResult(ResultOf(g, f, i), 1) ELSE OpResult(n, i)
      /\ \A e, k : e # b => Rename(by, Argument(e, k)) = Argument(e, k)
      /\ \A k \in 1 .. L : k - 1 \notin R => Rename(by, Argument(b, k)) = Argument(b, k)
      /\ \A o, k : o # f => Rename(by, OpResult(o, k)) = OpResult(o, k)
  BY RenameNew
<1>3. DOMAIN g.blocks[b].types = 1 .. L /\ L \in Nat
  <2>1. C \in Seq(Type)
    BY LoopCarries
  <2> QED
    BY <2>1 DEF Carried
<1>4. ToSet(g.blocks[d].ops) \subseteq DOMAIN g.ops
  BY BlockSeq DEF Valid
<1>5. /\ \A o : o # f /\ Precedes(g.blocks[d].ops, o, q) => Precedes(h.blocks[d].ops, o, p)
      /\ Precedes(g.blocks[d].ops, f, q) =>
           /\ Precedes(h.blocks[d].ops, n, p)
           /\ \A i \in R : Precedes(h.blocks[d].ops, ResultOf(g, f, i), p)
      /\ d = b => \A i \in R : Precedes(h.blocks[d].ops, Wrapped(g, f, i), p)
  OBVIOUS
<1> HIDE DEF h, by, C, R, L, b, n
<1>6. \A o, v : Precedes(h.blocks[d].ops, o, p) /\ v \in Results(h, o) => v \in Before(h, d, p)
  BY BeforeIs
<1>7. ASSUME NEW v \in Arguments(g, d)
      PROVE  Rename(by, v) \in Arguments(h, d) \cup Before(h, d, p)
  <2>1. PICK k \in DOMAIN g.blocks[d].types : v = Argument(d, k)
    BY DEF Arguments
  <2>2. CASE d # b
    BY <1>1, <1>2, <2>1, <2>2
  <2>3. CASE d = b /\ k - 1 \notin R
    BY <1>1, <1>2, <1>3, <2>1, <2>3
  <2>4. CASE d = b /\ k - 1 \in R
    <3> DEFINE i == k - 1
    <3>1. k = i + 1 /\ i \in R
      BY <1>3, <2>1, <2>4
    <3> HIDE DEF i
    <3>2. Rename(by, v) = OpResult(Wrapped(g, f, i), 1)
      BY <1>2, <2>1, <2>4, <3>1
    <3>3. OpResult(Wrapped(g, f, i), 1) \in Results(h, Wrapped(g, f, i)) /\ Precedes(h.blocks[d].ops, Wrapped(g, f, i), p)
      BY <1>1, <1>5, <2>4, <3>1
    <3> QED
      BY <1>6, <3>2, <3>3
  <2> QED
    BY <2>2, <2>3, <2>4
<1>8. ASSUME NEW v \in Before(g, d, q)
      PROVE  Rename(by, v) \in Before(h, d, p)
  <2>1. PICK o : Precedes(g.blocks[d].ops, o, q) /\ v \in Results(g, o)
    BY BeforeIs
  <2>2. o \in DOMAIN g.ops
    BY <1>4, <2>1 DEF Precedes, ToSet
  <2>3. CASE o # f
    <3>1. Rename(by, v) = v
      BY <1>2, <2>1, <2>3 DEF Results
    <3>2. v \in Results(h, o) /\ Precedes(h.blocks[d].ops, o, p)
      BY <1>1, <1>5, <2>1, <2>2, <2>3
    <3> QED
      BY <1>6, <3>1, <3>2
  <2>4. CASE o = f
    <3>1. PICK i \in 1 .. L - 1 : v = OpResult(f, i)
      BY <1>1, <2>1, <2>4
    <3>2. CASE i \in R
      <4>1. Rename(by, v) = OpResult(ResultOf(g, f, i), 1)
        BY <1>2, <3>1, <3>2
      <4>2. OpResult(ResultOf(g, f, i), 1) \in Results(h, ResultOf(g, f, i))
            /\ Precedes(h.blocks[d].ops, ResultOf(g, f, i), p)
        BY <1>1, <1>5, <2>1, <2>4, <3>2
      <4> QED
        BY <1>6, <4>1, <4>2
    <3>3. CASE i \notin R
      <4>1. Rename(by, v) = OpResult(n, i)
        BY <1>2, <3>1, <3>3
      <4>2. OpResult(n, i) \in Results(h, n) /\ Precedes(h.blocks[d].ops, n, p)
        BY <1>1, <1>5, <2>1, <2>4
      <4> QED
        BY <1>6, <4>1, <4>2
    <3> QED
      BY <3>2, <3>3
  <2> QED
    BY <2>3, <2>4
<1>9. Stands(g, h, by, d, q, p)
  BY <1>7, <1>8 DEF Stands
<1> QED
  BY <1>9 DEF h, by

\* What was there before an operation still is, renamed.
LEMMA RewrittenStands ==
  ASSUME NEW g, Valid(g), NEW f \in Loops(g)
  PROVE  LET h == rewriteForOp(g, f)
             by == NewValues(g, f)
             b == LoopBody(g, f)
             c == BlockOf(g, f)
         IN  /\ \A d \in DOMAIN g.blocks : \A q \in ToSet(g.blocks[d].ops) \ {f} : Stands(g, h, by, d, q, q)
             /\ \A x \in {g.next} \cup AtLoop(g, f) : Stands(g, h, by, c, f, x)
             /\ \A i \in Rank0(Carried(g, f)) : Stands(g, h, by, b, Terminator(g, f), Yielded(g, f, i))
PROOF
<1> DEFINE h == rewriteForOp(g, f)
           by == NewValues(g, f)
           b == LoopBody(g, f)
           c == BlockOf(g, f)
           R == Rank0(Carried(g, f))
           n == g.next
           y == Terminator(g, f)
           ops == g.blocks[b].ops
           was == g.blocks[c].ops
           all == NewBody(g, f)
           list == Around(was, f, Place(g, f))
           N == {Extract(g, f, i) : i \in R} \cup {n} \cup {ResultOf(g, f, i) : i \in R}
<1>1. /\ DOMAIN h.blocks = DOMAIN g.blocks
      /\ h.blocks[b] = [types |-> Retyped(Carried(g, f)), ops |-> all]
      /\ h.blocks[c] = [types |-> g.blocks[c].types, ops |-> list]
      /\ \A d \in DOMAIN g.blocks \ {b, c} : h.blocks[d] = g.blocks[d]
  BY RewrittenBlocks
<1>2. b # c /\ \A d \in DOMAIN g.blocks : f \in ToSet(g.blocks[d].ops) <=> d = c
  BY RewrittenMembers
<1>3. b \in DOMAIN g.blocks /\ c \in DOMAIN g.blocks
  BY LoopPlace
<1>4. /\ \A p, q : Precedes(ops, p, q) => Precedes(all, p, q)
      /\ \A i \in R : \A q \in ToSet(ops) : Precedes(all, Wrapped(g, f, i), q)
      /\ \A i, j \in R : Precedes(all, Wrapped(g, f, i), Yielded(g, f, j))
      /\ \A p : \A i \in R : Precedes(ops, p, y) => Precedes(all, p, Yielded(g, f, i))
  BY InnerIs
<1>5. /\ \A p, q : p # f /\ q # f /\ Precedes(was, p, q) => Precedes(list, p, q)
      /\ \A p : Precedes(was, p, f) => \A x \in N : Precedes(list, p, x)
      /\ \A q : Precedes(was, f, q) => \A x \in N : Precedes(list, x, q)
  BY OuterIs
<1>6. n \in N /\ (\A i \in R : ResultOf(g, f, i) \in N) /\ \A x \in {n} \cup AtLoop(g, f) : x \in N
  BY DEF AtLoop
<1>7. \A d \in DOMAIN g.blocks : \A q : Precedes(g.blocks[d].ops, f, q) => d = c
  BY <1>2 DEF Precedes, ToSet
<1>8. ~Precedes(was, f, f)
  <2>1. was \in Seq(Nat) /\ IsInjective(was)
    BY <1>3, BlockSeq DEF Valid
  <2> HIDE DEF was
  <2> QED
    BY <2>1, NotBeforeItself
<1>9. h.blocks[b].ops = all /\ h.blocks[c].ops = list
  BY <1>1
<1>10. ASSUME NEW d \in DOMAIN g.blocks, NEW q, NEW p,
              \A o : o # f /\ Precedes(g.blocks[d].ops, o, q) => Precedes(h.blocks[d].ops, o, p),
              Precedes(g.blocks[d].ops, f, q) =>
                Precedes(h.blocks[d].ops, n, p) /\ \A i \in R : Precedes(h.blocks[d].ops, ResultOf(g, f, i), p),
              d = b => \A i \in R : Precedes(h.blocks[d].ops, Wrapped(g, f, i), p)
       PROVE  Stands(g, h, by, d, q, p)
  BY <1>10, StandsBehind
<1> HIDE DEF h, by, b, c, R, n, y, ops, was, all, list, N
<1>11. ASSUME NEW d \in DOMAIN g.blocks, NEW q \in ToSet(g.blocks[d].ops) \ {f}
       PROVE  Stands(g, h, by, d, q, q)
  <2>1. \A o : o # f /\ Precedes(g.blocks[d].ops, o, q) => Precedes(h.blocks[d].ops, o, q)
    <3>1. CASE d = b
      BY <1>4, <1>9, <3>1 DEF ops
    <3>2. CASE d = c
      BY <1>5, <1>9, <3>2 DEF was
    <3>3. CASE d \notin {b, c}
      BY <1>1, <3>3
    <3> QED
      BY <3>1, <3>2, <3>3
  <2>2. Precedes(g.blocks[d].ops, f, q) =>
          Precedes(h.blocks[d].ops, n, q) /\ \A i \in R : Precedes(h.blocks[d].ops, ResultOf(g, f, i), q)
    BY <1>5, <1>6, <1>7, <1>9 DEF was
  <2>3. d = b => \A i \in R : Precedes(h.blocks[d].ops, Wrapped(g, f, i), q)
    BY <1>4, <1>9 DEF ops
  <2> QED
    BY <1>10, <2>1, <2>2, <2>3
<1>12. ASSUME NEW x \in {n} \cup AtLoop(g, f)
       PROVE  Stands(g, h, by, c, f, x)
  <2>1. \A o : o # f /\ Precedes(g.blocks[c].ops, o, f) => Precedes(h.blocks[c].ops, o, x)
    BY <1>5, <1>6, <1>9 DEF was
  <2>2. ~Precedes(g.blocks[c].ops, f, f)
    BY <1>8 DEF was
  <2> QED
    BY <1>2, <1>3, <1>10, <2>1, <2>2
<1>13. ASSUME NEW i \in R
       PROVE  Stands(g, h, by, b, y, Yielded(g, f, i))
  <2>1. \A o : o # f /\ Precedes(g.blocks[b].ops, o, y) => Precedes(h.blocks[b].ops, o, Yielded(g, f, i))
    BY <1>4, <1>9 DEF ops
  <2>2. ~Precedes(g.blocks[b].ops, f, y)
    BY <1>2, <1>3, <1>7
  <2>3. \A j \in R : Precedes(h.blocks[b].ops, Wrapped(g, f, j), Yielded(g, f, i))
    BY <1>4, <1>9
  <2> QED
    BY <1>3, <1>10, <2>1, <2>2, <2>3
<1> QED
  BY <1>11, <1>12, <1>13 DEF h, by, b, c, R, n, y

\* What is used is in sight.
LEMMA RewrittenSight ==
  ASSUME NEW g, Valid(g), NEW f \in Loops(g)
  PROVE  LET h == rewriteForOp(g, f)
             by == NewValues(g, f)
             b == LoopBody(g, f)
             c == BlockOf(g, f)
         IN  /\ \A d \in DOMAIN g.blocks : \A q \in ToSet(g.blocks[d].ops) \ {f} :
                  \A v \in InSight(g, d, q) : Rename(by, v) \in InSight(h, d, q)
             /\ \A x \in {g.next} \cup AtLoop(g, f) : \A v \in InSight(g, c, f) :
                  Rename(by, v) = v /\ v \in InSight(h, c, x)
             /\ \A i \in Rank0(Carried(g, f)) : \A v \in InSight(g, b, Terminator(g, f)) :
                  Rename(by, v) \in InSight(h, b, Yielded(g, f, i))
PROOF
<1> DEFINE h == rewriteForOp(g, f)
           by == NewValues(g, f)
           b == LoopBody(g, f)
           c == BlockOf(g, f)
           n == g.next
           y == Terminator(g, f)
           R == Rank0(Carried(g, f))
<1>1. IsTree(g) /\ IsTree(h)
  BY RewrittenTree DEF Valid
<1>2. DOMAIN h.blocks = DOMAIN g.blocks
  BY RewrittenMembers
<1>3. b \in DOMAIN g.blocks /\ c \in DOMAIN g.blocks /\ f \in ToSet(g.blocks[c].ops) /\ b > c
      /\ f \in DOMAIN g.ops
  BY LoopPlace
<1>4. /\ \A d \in DOMAIN g.blocks : \A q \in ToSet(g.blocks[d].ops) \ {f} : Stands(g, h, by, d, q, q)
      /\ \A x \in {n} \cup AtLoop(g, f) : Stands(g, h, by, c, f, x)
      /\ \A i \in R : Stands(g, h, by, b, y, Yielded(g, f, i))
  BY RewrittenStands
<1>5. \A d \in DOMAIN g.blocks \ {1} :
        /\ Owner(h, d) = IF d = b THEN n ELSE Owner(g, d)
        /\ d = b => Owner(g, d) = f
        /\ d # b => Owner(g, d) \in DOMAIN g.ops \ {f}
        /\ BlockOf(h, Owner(h, d)) = BlockOf(g, Owner(g, d))
  BY RewrittenOwners
<1>6. /\ \A e, k : e # b => Rename(by, Argument(e, k)) = Argument(e, k)
      /\ \A o, k : o # f => Rename(by, OpResult(o, k)) = OpResult(o, k)
  BY RenameNew
<1> HIDE DEF h, by, b, c, n, y, R
<1>7. ASSUME NEW d \in DOMAIN g.blocks \ {1}
      PROVE  /\ BlockOf(h, Owner(h, d)) = BlockOf(g, Owner(g, d))
             /\ Stands(g, h, by, BlockOf(g, Owner(g, d)), Owner(g, d), Owner(h, d))
  <2>1. CASE d = b
    <3>1. Owner(g, d) = f /\ Owner(h, d) = n
      BY <1>5, <2>1
    <3>2. Stands(g, h, by, c, f, n)
      BY <1>4
    <3> QED
      BY <1>5, <3>1, <3>2 DEF c
  <2>2. CASE d # b
    <3>1. Owner(g, d) # f /\ Owner(h, d) = Owner(g, d)
      BY <1>5, <2>2
    <3>2. BlockOf(g, Owner(g, d)) \in DOMAIN g.blocks
          /\ Owner(g, d) \in ToSet(g.blocks[BlockOf(g, Owner(g, d))].ops)
      BY <1>1, OwnerAround
    <3> QED
      BY <1>4, <1>5, <3>1, <3>2
  <2> QED
    BY <2>1, <2>2
<1>8. ASSUME NEW d \in DOMAIN g.blocks, NEW q, NEW p, Stands(g, h, by, d, q, p)
      PROVE  \A v \in InSight(g, d, q) : Rename(by, v) \in InSight(h, d, p)
  BY <1>1, <1>2, <1>7, <1>8, RenamedSight
<1>9. ASSUME NEW v \in InSight(g, c, f) PROVE Rename(by, v) = v
  <2>1. \/ \E d \in DOMAIN g.blocks : d <= c /\ v \in Arguments(g, d)
        \/ \E p \in DOMAIN g.ops \ {f} : v \in Results(g, p)
    BY <1>1, <1>3, SightIs
  <2>2. ASSUME NEW d \in DOMAIN g.blocks, d <= c, v \in Arguments(g, d) PROVE Rename(by, v) = v
    <3>1. b \in Nat /\ c \in Nat
      BY <1>1, <1>3, BlockSeq
    <3>2. d # b
      BY <1>3, <2>2, <3>1
    <3> QED
      BY <1>6, <2>2, <3>2 DEF Arguments
  <2>3. ASSUME NEW p \in DOMAIN g.ops \ {f}, v \in Results(g, p) PROVE Rename(by, v) = v
    BY <1>6, <2>3 DEF Results
  <2> QED
    BY <2>1, <2>2, <2>3
<1>10. ASSUME NEW x \in {n} \cup AtLoop(g, f), NEW v \in InSight(g, c, f)
       PROVE  Rename(by, v) = v /\ v \in InSight(h, c, x)
  <2>1. Rename(by, v) \in InSight(h, c, x)
    BY <1>3, <1>4, <1>8
  <2>2. Rename(by, v) = v
    BY <1>9
  <2> QED
    BY <2>1, <2>2
<1>11. ASSUME NEW i \in R, NEW v \in InSight(g, b, y)
       PROVE  Rename(by, v) \in InSight(h, b, Yielded(g, f, i))
  BY <1>3, <1>4, <1>8
<1>12. ASSUME NEW d \in DOMAIN g.blocks, NEW q \in ToSet(g.blocks[d].ops) \ {f}, NEW v \in InSight(g, d, q)
       PROVE  Rename(by, v) \in InSight(h, d, q)
  BY <1>4, <1>8
<1> QED
  BY <1>10, <1>11, <1>12 DEF h, by, b, c, n, y, R

\* The operands of the new loop.
LEMMA NewLoopArgs ==
  ASSUME NEW g, Valid(g), NEW f \in Loops(g)
  PROVE  LET a == rewriteForOp(g, f).ops[g.next].args
             L == Len(Carried(g, f))
             R == Rank0(Carried(g, f))
         IN  /\ a \in Seq(InSight(g, BlockOf(g, f), f) \cup {OpResult(Extract(g, f, i), 1) : i \in R})
             /\ Len(a) = L + 2
             /\ \A j \in 1 .. 3 : a[j] = g.ops[f].args[j]
             /\ \A i \in 1 .. L - 1 :
                  a[3 + i] = IF i \in R THEN OpResult(Extract(g, f, i), 1) ELSE g.ops[f].args[i + 3]
PROOF
<1> DEFINE L == Len(Carried(g, f))
           R == Rank0(Carried(g, f))
           T == InSight(g, BlockOf(g, f), f)
           S == T \cup {OpResult(Extract(g, f, i), 1) : i \in R}
           args == g.ops[f].args
           inits == [i \in 1 .. L - 1 |-> IF i \in R THEN OpResult(Extract(g, f, i), 1) ELSE args[i + 3]]
           three == SubSeq(args, 1, 3)
<1>1. rewriteForOp(g, f).ops[g.next].args = three \o inits
  <2>1. rewriteForOp(g, f).ops[g.next] = NewLoop(g, f)
    BY RewrittenIds
  <2>2. NewLoop(g, f).args = three \o inits
    BY DEF NewLoop
  <2> QED
    BY <2>1, <2>2
<1>2. L \in Nat /\ L >= 1 /\ args \in Seq(T) /\ Len(args) = L + 2
  BY LoopCarries
<1>3. \A i \in R : OpResult(Extract(g, f, i), 1) \in S
  OBVIOUS
<1>4. T \subseteq S
  OBVIOUS
<1> HIDE DEF L, R, T, S, args
<1>5. \A j \in 1 .. L + 2 : args[j] \in S
  BY <1>2, <1>4
<1>6. three \in Seq(S) /\ Len(three) = 3 /\ \A j \in 1 .. 3 : three[j] = args[j]
  BY <1>2, <1>5
<1>7. \A i \in 1 .. L - 1 : i + 3 \in 1 .. L + 2
  BY <1>2
<1>8. inits \in Seq(S) /\ Len(inits) = L - 1
  <2>1. \A i \in 1 .. L - 1 : (IF i \in R THEN OpResult(Extract(g, f, i), 1) ELSE args[i + 3]) \in S
    BY <1>3, <1>5, <1>7
  <2>2. L - 1 \in Nat
    BY <1>2
  <2> QED
    BY <2>1, <2>2
<1>9. \A i \in 1 .. L - 1 : inits[i] = IF i \in R THEN OpResult(Extract(g, f, i), 1) ELSE args[i + 3]
  OBVIOUS
<1> HIDE DEF three, inits
<1> DEFINE a == three \o inits
<1>10. /\ a \in Seq(S) /\ Len(a) = Len(three) + Len(inits) /\ DOMAIN a = 1 .. Len(three) + Len(inits)
       /\ \A j \in 1 .. Len(three) : a[j] = three[j]
       /\ \A i \in 1 .. Len(inits) : a[Len(three) + i] = inits[i]
  <2>1. three \in Seq(S) /\ inits \in Seq(S)
    BY <1>6, <1>8
  <2> QED
    BY <2>1, ConcatIs
<1> HIDE DEF a
<1>11. Len(a) = L + 2
  BY <1>2, <1>6, <1>8, <1>10
<1>12. \A j \in 1 .. 3 : a[j] = args[j]
  BY <1>6, <1>10
<1>13. \A i \in 1 .. L - 1 : a[3 + i] = IF i \in R THEN OpResult(Extract(g, f, i), 1) ELSE args[i + 3]
  BY <1>6, <1>8, <1>9, <1>10
<1> QED
  BY <1>1, <1>10, <1>11, <1>12, <1>13 DEF a, S, T, R, L, args

\* The operands of the yield.
LEMMA YieldArgs ==
  ASSUME NEW g, Valid(g), NEW f \in Loops(g)
  PROVE  LET h == rewriteForOp(g, f)
             y == Terminator(g, f)
             by == NewValues(g, f)
             L == Len(Carried(g, f))
             R == Rank0(Carried(g, f))
         IN  /\ Len(h.ops[y].args) = L - 1 /\ DOMAIN h.ops[y].args = 1 .. L - 1
             /\ h.ops[y].args = [i \in 1 .. L - 1 |-> h.ops[y].args[i]]
             /\ \A i \in 1 .. L - 1 :
                  /\ g.ops[y].args[i] \in InSight(g, LoopBody(g, f), y)
                  /\ YieldedTensors(g, f)[i] = Rename(by, g.ops[y].args[i])
                  /\ h.ops[y].args[i] = IF i \in R THEN OpResult(Yielded(g, f, i), 1)
                                        ELSE Rename(by, g.ops[y].args[i])
PROOF
<1> DEFINE h == rewriteForOp(g, f)
           y == Terminator(g, f)
           by == NewValues(g, f)
           L == Len(Carried(g, f))
           R == Rank0(Carried(g, f))
           T == InSight(g, LoopBody(g, f), y)
           args == g.ops[y].args
           t == YieldedTensors(g, f)
<1>1. L \in Nat /\ L >= 1
  BY LoopCarries
<1>2. y \in DOMAIN g.ops /\ y # f /\ args \in Seq(T) /\ Len(args) = L - 1
  BY BodyEnd
<1>3. h.ops[y] = KeptOp(g, f, y)
  BY <1>2, RewrittenIds
<1>4. h.ops[y].args = [i \in DOMAIN t |-> IF i \in R THEN OpResult(Yielded(g, f, i), 1) ELSE t[i]]
  BY <1>3, WithArgsParts DEF KeptOp
<1>5. t = [i \in DOMAIN args |-> Rename(by, args[i])]
  BY DEF YieldedTensors, Renamed
<1> HIDE DEF h, y, by, L, R, T, args, t
<1>6. DOMAIN args = 1 .. L - 1 /\ \A i \in 1 .. L - 1 : args[i] \in T
  BY <1>1, <1>2
<1>7. DOMAIN t = 1 .. L - 1 /\ \A i \in 1 .. L - 1 : t[i] = Rename(by, args[i])
  BY <1>5, <1>6
<1>8. \A i \in 1 .. L - 1 : h.ops[y].args[i] = IF i \in R THEN OpResult(Yielded(g, f, i), 1) ELSE Rename(by, args[i])
  BY <1>4, <1>7
<1>9. h.ops[y].args = [i \in 1 .. L - 1 |-> h.ops[y].args[i]]
  BY <1>4, <1>7
<1>10. Len(h.ops[y].args) = L - 1 /\ DOMAIN h.ops[y].args = 1 .. L - 1
  <2>1. L - 1 \in Nat
    BY <1>1
  <2> QED
    BY <1>9, <2>1, FunctionLen
<1> QED
  BY <1>6, <1>7, <1>8, <1>9, <1>10 DEF h, y, by, L, R, T, args, t

\* Every operand of the rewritten function is in sight (scf_for_rank0_scalar.cpp).
LEMMA RewrittenDominated ==
  ASSUME NEW g, Valid(g), NEW f \in Loops(g)
  PROVE  Dominated(rewriteForOp(g, f))
PROOF
<1> DEFINE h == rewriteForOp(g, f)
           by == NewValues(g, f)
           b == LoopBody(g, f)
           c == BlockOf(g, f)
           n == g.next
           y == Terminator(g, f)
           C == Carried(g, f)
           L == Len(C)
           R == Rank0(C)
           I == InBody(g, f)
           O == AtLoop(g, f)
           K == DOMAIN g.ops \ {f}
<1>1. IsTree(g) /\ IsTree(h) /\ Dominated(g)
  BY RewrittenTree DEF Valid
<1>2. DOMAIN h.blocks = DOMAIN g.blocks
  BY RewrittenMembers
<1>3. b \in DOMAIN g.blocks /\ c \in DOMAIN g.blocks
  BY LoopPlace
<1>4. \A d \in DOMAIN g.blocks :
         /\ ToSet(h.blocks[d].ops) \subseteq DOMAIN h.ops
         /\ \A p \in K : p \in ToSet(h.blocks[d].ops) <=> p \in ToSet(g.blocks[d].ops)
         /\ n \in ToSet(h.blocks[d].ops) <=> d = c
         /\ \A p \in I : p \in ToSet(h.blocks[d].ops) <=> d = b
         /\ \A p \in O : p \in ToSet(h.blocks[d].ops) <=> d = c
  BY RewrittenHomes
<1>5. DOMAIN h.ops = K \cup {n} \cup (I \cup O)
  BY RewrittenParts
<1>6. /\ \A d \in DOMAIN g.blocks : \A q \in ToSet(g.blocks[d].ops) \ {f} :
           \A v \in InSight(g, d, q) : Rename(by, v) \in InSight(h, d, q)
      /\ \A x \in {n} \cup O : \A v \in InSight(g, c, f) : Rename(by, v) = v /\ v \in InSight(h, c, x)
      /\ \A i \in R : \A v \in InSight(g, b, y) : Rename(by, v) \in InSight(h, b, Yielded(g, f, i))
  BY RewrittenSight
<1>7. /\ \A o \in K : h.ops[o] = KeptOp(g, f, o)
      /\ \A i \in R :
           /\ h.ops[Extract(g, f, i)] =
                Op("tensor.extract", <<g.ops[f].args[i + 3]>>, <<ElementType(Tensor(g, f, i))>>)
           /\ h.ops[Wrapped(g, f, i)] =
                Op("tensor.from_elements", <<Argument(b, i + 1)>>, <<Tensor(g, f, i)>>)
           /\ h.ops[Yielded(g, f, i)] =
                Op("tensor.extract", <<YieldedTensors(g, f)[i]>>, <<ElementType(Tensor(g, f, i))>>)
           /\ h.ops[ResultOf(g, f, i)] =
                Op("tensor.from_elements", <<OpResult(n, i)>>, <<Tensor(g, f, i)>>)
  BY RewrittenIds
<1>8. /\ h.ops[n].args \in Seq(InSight(g, c, f) \cup {OpResult(Extract(g, f, i), 1) : i \in R})
  BY NewLoopArgs
<1>9. /\ DOMAIN h.ops[y].args = 1 .. L - 1
      /\ h.ops[y].args = [i \in 1 .. L - 1 |-> h.ops[y].args[i]]
      /\ \A i \in 1 .. L - 1 :
           /\ g.ops[y].args[i] \in InSight(g, b, y)
           /\ YieldedTensors(g, f)[i] = Rename(by, g.ops[y].args[i])
           /\ h.ops[y].args[i] = IF i \in R THEN OpResult(Yielded(g, f, i), 1)
                                 ELSE Rename(by, g.ops[y].args[i])
  BY YieldArgs
<1>10. /\ Results(h, n) = {OpResult(n, i) : i \in 1 .. L - 1}
       /\ h.blocks[b].types = Retyped(C)
       /\ \A i \in R :
            /\ OpResult(Extract(g, f, i), 1) \in Results(h, Extract(g, f, i))
            /\ OpResult(Yielded(g, f, i), 1) \in Results(h, Yielded(g, f, i))
  BY RewrittenValues
<1>11. L \in Nat /\ L >= 1 /\ R \subseteq 1 .. L - 1 /\ DOMAIN Retyped(C) = 1 .. L
  <2>1. C \in Seq(Type) /\ L \in Nat /\ L >= 1
    BY LoopCarries
  <2>2. DOMAIN Retyped(C) = 1 .. L
    BY <2>1, RetypedIs
  <2>3. R \subseteq 1 .. L - 1
    BY Rank0Is
  <2> QED
    BY <2>1, <2>2, <2>3
<1>12. /\ \A i \in R : Precedes(h.blocks[b].ops, Yielded(g, f, i), y)
       /\ \A i \in R : Precedes(h.blocks[c].ops, Extract(g, f, i), n)
       /\ \A i \in R : Precedes(h.blocks[c].ops, n, ResultOf(g, f, i))
  <2>0. /\ h.blocks[b] = [types |-> Retyped(C), ops |-> NewBody(g, f)]
        /\ h.blocks[c] = [types |-> g.blocks[c].types, ops |-> Around(g.blocks[c].ops, f, Place(g, f))]
    BY RewrittenBlocks
  <2>1. h.blocks[b].ops = NewBody(g, f) /\ h.blocks[c].ops = Around(g.blocks[c].ops, f, Place(g, f))
    BY <2>0
  <2>2. \A i \in R : Precedes(NewBody(g, f), Yielded(g, f, i), y)
    BY InnerIs
  <2>3. /\ \A i \in R : Precedes(Around(g.blocks[c].ops, f, Place(g, f)), Extract(g, f, i), n)
        /\ \A i \in R : Precedes(Around(g.blocks[c].ops, f, Place(g, f)), n, ResultOf(g, f, i))
    BY OuterIs
  <2> QED
    BY <2>1, <2>2, <2>3
<1>13. y \in ToSet(g.blocks[b].ops) /\ y \in K
  BY BodyEnd
<1>14. g.ops[f].args \in Seq(InSight(g, c, f)) /\ Len(g.ops[f].args) = L + 2
  BY LoopCarries
<1>15. \A d \in DOMAIN g.blocks : \A o \in ToSet(g.blocks[d].ops) : g.ops[o].args \in Seq(InSight(g, d, o))
  BY <1>1, Operands
<1>16. \A o \in K \ {y} : h.ops[o].args = Renamed(g.ops[o].args, by)
  <2> SUFFICES ASSUME NEW o \in K \ {y} PROVE h.ops[o].args = Renamed(g.ops[o].args, by)
    OBVIOUS
  <2>1. KeptOp(g, f, o) = WithArgs(g.ops[o], Renamed(g.ops[o].args, by))
    BY DEF KeptOp
  <2> QED
    BY <1>7, <2>1, WithArgsParts
<1>17. \A i \in R : /\ h.ops[Extract(g, f, i)].args = <<g.ops[f].args[i + 3]>>
                    /\ h.ops[Wrapped(g, f, i)].args = <<Argument(b, i + 1)>>
                    /\ h.ops[Yielded(g, f, i)].args = <<YieldedTensors(g, f)[i]>>
                    /\ h.ops[ResultOf(g, f, i)].args = <<OpResult(n, i)>>
  <2>1. \A k, x, t : Op(k, x, t).args = x
    BY DEF Op
  <2> SUFFICES ASSUME NEW i \in R
               PROVE  /\ h.ops[Extract(g, f, i)].args = <<g.ops[f].args[i + 3]>>
                      /\ h.ops[Wrapped(g, f, i)].args = <<Argument(b, i + 1)>>
                      /\ h.ops[Yielded(g, f, i)].args = <<YieldedTensors(g, f)[i]>>
                      /\ h.ops[ResultOf(g, f, i)].args = <<OpResult(n, i)>>
    OBVIOUS
  <2> HIDE DEF h
  <2>2. h.ops[Extract(g, f, i)].args = <<g.ops[f].args[i + 3]>>
    <3>1. h.ops[Extract(g, f, i)] = Op("tensor.extract", <<g.ops[f].args[i + 3]>>, <<ElementType(Tensor(g, f, i))>>)
      BY <1>7
    <3> QED
      BY <2>1, <3>1
  <2>3. h.ops[Wrapped(g, f, i)].args = <<Argument(b, i + 1)>>
    <3>1. h.ops[Wrapped(g, f, i)] = Op("tensor.from_elements", <<Argument(b, i + 1)>>, <<Tensor(g, f, i)>>)
      BY <1>7
    <3> QED
      BY <2>1, <3>1
  <2>4. h.ops[Yielded(g, f, i)].args = <<YieldedTensors(g, f)[i]>>
    <3>1. h.ops[Yielded(g, f, i)] = Op("tensor.extract", <<YieldedTensors(g, f)[i]>>, <<ElementType(Tensor(g, f, i))>>)
      BY <1>7
    <3> QED
      BY <2>1, <3>1
  <2>5. h.ops[ResultOf(g, f, i)].args = <<OpResult(n, i)>>
    <3>1. h.ops[ResultOf(g, f, i)] = Op("tensor.from_elements", <<OpResult(n, i)>>, <<Tensor(g, f, i)>>)
      BY <1>7
    <3> QED
      BY <2>1, <3>1
  <2> QED
    BY <2>2, <2>3, <2>4, <2>5
<1>18. Arguments(h, b) \subseteq Visible(h)[b]
  BY <1>1, <1>2, <1>3, SeesArguments
<1>19. /\ I = {Wrapped(g, f, i) : i \in R} \cup {Yielded(g, f, i) : i \in R}
       /\ O = {Extract(g, f, i) : i \in R} \cup {ResultOf(g, f, i) : i \in R}
  BY DEF InBody, AtLoop
<1>20. (\A i \in R : Wrapped(g, f, i) \in I /\ Yielded(g, f, i) \in I)
       /\ \A i \in R : Extract(g, f, i) \in O /\ ResultOf(g, f, i) \in O
  BY <1>19
<1> HIDE DEF h, by, b, c, n, y, C, L, R, I, O
<1>21. \A d, p, o, v : Precedes(h.blocks[d].ops, p, o) /\ v \in Results(h, p) => v \in InSight(h, d, o)
  BY BeforeIs DEF InSight
<1>22. ASSUME NEW o \in K, NEW d \in DOMAIN g.blocks, o \in ToSet(g.blocks[d].ops)
       PROVE  h.ops[o].args \in Seq(InSight(h, d, o))
  <2>1. g.ops[o].args \in Seq(InSight(g, d, o)) /\ \A v \in InSight(g, d, o) : Rename(by, v) \in InSight(h, d, o)
    BY <1>6, <1>15, <1>22
  <2>2. CASE o # y
    <3>1. Renamed(g.ops[o].args, by) \in Seq(InSight(h, d, o))
      BY <2>1, RenamedSeq
    <3> QED
      BY <1>16, <2>2, <3>1
  <2>3. CASE o = y
    <3>1. d = b
      BY <1>1, <1>3, <1>13, <1>22, <2>3, InBlock
    <3>2. ASSUME NEW i \in 1 .. L - 1 PROVE h.ops[y].args[i] \in InSight(h, b, y)
      <4>1. CASE i \in R
        <5>1. OpResult(Yielded(g, f, i), 1) \in InSight(h, b, y)
          BY <1>10, <1>12, <1>21, <4>1
        <5> QED
          BY <1>9, <4>1, <5>1
      <4>2. CASE i \notin R
        <5>1. Rename(by, g.ops[y].args[i]) \in InSight(h, b, y)
          BY <1>9, <2>1, <2>3, <3>1
        <5> QED
          BY <1>9, <4>2, <5>1
      <4> QED
        BY <4>1, <4>2
    <3>3. L - 1 \in Nat
      BY <1>11
    <3>4. h.ops[y].args \in Seq(InSight(h, b, y))
      BY <1>9, <3>2, <3>3
    <3> QED
      BY <2>3, <3>1, <3>4
  <2> QED
    BY <2>2, <2>3
<1>23. h.ops[n].args \in Seq(InSight(h, c, n))
  <2> DEFINE X == InSight(g, c, f) \cup {OpResult(Extract(g, f, i), 1) : i \in R}
  <2>1. \A v \in X : v \in InSight(h, c, n)
    <3>1. \A v \in InSight(g, c, f) : v \in InSight(h, c, n)
      BY <1>6
    <3>2. \A i \in R : OpResult(Extract(g, f, i), 1) \in InSight(h, c, n)
      BY <1>10, <1>12, <1>21
    <3> QED
      BY <3>1, <3>2
  <2>2. h.ops[n].args \in Seq(X)
    BY <1>8
  <2> HIDE DEF X
  <2> QED
    BY <2>1, <2>2
<1>24. \A S, v : v \in S => <<v>> \in Seq(S)
  OBVIOUS
<1>25. ASSUME NEW i \in R
       PROVE  /\ h.ops[Extract(g, f, i)].args \in Seq(InSight(h, c, Extract(g, f, i)))
              /\ h.ops[ResultOf(g, f, i)].args \in Seq(InSight(h, c, ResultOf(g, f, i)))
              /\ h.ops[Wrapped(g, f, i)].args \in Seq(InSight(h, b, Wrapped(g, f, i)))
              /\ h.ops[Yielded(g, f, i)].args \in Seq(InSight(h, b, Yielded(g, f, i)))
  <2>1. i \in 1 .. L - 1 /\ i + 3 \in 1 .. L + 2 /\ i + 1 \in 1 .. L
    BY <1>11
  <2>2. g.ops[f].args[i + 3] \in InSight(g, c, f)
    BY <1>14, <2>1
  <2>3. g.ops[f].args[i + 3] \in InSight(h, c, Extract(g, f, i))
    BY <1>6, <1>20, <2>2
  <2>4. OpResult(n, i) \in InSight(h, c, ResultOf(g, f, i))
    BY <1>10, <1>12, <1>21, <2>1
  <2>5. Argument(b, i + 1) \in InSight(h, b, Wrapped(g, f, i))
    <3>1. Argument(b, i + 1) \in Arguments(h, b)
      BY <1>10, <1>11, <2>1 DEF Arguments
    <3> QED
      BY <1>18, <3>1 DEF InSight
  <2>6. YieldedTensors(g, f)[i] \in InSight(h, b, Yielded(g, f, i))
    BY <1>6, <1>9, <2>1
  <2> QED
    BY <1>17, <1>24, <2>3, <2>4, <2>5, <2>6
<1>26. ASSUME NEW d \in DOMAIN h.blocks, NEW o \in ToSet(h.blocks[d].ops)
       PROVE  h.ops[o].args \in Seq(InSight(h, d, o))
  <2>1. d \in DOMAIN g.blocks /\ o \in DOMAIN h.ops
    BY <1>2, <1>4
  <2>2. CASE o \in K
    BY <1>4, <1>22, <2>1, <2>2
  <2>3. CASE o = n
    BY <1>4, <1>23, <2>1, <2>3
  <2>4. CASE o \in I
    <3>1. d = b
      BY <1>4, <2>1, <2>4
    <3>2. PICK i \in R : o \in {Wrapped(g, f, i), Yielded(g, f, i)}
      BY <1>19, <2>4
    <3> QED
      BY <1>25, <3>1, <3>2
  <2>5. CASE o \in O
    <3>1. d = c
      BY <1>4, <2>1, <2>5
    <3>2. PICK i \in R : o \in {Extract(g, f, i), ResultOf(g, f, i)}
      BY <1>19, <2>5
    <3> QED
      BY <1>25, <3>1, <3>2
  <2> QED
    BY <1>5, <2>1, <2>2, <2>3, <2>4, <2>5
<1>27. Dominated(h)
  BY <1>26, AllOperands
<1> QED
  BY <1>27 DEF h

\* Taking a tensor of rank 0 apart and making one; what ends a block.
LEMMA AcceptsWraps ==
  ASSUME NEW t \in Type, t.rank = 0, NEW bodies
  PROVE  /\ Accepts("tensor.extract", <<t>>, <<ElementType(t)>>, bodies)
         /\ Accepts("tensor.from_elements", <<ElementType(t)>>, <<t>>, bodies)
         /\ ElementType(t) \in Type /\ Unwrapped(t) = ElementType(t)
PROOF
<1> DEFINE e == ElementType(t)
<1>1. e \in Type /\ Unwrapped(t) = e
  BY DEF ElementType, Ty, Type, Unwrapped
<1> HIDE DEF e
<1>2. Len(<<t>>) = 1 /\ <<t>>[1] = t /\ Len(<<e>>) = 1 /\ <<e>>[1] = e
  OBVIOUS
<1>3. Accepts("tensor.extract", <<t>>, <<e>>, bodies)
  BY <1>2 DEF Accepts, e
<1>4. Accepts("tensor.from_elements", <<e>>, <<t>>, bodies)
  BY <1>2 DEF Accepts, e
<1> QED
  BY <1>1, <1>3, <1>4 DEF e

\* The verifier asks nothing of a terminator itself.
LEMMA AcceptsTerminator ==
  ASSUME NEW kind \in Terminators, NEW args, NEW out, NEW bodies
  PROVE  Accepts(kind, args, out, bodies)
  BY DEF Terminators, Accepts

\* What is used instead of a value has its type.
LEMMA RewrittenValueTypes ==
  ASSUME NEW g, Valid(g), NEW f \in Loops(g)
  PROVE  LET h == rewriteForOp(g, f)
             by == NewValues(g, f)
         IN  /\ \A d \in DOMAIN g.blocks : \A v \in Arguments(g, d) :
                  ValueType(h, Rename(by, v)) = ValueType(g, v)
             /\ \A o \in DOMAIN g.ops : \A v \in Results(g, o) :
                  ValueType(h, Rename(by, v)) = ValueType(g, v)
             /\ \A d \in DOMAIN g.blocks : \A q \in ToSet(g.blocks[d].ops) : \A v \in InSight(g, d, q) :
                  ValueType(h, Rename(by, v)) = ValueType(g, v)
PROOF
<1> DEFINE h == rewriteForOp(g, f)
           by == NewValues(g, f)
           C == Carried(g, f)
           L == Len(C)
           R == Rank0(C)
           b == LoopBody(g, f)
           n == g.next
<1>1. /\ \A d \in DOMAIN g.blocks \ {b} : h.blocks[d].types = g.blocks[d].types
      /\ h.blocks[b].types = Retyped(C)
      /\ \A o \in DOMAIN g.ops \ {f} : h.ops[o].types = g.ops[o].types
      /\ h.ops[n].types = Tail(Retyped(C))
      /\ Results(g, f) = {OpResult(f, i) : i \in 1 .. L - 1}
      /\ \A i \in R :
           /\ h.ops[Wrapped(g, f, i)].types = <<C[i + 1]>>
           /\ h.ops[ResultOf(g, f, i)].types = <<C[i + 1]>>
  BY RewrittenValues
<1>2. /\ \A i \in R : Rename(by, Argument(b, i + 1)) = OpResult(Wrapped(g, f, i), 1)
      /\ \A i \in 1 .. L - 1 :
           Rename(by, OpResult(f, i)) = IF i \in R THEN OpResult(ResultOf(g, f, i), 1) ELSE OpResult(n, i)
      /\ \A e, k : e # b => Rename(by, Argument(e, k)) = Argument(e, k)
      /\ \A k \in 1 .. L : k - 1 \notin R => Rename(by, Argument(b, k)) = Argument(b, k)
      /\ \A o, k : o # f => Rename(by, OpResult(o, k)) = OpResult(o, k)
  BY RenameNew
<1>3. /\ C \in Seq(Type) /\ L \in Nat /\ L >= 1
      /\ \A i \in 1 .. L - 1 : g.ops[f].types[i] = C[i + 1]
  BY LoopCarries
<1>4. R = {i \in 1 .. L - 1 : C[i + 1].rank = 0}
  BY Rank0Is
<1>5. /\ Retyped(C)[1] = C[1] /\ \A k \in 2 .. L : Retyped(C)[k] = Unwrapped(C[k])
      /\ \A i \in 1 .. L - 1 : Tail(Retyped(C))[i] = Unwrapped(C[i + 1])
  BY <1>3, RetypedIs
<1>6. g.blocks[b].types = C
  BY DEF Carried
<1>7. \A t : t.rank # 0 => Unwrapped(t) = t
  BY DEF Unwrapped
<1>8. IsTree(g)
  BY DEF Valid
<1> HIDE DEF h, by, C, L, R, b, n
<1>9. DOMAIN C = 1 .. L
  BY <1>3 DEF L
<1>10. \A t : <<t>>[1] = t
  OBVIOUS
<1>11. ASSUME NEW d \in DOMAIN g.blocks, NEW v \in Arguments(g, d)
       PROVE  ValueType(h, Rename(by, v)) = ValueType(g, v)
  <2>1. PICK k \in DOMAIN g.blocks[d].types : v = Argument(d, k)
    BY DEF Arguments
  <2>2. ValueType(g, v) = g.blocks[d].types[k]
    BY <2>1, TypeOfValue
  <2>3. CASE d # b
    <3>1. ValueType(h, v) = h.blocks[d].types[k] /\ Rename(by, v) = v
      BY <1>2, <2>1, <2>3, TypeOfValue
    <3> QED
      BY <1>1, <2>2, <2>3, <3>1
  <2>4. CASE d = b /\ k - 1 \notin R
    <3>1. k \in 1 .. L
      BY <1>6, <1>9, <2>1, <2>4
    <3>2. ValueType(h, v) = h.blocks[d].types[k] /\ Rename(by, v) = v
      BY <1>2, <2>1, <2>4, <3>1, TypeOfValue
    <3>3. k = 1 \/ (k \in 2 .. L /\ k - 1 \in 1 .. L - 1 /\ (k - 1) + 1 = k)
      BY <1>3, <3>1
    <3>4. Retyped(C)[k] = C[k]
      BY <1>4, <1>5, <1>7, <2>4, <3>3
    <3> QED
      BY <1>1, <1>6, <2>2, <2>4, <3>2, <3>4
  <2>5. CASE d = b /\ k - 1 \in R
    <3> DEFINE i == k - 1
    <3>0. k \in 1 .. L
      BY <1>6, <1>9, <2>1, <2>5
    <3>1. k = i + 1 /\ i \in R
      BY <1>3, <2>5, <3>0
    <3> HIDE DEF i
    <3>2. Rename(by, v) = OpResult(Wrapped(g, f, i), 1)
      BY <1>2, <2>1, <2>5, <3>1
    <3>3. ValueType(h, OpResult(Wrapped(g, f, i), 1)) = h.ops[Wrapped(g, f, i)].types[1]
      BY TypeOfValue
    <3>4. h.ops[Wrapped(g, f, i)].types[1] = C[i + 1]
      BY <1>1, <1>10, <3>1
    <3> QED
      BY <1>6, <2>2, <2>5, <3>1, <3>2, <3>3, <3>4
  <2> QED
    BY <2>3, <2>4, <2>5
<1>12. ASSUME NEW o \in DOMAIN g.ops, NEW v \in Results(g, o)
       PROVE  ValueType(h, Rename(by, v)) = ValueType(g, v)
  <2>1. CASE o # f
    <3>1. PICK k : v = OpResult(o, k)
      BY DEF Results
    <3>2. Rename(by, v) = v /\ ValueType(h, v) = h.ops[o].types[k] /\ ValueType(g, v) = g.ops[o].types[k]
      BY <1>2, <2>1, <3>1, TypeOfValue
    <3> QED
      BY <1>1, <2>1, <3>2
  <2>2. CASE o = f
    <3>1. PICK i \in 1 .. L - 1 : v = OpResult(f, i)
      BY <1>1, <2>2
    <3>2. ValueType(g, v) = C[i + 1]
      BY <1>3, <3>1, TypeOfValue
    <3>3. CASE i \in R
      <4>1. Rename(by, v) = OpResult(ResultOf(g, f, i), 1)
        BY <1>2, <3>1, <3>3
      <4>2. ValueType(h, OpResult(ResultOf(g, f, i), 1)) = h.ops[ResultOf(g, f, i)].types[1]
        BY TypeOfValue
      <4>3. h.ops[ResultOf(g, f, i)].types[1] = C[i + 1]
        BY <1>1, <1>10, <3>3
      <4> QED
        BY <3>2, <4>1, <4>2, <4>3
    <3>4. CASE i \notin R
      <4>1. Rename(by, v) = OpResult(n, i)
        BY <1>2, <3>1, <3>4
      <4>2. ValueType(h, OpResult(n, i)) = h.ops[n].types[i]
        BY TypeOfValue
      <4>3. C[i + 1].rank # 0
        BY <1>4, <3>4
      <4>4. Tail(Retyped(C))[i] = C[i + 1]
        BY <1>5, <1>7, <4>3
      <4> QED
        BY <1>1, <3>2, <4>1, <4>2, <4>4
    <3> QED
      BY <3>3, <3>4
  <2> QED
    BY <2>1, <2>2
<1>13. ASSUME NEW d \in DOMAIN g.blocks, NEW q \in ToSet(g.blocks[d].ops), NEW v \in InSight(g, d, q)
       PROVE  ValueType(h, Rename(by, v)) = ValueType(g, v)
  <2>1. \/ \E e \in DOMAIN g.blocks : e <= d /\ v \in Arguments(g, e)
        \/ \E p \in DOMAIN g.ops \ {q} : v \in Results(g, p)
    BY <1>8, SightIs
  <2> QED
    BY <1>11, <1>12, <2>1
<1> QED
  BY <1>11, <1>12, <1>13 DEF h, by

\* The types of the operands.
LEMMA RewrittenArgTypes ==
  ASSUME NEW g, Valid(g), NEW f \in Loops(g)
  PROVE  LET h == rewriteForOp(g, f)
             C == Carried(g, f)
             L == Len(C)
             out == Tail(Retyped(C))
         IN  /\ \A o \in DOMAIN g.ops \ {f, Terminator(g, f)} : ArgTypes(h, o) = ArgTypes(g, o)
             /\ ArgTypes(h, Terminator(g, f)) = out
             /\ Len(ArgTypes(h, g.next)) = L + 2
             /\ \A j \in 1 .. 3 : ArgTypes(h, g.next)[j] = Index
             /\ \A i \in 1 .. L - 1 : ArgTypes(h, g.next)[3 + i] = out[i]
             /\ \A i \in Rank0(C) :
                  /\ ArgTypes(h, Extract(g, f, i)) = <<C[i + 1]>>
                  /\ ArgTypes(h, Wrapped(g, f, i)) = <<ElementType(C[i + 1])>>
                  /\ ArgTypes(h, Yielded(g, f, i)) = <<C[i + 1]>>
                  /\ ArgTypes(h, ResultOf(g, f, i)) = <<ElementType(C[i + 1])>>
PROOF
<1> DEFINE h == rewriteForOp(g, f)
           by == NewValues(g, f)
           b == LoopBody(g, f)
           c == BlockOf(g, f)
           n == g.next
           y == Terminator(g, f)
           C == Carried(g, f)
           L == Len(C)
           R == Rank0(C)
           out == Tail(Retyped(C))
           K == DOMAIN g.ops \ {f}
           args == g.ops[f].args
<1>1. IsTree(g) /\ Dominated(g)
  BY DEF Valid
<1>2. b \in DOMAIN g.blocks /\ c \in DOMAIN g.blocks /\ f \in ToSet(g.blocks[c].ops)
  BY LoopPlace
<1>3. /\ C \in Seq(Type) /\ L \in Nat /\ L >= 1
      /\ args \in Seq(InSight(g, c, f)) /\ Len(args) = L + 2
      /\ \A j \in 1 .. 3 : ValueType(g, args[j]) = Index
      /\ \A i \in 1 .. L - 1 : ValueType(g, args[i + 3]) = C[i + 1]
  BY LoopCarries
<1>4. R = {i \in 1 .. L - 1 : C[i + 1].rank = 0}
  BY Rank0Is
<1>5. /\ \A k \in 2 .. L : Retyped(C)[k] = Unwrapped(C[k])
      /\ out \in Seq(Type) /\ Len(out) = L - 1
      /\ \A i \in 1 .. L - 1 : out[i] = Unwrapped(C[i + 1])
  BY <1>3, RetypedIs
<1>6. /\ \A d \in DOMAIN g.blocks : \A q \in ToSet(g.blocks[d].ops) : \A v \in InSight(g, d, q) :
           ValueType(h, Rename(by, v)) = ValueType(g, v)
  BY RewrittenValueTypes
<1>7. \A v \in InSight(g, c, f) : Rename(by, v) = v
  BY RewrittenSight
<1>8. /\ h.blocks[b].types = Retyped(C) /\ h.ops[n].types = out
      /\ \A i \in R : /\ h.ops[Extract(g, f, i)].types = <<ElementType(C[i + 1])>>
                      /\ h.ops[Yielded(g, f, i)].types = <<ElementType(C[i + 1])>>
  BY RewrittenValues
<1>9. /\ Len(h.ops[n].args) = L + 2
      /\ \A j \in 1 .. 3 : h.ops[n].args[j] = args[j]
      /\ \A i \in 1 .. L - 1 : h.ops[n].args[3 + i] = IF i \in R THEN OpResult(Extract(g, f, i), 1) ELSE args[i + 3]
      /\ h.ops[n].args \in Seq(InSight(g, c, f) \cup {OpResult(Extract(g, f, i), 1) : i \in R})
  BY NewLoopArgs
<1>10. /\ DOMAIN h.ops[y].args = 1 .. L - 1
       /\ \A i \in 1 .. L - 1 :
            /\ g.ops[y].args[i] \in InSight(g, b, y)
            /\ YieldedTensors(g, f)[i] = Rename(by, g.ops[y].args[i])
            /\ h.ops[y].args[i] = IF i \in R THEN OpResult(Yielded(g, f, i), 1)
                                  ELSE Rename(by, g.ops[y].args[i])
  BY YieldArgs
<1>11. /\ y \in ToSet(g.blocks[b].ops) /\ y \in K
       /\ \A i \in 1 .. L - 1 : ValueType(g, g.ops[y].args[i]) = C[i + 1]
  BY BodyEnd
<1>12. \A t \in Type : (t.rank = 0 => Unwrapped(t) = ElementType(t)) /\ (t.rank # 0 => Unwrapped(t) = t)
  BY DEF Unwrapped
<1>13. /\ \A o \in K : h.ops[o] = KeptOp(g, f, o)
       /\ \A i \in R :
            /\ h.ops[Extract(g, f, i)] =
                 Op("tensor.extract", <<args[i + 3]>>, <<ElementType(Tensor(g, f, i))>>)
            /\ h.ops[Wrapped(g, f, i)] =
                 Op("tensor.from_elements", <<Argument(b, i + 1)>>, <<Tensor(g, f, i)>>)
            /\ h.ops[Yielded(g, f, i)] =
                 Op("tensor.extract", <<YieldedTensors(g, f)[i]>>, <<ElementType(Tensor(g, f, i))>>)
            /\ h.ops[ResultOf(g, f, i)] =
                 Op("tensor.from_elements", <<OpResult(n, i)>>, <<Tensor(g, f, i)>>)
  BY RewrittenIds
<1>14. \A o \in K \ {y} : h.ops[o].args = Renamed(g.ops[o].args, by)
  <2> SUFFICES ASSUME NEW o \in K \ {y} PROVE h.ops[o].args = Renamed(g.ops[o].args, by)
    OBVIOUS
  <2>1. KeptOp(g, f, o) = WithArgs(g.ops[o], Renamed(g.ops[o].args, by))
    BY DEF KeptOp
  <2> QED
    BY <1>13, <2>1, WithArgsParts
<1> HIDE DEF h, by, b, c, n, y, C, L, R, out, args
<1>15. \A i \in 1 .. L - 1 : i + 1 \in 1 .. L /\ C[i + 1] \in Type
  <2>1. \A i \in 1 .. L - 1 : i + 1 \in 1 .. L
    BY <1>3
  <2>2. \A k \in 1 .. L : C[k] \in Type
    BY <1>3 DEF L
  <2> QED
    BY <2>1, <2>2
<1>16. \A i \in 1 .. L - 1 : (i \in R => out[i] = ElementType(C[i + 1])) /\ (i \notin R => out[i] = C[i + 1])
  BY <1>4, <1>5, <1>12, <1>15
<1>17. \A i \in R : /\ ValueType(h, OpResult(Extract(g, f, i), 1)) = ElementType(C[i + 1])
                    /\ ValueType(h, OpResult(Yielded(g, f, i), 1)) = ElementType(C[i + 1])
  <2>1. \A t : <<t>>[1] = t
    OBVIOUS
  <2> QED
    BY <1>8, <2>1, TypeOfValue
<1>18. \A v \in InSight(g, c, f) : ValueType(h, v) = ValueType(g, v)
  BY <1>2, <1>6, <1>7
<1>19. \A j \in 1 .. L + 2 : args[j] \in InSight(g, c, f)
  BY <1>3
<1>20. ASSUME NEW o \in K \ {y} PROVE ArgTypes(h, o) = ArgTypes(g, o)
  <2> DEFINE was == g.ops[o].args
             at == BlockOf(g, o)
  <2>1. at \in DOMAIN g.blocks /\ o \in ToSet(g.blocks[at].ops)
    BY <1>1, InBlock
  <2>2. was \in Seq(InSight(g, at, o))
    BY <1>1, <2>1, Operands
  <2>3. h.ops[o].args = [j \in DOMAIN was |-> Rename(by, was[j])]
    BY <1>14 DEF Renamed
  <2> HIDE DEF was, at
  <2>4. \A j \in DOMAIN was : was[j] \in InSight(g, at, o)
    BY <2>2
  <2>5. \A j \in DOMAIN was : ValueType(h, h.ops[o].args[j]) = ValueType(g, was[j])
    BY <1>6, <2>1, <2>3, <2>4
  <2>6. DOMAIN h.ops[o].args = DOMAIN was
    BY <2>3
  <2> QED
    BY <2>5, <2>6 DEF ArgTypes, was
<1>21. ArgTypes(h, y) = out
  <2>1. \A i \in 1 .. L - 1 : ValueType(h, h.ops[y].args[i]) = out[i]
    <3> SUFFICES ASSUME NEW i \in 1 .. L - 1 PROVE ValueType(h, h.ops[y].args[i]) = out[i]
      OBVIOUS
    <3>1. CASE i \in R
      BY <1>10, <1>16, <1>17, <3>1
    <3>2. CASE i \notin R
      <4>1. h.ops[y].args[i] = Rename(by, g.ops[y].args[i])
        BY <1>10, <3>2
      <4>2. ValueType(h, Rename(by, g.ops[y].args[i])) = ValueType(g, g.ops[y].args[i])
        BY <1>2, <1>6, <1>10, <1>11
      <4> QED
        BY <1>11, <1>16, <3>2, <4>1, <4>2
    <3> QED
      BY <3>1, <3>2
  <2>2. ArgTypes(h, y) = [i \in 1 .. L - 1 |-> out[i]]
    BY <1>10, <2>1 DEF ArgTypes
  <2>3. out = [i \in 1 .. Len(out) |-> out[i]]
    BY <1>5, SequenceIs
  <2> QED
    BY <1>5, <2>2, <2>3
<1>22. /\ Len(ArgTypes(h, n)) = L + 2
       /\ \A j \in 1 .. 3 : ArgTypes(h, n)[j] = Index
       /\ \A i \in 1 .. L - 1 : ArgTypes(h, n)[3 + i] = out[i]
  <2> DEFINE a == h.ops[n].args
  <2>1. DOMAIN a = 1 .. L + 2 /\ L + 2 \in Nat
    <3> DEFINE X == InSight(g, c, f) \cup {OpResult(Extract(g, f, i), 1) : i \in R}
    <3>1. a \in Seq(X) /\ Len(a) = L + 2
      BY <1>9
    <3> HIDE DEF X, a
    <3> QED
      BY <1>3, <3>1
  <2> HIDE DEF a
  <2>2. ArgTypes(h, n) = [j \in 1 .. L + 2 |-> ValueType(h, a[j])]
    BY <2>1 DEF ArgTypes, a
  <2> DEFINE m == L + 2
             s == ArgTypes(h, n)
  <2> HIDE DEF m, s
  <2>3. Len(s) = m /\ \A j \in 1 .. m : s[j] = ValueType(h, a[j])
    <3>1. s = [j \in 1 .. m |-> ValueType(h, a[j])] /\ m \in Nat
      BY <2>1, <2>2 DEF s, m
    <3>2. s = [j \in 1 .. m |-> s[j]]
      BY <3>1
    <3> QED
      BY <3>1, <3>2, FunctionLen
  <2>4. \A j \in 1 .. 3 : j \in 1 .. m
    BY <1>3 DEF m
  <2>5. \A i \in 1 .. L - 1 : 3 + i \in 1 .. m /\ i + 3 \in 1 .. m
    BY <1>3 DEF m
  <2>6. \A j \in 1 .. m : args[j] \in InSight(g, c, f)
    BY <1>19 DEF m
  <2>7. \A j \in 1 .. 3 : s[j] = Index
    BY <1>3, <1>9, <1>18, <2>3, <2>4, <2>6 DEF a
  <2>8. \A i \in 1 .. L - 1 : s[3 + i] = out[i]
    <3> SUFFICES ASSUME NEW i \in 1 .. L - 1 PROVE s[3 + i] = out[i]
      OBVIOUS
    <3>1. s[3 + i] = ValueType(h, a[3 + i])
      BY <2>3, <2>5
    <3>2. a[3 + i] = IF i \in R THEN OpResult(Extract(g, f, i), 1) ELSE args[i + 3]
      BY <1>9 DEF a
    <3>3. CASE i \in R
      BY <1>16, <1>17, <3>1, <3>2, <3>3
    <3>4. CASE i \notin R
      <4>1. ValueType(h, args[i + 3]) = ValueType(g, args[i + 3])
        BY <1>18, <2>5, <2>6
      <4>2. ValueType(g, args[i + 3]) = C[i + 1] /\ out[i] = C[i + 1]
        BY <1>3, <1>16, <3>4
      <4> QED
        BY <3>1, <3>2, <3>4, <4>1, <4>2
    <3> QED
      BY <3>3, <3>4
  <2> QED
    BY <2>3, <2>7, <2>8 DEF m, s
<1>23. ASSUME NEW o, NEW v, NEW k, NEW t, h.ops[o] = Op(k, <<v>>, t)
       PROVE  ArgTypes(h, o) = <<ValueType(h, v)>>
  <2>1. h.ops[o].args = <<v>>
    BY <1>23 DEF Op
  <2>2. DOMAIN <<v>> = 1 .. 1 /\ <<v>>[1] = v
    OBVIOUS
  <2>3. ArgTypes(h, o) = [j \in 1 .. 1 |-> ValueType(h, v)]
    BY <2>1, <2>2 DEF ArgTypes
  <2> DEFINE w == ValueType(h, v)
  <2> HIDE DEF w
  <2>4. [j \in 1 .. 1 |-> w] = <<w>>
    OBVIOUS
  <2> QED
    BY <2>3, <2>4 DEF w
<1>24. ASSUME NEW i \in R
       PROVE  /\ ArgTypes(h, Extract(g, f, i)) = <<C[i + 1]>>
              /\ ArgTypes(h, Wrapped(g, f, i)) = <<ElementType(C[i + 1])>>
              /\ ArgTypes(h, Yielded(g, f, i)) = <<C[i + 1]>>
              /\ ArgTypes(h, ResultOf(g, f, i)) = <<ElementType(C[i + 1])>>
  <2>1. i \in 1 .. L - 1 /\ i + 3 \in 1 .. L + 2 /\ i + 1 \in 2 .. L
    BY <1>3, <1>4
  <2>2. ValueType(h, args[i + 3]) = C[i + 1]
    BY <1>3, <1>18, <1>19, <2>1
  <2>3. ValueType(h, Argument(b, i + 1)) = ElementType(C[i + 1])
    <3>1. ValueType(h, Argument(b, i + 1)) = Retyped(C)[i + 1]
      BY <1>8, TypeOfValue
    <3> QED
      BY <1>4, <1>5, <1>12, <1>15, <2>1, <3>1
  <2>4. ValueType(h, YieldedTensors(g, f)[i]) = C[i + 1]
    BY <1>2, <1>6, <1>10, <1>11, <2>1
  <2>5. ValueType(h, OpResult(n, i)) = ElementType(C[i + 1])
    BY <1>8, <1>16, <2>1, TypeOfValue
  <2>6. ArgTypes(h, Extract(g, f, i)) = <<ValueType(h, args[i + 3])>>
    <3>1. h.ops[Extract(g, f, i)] = Op("tensor.extract", <<args[i + 3]>>, <<ElementType(Tensor(g, f, i))>>)
      BY <1>13
    <3> QED
      BY <1>23, <3>1
  <2>7. ArgTypes(h, Wrapped(g, f, i)) = <<ValueType(h, Argument(b, i + 1))>>
    <3>1. h.ops[Wrapped(g, f, i)] = Op("tensor.from_elements", <<Argument(b, i + 1)>>, <<Tensor(g, f, i)>>)
      BY <1>13
    <3> QED
      BY <1>23, <3>1
  <2>8. ArgTypes(h, Yielded(g, f, i)) = <<ValueType(h, YieldedTensors(g, f)[i])>>
    <3>1. h.ops[Yielded(g, f, i)] =
            Op("tensor.extract", <<YieldedTensors(g, f)[i]>>, <<ElementType(Tensor(g, f, i))>>)
      BY <1>13
    <3> QED
      BY <1>23, <3>1
  <2>9. ArgTypes(h, ResultOf(g, f, i)) = <<ValueType(h, OpResult(n, i))>>
    <3>1. h.ops[ResultOf(g, f, i)] = Op("tensor.from_elements", <<OpResult(n, i)>>, <<Tensor(g, f, i)>>)
      BY <1>13
    <3> QED
      BY <1>23, <3>1
  <2> QED
    BY <2>2, <2>3, <2>4, <2>5, <2>6, <2>7, <2>8, <2>9
<1> QED
  BY <1>20, <1>21, <1>22, <1>24 DEF h, n, y, C, L, R, out

\* The bodies: that of the loop has scalars, the others are what they were.
LEMMA RewrittenBodies ==
  ASSUME NEW g, Valid(g), NEW f \in Loops(g)
  PROVE  LET h == rewriteForOp(g, f)
             C == Carried(g, f)
         IN  /\ \A d \in DOMAIN g.blocks \ {LoopBody(g, f)} : Body(h, d) = Body(g, d)
             /\ Body(h, LoopBody(g, f)) = [types |-> Retyped(C), yields |-> Tail(Retyped(C))]
             /\ \A o \in DOMAIN g.ops \ {f} : Bodies(h, o) = Bodies(g, o)
             /\ Bodies(h, g.next)[1] = Body(h, LoopBody(g, f))
PROOF
<1> DEFINE h == rewriteForOp(g, f)
           b == LoopBody(g, f)
           n == g.next
           y == Terminator(g, f)
           C == Carried(g, f)
<1>1. IsTree(g) /\ Regular(g)
  BY DEF Valid
<1>2. /\ f \in DOMAIN g.ops /\ g.ops[f].kind = "scf.for" /\ g.ops[f].regions = <<b>>
      /\ b \in DOMAIN g.blocks
  BY LoopPlace
<1>3. /\ \A d \in DOMAIN g.blocks \ {b} : h.blocks[d].types = g.blocks[d].types
      /\ h.blocks[b].types = Retyped(C)
  BY RewrittenValues
<1>4. \A d \in DOMAIN g.blocks : Last(h.blocks[d].ops) = Last(g.blocks[d].ops)
  BY RewrittenMembers
<1>5. /\ \A o \in DOMAIN g.ops \ {f, y} : ArgTypes(h, o) = ArgTypes(g, o)
      /\ ArgTypes(h, y) = Tail(Retyped(C))
  BY RewrittenArgTypes
<1>6. y \in ToSet(g.blocks[b].ops) /\ y = Last(g.blocks[b].ops)
  BY BodyEnd DEF Terminator
<1>7. \A d \in DOMAIN g.blocks :
        /\ Last(g.blocks[d].ops) \in ToSet(g.blocks[d].ops) /\ Last(g.blocks[d].ops) \in DOMAIN g.ops
        /\ g.ops[Last(g.blocks[d].ops)].kind \in Terminators
  BY TerminatorIs
<1>8. /\ h.ops[n].regions = <<b>>
      /\ \A o \in DOMAIN g.ops \ {f} : h.ops[o].regions = g.ops[o].regions
  BY RewrittenParts
<1> HIDE DEF h, b, n, y, C
<1>9. ASSUME NEW d \in DOMAIN g.blocks \ {b} PROVE Body(h, d) = Body(g, d)
  <2>1. Last(g.blocks[d].ops) # y
    <3>1. ToSet(g.blocks[d].ops) \cap ToSet(g.blocks[b].ops) = {}
      BY <1>1, <1>2 DEF IsTree
    <3> QED
      BY <1>6, <1>7, <3>1
  <2>2. Last(g.blocks[d].ops) # f
    BY <1>2, <1>7 DEF Terminators
  <2>3. ArgTypes(h, Last(h.blocks[d].ops)) = ArgTypes(g, Last(g.blocks[d].ops))
    BY <1>4, <1>5, <1>7, <2>1, <2>2
  <2> QED
    BY <1>3, <2>3 DEF Body
<1>10. Body(h, b) = [types |-> Retyped(C), yields |-> Tail(Retyped(C))]
  BY <1>2, <1>3, <1>4, <1>5, <1>6 DEF Body
<1>11. ASSUME NEW o \in DOMAIN g.ops \ {f} PROVE Bodies(h, o) = Bodies(g, o)
  <2> DEFINE rs == g.ops[o].regions
  <2>1. h.ops[o].regions = rs
    BY <1>8
  <2>2. rs \in Seq(DOMAIN g.blocks)
    BY <1>1 DEF IsTree
  <2>3. ToSet(rs) \cap ToSet(g.ops[f].regions) = {}
    BY <1>1, <1>2 DEF Regular
  <2>4. b \in ToSet(g.ops[f].regions)
    BY <1>2 DEF ToSet
  <2> HIDE DEF rs
  <2>5. \A r \in DOMAIN rs : rs[r] \in DOMAIN g.blocks \ {b}
    BY <2>2, <2>3, <2>4 DEF ToSet
  <2>6. \A r \in DOMAIN rs : Body(h, rs[r]) = Body(g, rs[r])
    BY <1>9, <2>5
  <2> QED
    BY <2>1, <2>6 DEF Bodies, rs
<1>12. Bodies(h, n)[1] = Body(h, b)
  <2>1. DOMAIN <<b>> = {1} /\ <<b>>[1] = b
    OBVIOUS
  <2> QED
    BY <1>8, <2>1 DEF Bodies
<1> QED
  BY <1>9, <1>10, <1>11, <1>12 DEF h, b, n, C

\* The rewritten function has the types that the verifier asks for.
LEMMA RewrittenTyped ==
  ASSUME NEW g, Valid(g), NEW f \in Loops(g)
  PROVE  Typed(rewriteForOp(g, f))
PROOF
<1> DEFINE h == rewriteForOp(g, f)
           b == LoopBody(g, f)
           n == g.next
           y == Terminator(g, f)
           C == Carried(g, f)
           L == Len(C)
           R == Rank0(C)
           out == Tail(Retyped(C))
           K == DOMAIN g.ops \ {f}
           I == InBody(g, f)
           O == AtLoop(g, f)
           good(o) == /\ h.ops[o].types \in Seq(Type)
                      /\ Accepts(h.ops[o].kind, ArgTypes(h, o), h.ops[o].types, Bodies(h, o))
<1>1. Typed(g)
  BY DEF Valid
<1>2. /\ DOMAIN h.ops = K \cup {n} \cup (I \cup O)
      /\ \A o \in K : h.ops[o].kind = g.ops[o].kind /\ h.ops[o].types = g.ops[o].types
      /\ h.ops[n].kind = "scf.for"
  BY RewrittenParts
<1>3. /\ h.ops[n].types = out
      /\ \A i \in R :
           /\ h.ops[Wrapped(g, f, i)].types = <<C[i + 1]>>
           /\ h.ops[ResultOf(g, f, i)].types = <<C[i + 1]>>
           /\ h.ops[Extract(g, f, i)].types = <<ElementType(C[i + 1])>>
           /\ h.ops[Yielded(g, f, i)].types = <<ElementType(C[i + 1])>>
  BY RewrittenValues
<1>4. /\ \A o \in K \ {y} : ArgTypes(h, o) = ArgTypes(g, o)
      /\ Len(ArgTypes(h, n)) = L + 2
      /\ \A j \in 1 .. 3 : ArgTypes(h, n)[j] = Index
      /\ \A i \in 1 .. L - 1 : ArgTypes(h, n)[3 + i] = out[i]
      /\ \A i \in R :
           /\ ArgTypes(h, Extract(g, f, i)) = <<C[i + 1]>>
           /\ ArgTypes(h, Wrapped(g, f, i)) = <<ElementType(C[i + 1])>>
           /\ ArgTypes(h, Yielded(g, f, i)) = <<C[i + 1]>>
           /\ ArgTypes(h, ResultOf(g, f, i)) = <<ElementType(C[i + 1])>>
  <2>1. /\ \A o \in DOMAIN g.ops \ {f, y} : ArgTypes(h, o) = ArgTypes(g, o)
        /\ ArgTypes(h, y) = out
        /\ Len(ArgTypes(h, n)) = L + 2
        /\ \A j \in 1 .. 3 : ArgTypes(h, n)[j] = Index
        /\ \A i \in 1 .. L - 1 : ArgTypes(h, n)[3 + i] = out[i]
        /\ \A i \in R :
             /\ ArgTypes(h, Extract(g, f, i)) = <<C[i + 1]>>
             /\ ArgTypes(h, Wrapped(g, f, i)) = <<ElementType(C[i + 1])>>
             /\ ArgTypes(h, Yielded(g, f, i)) = <<C[i + 1]>>
             /\ ArgTypes(h, ResultOf(g, f, i)) = <<ElementType(C[i + 1])>>
    BY RewrittenArgTypes
  <2> QED
    BY <2>1
<1>5. /\ Body(h, b) = [types |-> Retyped(C), yields |-> out]
      /\ \A o \in K : Bodies(h, o) = Bodies(g, o)
      /\ Bodies(h, n)[1] = Body(h, b)
  BY RewrittenBodies
<1>6. /\ C \in Seq(Type) /\ L \in Nat /\ L >= 1 /\ C[1] = Index
  BY LoopCarries
<1>7. /\ out \in Seq(Type) /\ Len(out) = L - 1 /\ Retyped(C) = <<C[1]>> \o out
  BY <1>6, RetypedIs
<1>8. g.ops[y].kind \in Terminators /\ y \in K
  BY BodyEnd
<1>9. R = {i \in 1 .. L - 1 : C[i + 1].rank = 0}
  BY Rank0Is
<1>10. /\ I = {Wrapped(g, f, i) : i \in R} \cup {Yielded(g, f, i) : i \in R}
       /\ O = {Extract(g, f, i) : i \in R} \cup {ResultOf(g, f, i) : i \in R}
  BY DEF InBody, AtLoop
<1>11. \A i \in R :
         /\ h.ops[Wrapped(g, f, i)].kind = "tensor.from_elements"
         /\ h.ops[ResultOf(g, f, i)].kind = "tensor.from_elements"
         /\ h.ops[Extract(g, f, i)].kind = "tensor.extract"
         /\ h.ops[Yielded(g, f, i)].kind = "tensor.extract"
  <2>1. \A i \in R :
          /\ h.ops[Extract(g, f, i)] =
               Op("tensor.extract", <<g.ops[f].args[i + 3]>>, <<ElementType(Tensor(g, f, i))>>)
          /\ h.ops[Wrapped(g, f, i)] =
               Op("tensor.from_elements", <<Argument(b, i + 1)>>, <<Tensor(g, f, i)>>)
          /\ h.ops[Yielded(g, f, i)] =
               Op("tensor.extract", <<YieldedTensors(g, f)[i]>>, <<ElementType(Tensor(g, f, i))>>)
          /\ h.ops[ResultOf(g, f, i)] =
               Op("tensor.from_elements", <<OpResult(n, i)>>, <<Tensor(g, f, i)>>)
    BY RewrittenIds
  <2>2. \A k, x, t : Op(k, x, t).kind = k
    BY DEF Op
  <2> HIDE DEF h, b, n, R
  <2>3. \A i \in R : \E x, t : h.ops[Wrapped(g, f, i)] = Op("tensor.from_elements", x, t)
    BY <2>1
  <2>4. \A i \in R : \E x, t : h.ops[ResultOf(g, f, i)] = Op("tensor.from_elements", x, t)
    BY <2>1
  <2>5. \A i \in R : \E x, t : h.ops[Extract(g, f, i)] = Op("tensor.extract", x, t)
    BY <2>1
  <2>6. \A i \in R : \E x, t : h.ops[Yielded(g, f, i)] = Op("tensor.extract", x, t)
    BY <2>1
  <2> QED
    BY <2>2, <2>3, <2>4, <2>5, <2>6
<1> HIDE DEF h, b, n, y, C, L, R, out, I, O
<1>12. \A t \in Type : <<t>> \in Seq(Type)
  OBVIOUS
<1>13. \A i \in R : C[i + 1] \in Type /\ C[i + 1].rank = 0
  <2>1. \A i \in 1 .. L - 1 : i + 1 \in 1 .. L
    BY <1>6
  <2>2. \A k \in 1 .. L : C[k] \in Type
    BY <1>6 DEF L
  <2> QED
    BY <1>9, <2>1, <2>2
<1>14. ASSUME NEW o \in K PROVE good(o)
  <2>1. o \in DOMAIN g.ops
    OBVIOUS
  <2>2. /\ g.ops[o].types \in Seq(Type)
        /\ Accepts(g.ops[o].kind, ArgTypes(g, o), g.ops[o].types, Bodies(g, o))
    BY <1>1, <2>1 DEF Typed
  <2>3. CASE o # y
    BY <1>2, <1>4, <1>5, <2>2, <2>3
  <2>4. CASE o = y
    <3>1. Accepts(h.ops[o].kind, ArgTypes(h, o), h.ops[o].types, Bodies(h, o))
      BY <1>2, <1>8, <2>4, AcceptsTerminator
    <3> QED
      BY <1>2, <2>2, <3>1
  <2> QED
    BY <2>3, <2>4
<1>15. good(n)
  <2> DEFINE args == ArgTypes(h, n)
             bodies == Bodies(h, n)
  <2>1. Len(args) = 3 + Len(out)
    BY <1>4, <1>6, <1>7
  <2>2. DOMAIN out = 1 .. L - 1
    BY <1>6, <1>7
  <2>3. bodies[1] = [types |-> <<Index>> \o out, yields |-> out]
    BY <1>5, <1>6, <1>7
  <2>4. \A j \in 1 .. 3 : args[j] = Index
    BY <1>4
  <2>5. \A i \in DOMAIN out : args[3 + i] = out[i]
    BY <1>4, <2>2
  <2> HIDE DEF args, bodies
  <2>6. LoopTypes(3, args, out, bodies)
    BY <2>1, <2>3, <2>4, <2>5 DEF LoopTypes
  <2>7. Accepts("scf.for", args, out, bodies)
    BY <2>6, AcceptsLoop
  <2> QED
    BY <1>2, <1>3, <1>7, <2>7 DEF args, bodies
<1>16. ASSUME NEW i \in R
       PROVE  good(Extract(g, f, i)) /\ good(Wrapped(g, f, i)) /\ good(Yielded(g, f, i)) /\ good(ResultOf(g, f, i))
  <2> DEFINE t == C[i + 1]
             e == ElementType(t)
  <2>1. t \in Type /\ t.rank = 0
    BY <1>13
  <2>2. e \in Type /\ \A bodies : /\ Accepts("tensor.extract", <<t>>, <<e>>, bodies)
                                  /\ Accepts("tensor.from_elements", <<e>>, <<t>>, bodies)
    BY <2>1, AcceptsWraps
  <2> HIDE DEF t, e
  <2>3. /\ h.ops[Wrapped(g, f, i)].types = <<t>> /\ h.ops[ResultOf(g, f, i)].types = <<t>>
        /\ h.ops[Extract(g, f, i)].types = <<e>> /\ h.ops[Yielded(g, f, i)].types = <<e>>
        /\ ArgTypes(h, Extract(g, f, i)) = <<t>> /\ ArgTypes(h, Yielded(g, f, i)) = <<t>>
        /\ ArgTypes(h, Wrapped(g, f, i)) = <<e>> /\ ArgTypes(h, ResultOf(g, f, i)) = <<e>>
    BY <1>3, <1>4 DEF t, e
  <2>4. <<t>> \in Seq(Type) /\ <<e>> \in Seq(Type)
    BY <1>12, <2>1, <2>2
  <2>5. good(Extract(g, f, i))
    BY <1>11, <2>2, <2>3, <2>4
  <2>6. good(Wrapped(g, f, i))
    BY <1>11, <2>2, <2>3, <2>4
  <2>7. good(Yielded(g, f, i))
    BY <1>11, <2>2, <2>3, <2>4
  <2>8. good(ResultOf(g, f, i))
    BY <1>11, <2>2, <2>3, <2>4
  <2> HIDE DEF good
  <2> QED
    BY <2>5, <2>6, <2>7, <2>8
<1> HIDE DEF good
<1>17. \A o \in DOMAIN h.ops : good(o)
  BY <1>2, <1>10, <1>14, <1>15, <1>16
<1>18. Typed(h)
  BY <1>17 DEF Typed, good
<1> QED
  BY <1>18 DEF h

\* Making the tensors that a loop carries scalars keeps a function valid.
LEMMA RewrittenValid ==
  ASSUME NEW g, Valid(g), NEW f \in Loops(g)
  PROVE  Valid(rewriteForOp(g, f))
  BY RewrittenTree, RewrittenRegular, RewrittenDominated, RewrittenTyped DEF Valid

-----------------------------------------------------------------------------
(* A walk meets an operation once. *)

\* Sequences with nothing in common.
Apart(s) == \A j, k \in 1 .. Len(s) : j # k => ToSet(s[j]) \cap ToSet(s[k]) = {}

\* The whole has only what is in one of the sequences, and has it once if they
\* have it once.
LEMMA FlattenSeqParts ==
  ASSUME NEW S, NEW s \in Seq(Seq(S))
  PROVE  /\ \A x \in ToSet(FlattenSeq(s)) : \E k \in 1 .. Len(s) : x \in ToSet(s[k])
         /\ Apart(s) /\ (\A k \in 1 .. Len(s) : IsInjective(s[k])) => IsInjective(FlattenSeq(s))
PROOF
<1> DEFINE F == CHOOSE f : f = [i \in 1 .. Len(s) |-> Flat(s, f, i)]
           Once == Apart(s) /\ \A k \in 1 .. Len(s) : IsInjective(s[k])
           Parts(n) == \A x \in ToSet(F[n]) : \E k \in 1 .. n : x \in ToSet(s[k])
           Good(n) == Parts(n) /\ (Once => IsInjective(F[n]))
           Bad == {n \in 1 .. Len(s) : ~Good(n)}
<1>0. Len(s) \in Nat
  OBVIOUS
<1>1. Flattening(s, F)
  <2>1. F = [i \in 1 .. Len(s) |-> Flat(s, F, i)]
    BY <1>0, FlatExists
  <2> HIDE DEF F
  <2> QED
    BY <2>1 DEF Flattening
<1>2. Len(s) # 0 => FlattenSeq(s) = F[Len(s)]
  BY DEF FlattenSeq, Flat
<1> HIDE DEF F
<1>3. Grows(S, s, F)
  BY <1>1, FlatGrows, Zenon
<1> HIDE DEF Good
<1>4. Bad = {}
  <2> SUFFICES ASSUME Bad # {} PROVE FALSE
    OBVIOUS
  <2>1. PICK m \in Bad : \A n \in Bad : m <= n
    <3>1. Bad \in SUBSET Nat
      OBVIOUS
    <3> HIDE DEF Bad
    <3> QED
      BY <3>1, Least
  <2>2. m \in 1 .. Len(s) /\ ~Good(m) /\ s[m] \in Seq(S)
    BY <2>1
  <2>3. CASE m = 1
    <3>1. F[1] = s[1]
      BY <1>0, <1>3, <2>2 DEF Grows
    <3>2. 1 \in 1 .. 1
      OBVIOUS
    <3>3. Parts(1)
      BY <3>1, <3>2
    <3>4. Once => IsInjective(F[1])
      BY <2>2, <2>3, <3>1
    <3> QED
      BY <2>2, <2>3, <3>3, <3>4 DEF Good
  <2>4. CASE m # 1
    <3>1. m - 1 \in 1 .. Len(s) /\ ~(m <= m - 1)
      BY <1>0, <2>2, <2>4
    <3>2. Good(m - 1)
      BY <2>1, <3>1
    <3>3. F[m - 1] \in Seq(S) /\ F[m] = F[m - 1] \o s[m]
      BY <1>3, <2>2, <2>4, <3>1 DEF Grows
    <3>4. ToSet(F[m]) = ToSet(F[m - 1]) \cup ToSet(s[m])
      BY <2>2, <3>3, ToSetConcat
    <3>5. m \in 1 .. m /\ \A k \in 1 .. m - 1 : k \in 1 .. m /\ k # m /\ k \in 1 .. Len(s)
      BY <1>0, <2>2
    <3>6. Parts(m - 1)
      BY <3>2 DEF Good
    <3>7. Parts(m)
      BY <3>4, <3>5, <3>6
    <3>8. ASSUME Once PROVE IsInjective(F[m])
      <4>1. IsInjective(F[m - 1]) /\ IsInjective(s[m])
        BY <2>2, <3>2, <3>8 DEF Good
      <4>2. ToSet(F[m - 1]) \cap ToSet(s[m]) = {}
        <5> SUFFICES ASSUME NEW x \in ToSet(F[m - 1]), x \in ToSet(s[m]) PROVE FALSE
          OBVIOUS
        <5>1. PICK k \in 1 .. m - 1 : x \in ToSet(s[k])
          BY <3>6
        <5>2. ToSet(s[k]) \cap ToSet(s[m]) = {}
          BY <2>2, <3>5, <3>8 DEF Apart
        <5> QED
          BY <5>1, <5>2
      <4> QED
        BY <2>2, <3>3, <4>1, <4>2, InjectiveConcat
    <3> QED
      BY <2>2, <3>7, <3>8 DEF Good
  <2> QED
    BY <2>3, <2>4
<1>5. CASE Len(s) = 0
  <2>1. FlattenSeq(s) = << >>
    BY <1>5 DEF FlattenSeq
  <2>2. ToSet(<< >>) = {} /\ IsInjective(<< >>)
    BY DEF ToSet, IsInjective
  <2> QED
    BY <2>1, <2>2
<1>6. CASE Len(s) # 0
  <2>1. Len(s) \in 1 .. Len(s)
    BY <1>0, <1>6
  <2>2. Good(Len(s))
    BY <1>4, <2>1
  <2> QED
    BY <1>2, <1>6, <2>2 DEF Good
<1> QED
  BY <1>5, <1>6

\* What the walk of a block meets stands in the block, or is met in a region of
\* an operation that stands there.
LEMMA WalkMeets ==
  ASSUME NEW g, IsTree(g), NEW S, NEW T, NEW walk, Walking(g, S, T, walk),
         NEW b \in DOMAIN g.blocks, NEW o \in ToSet(g.blocks[b].ops),
         NEW x \in ToSet(VisitOp(g, S, T, walk, o))
  PROVE  x = o \/ \E r \in ToSet(g.ops[o].regions) : x \in ToSet(walk[r])
PROOF
<1> DEFINE Q == S \cup T
           inner == Inner(g, walk, o)
           first == IF o \in S THEN <<o>> ELSE << >>
           last == IF o \in T THEN <<o>> ELSE << >>
           regions == g.ops[o].regions
<1>1. \A c \in DOMAIN g.blocks : walk[c] \in Seq(Q)
  BY WalkType
<1>2. inner \in Seq(Seq(Q))
  BY <1>1, VisitType
<1>3. VisitOp(g, S, T, walk, o) = first \o FlattenSeq(inner) \o last
  BY DEF VisitOp, Inner
<1>4. first \in Seq(Q) /\ last \in Seq(Q)
  <2>1. o \in Q => <<o>> \in Seq(Q)
    OBVIOUS
  <2>2. << >> \in Seq(Q)
    OBVIOUS
  <2> QED
    BY <2>1, <2>2
<1>5. ToSet(first) \subseteq {o} /\ ToSet(last) \subseteq {o}
  BY DEF ToSet
<1>6. \A k \in DOMAIN inner : inner[k] = walk[regions[k]] /\ regions[k] \in ToSet(regions)
  BY DEF Inner, ToSet
<1> HIDE DEF Q, inner, first, last, regions
<1>7. FlattenSeq(inner) \in Seq(Q)
  BY <1>2, FlattenSeqType
<1>8. x \in ToSet(first) \cup ToSet(FlattenSeq(inner)) \cup ToSet(last)
  <2> DEFINE front == first \o FlattenSeq(inner)
  <2>1. front \in Seq(Q) /\ ToSet(front) = ToSet(first) \cup ToSet(FlattenSeq(inner))
    BY <1>4, <1>7, ToSetConcat
  <2>2. VisitOp(g, S, T, walk, o) = front \o last
    BY <1>3
  <2> HIDE DEF front
  <2> QED
    BY <1>4, <2>1, <2>2, ToSetConcat
<1>9. CASE x \in ToSet(FlattenSeq(inner))
  <2>1. PICK k \in 1 .. Len(inner) : x \in ToSet(inner[k])
    BY <1>2, <1>9, FlattenSeqParts
  <2>2. k \in DOMAIN inner
    BY <1>2
  <2> QED
    BY <1>6, <2>1, <2>2 DEF regions
<1> QED
  BY <1>5, <1>8, <1>9

\* The walk of a block meets the same.
LEMMA WalkOf ==
  ASSUME NEW g, IsTree(g), NEW S, NEW T, NEW walk, Walking(g, S, T, walk),
         NEW b \in DOMAIN g.blocks, NEW x \in ToSet(walk[b])
  PROVE  \E o \in ToSet(g.blocks[b].ops) :
           x = o \/ \E r \in ToSet(g.ops[o].regions) : x \in ToSet(walk[r])
PROOF
<1> DEFINE pieces == Pieces(g, S, T, walk, b)
<1>1. \A c \in DOMAIN g.blocks : walk[c] \in Seq(S \cup T)
  BY WalkType
<1>2. pieces \in Seq(Seq(S \cup T))
  BY <1>1, VisitType
<1>3. walk[b] = FlattenSeq(pieces)
  BY Zenon DEF Walking, VisitBlock, Pieces
<1>4. \A k \in DOMAIN pieces : \E o \in ToSet(g.blocks[b].ops) : pieces[k] = VisitOp(g, S, T, walk, o)
  BY DEF Pieces, ToSet
<1> HIDE DEF pieces
<1>5. PICK k \in 1 .. Len(pieces) : x \in ToSet(pieces[k])
  BY <1>2, <1>3, FlattenSeqParts
<1>6. k \in DOMAIN pieces
  BY <1>2
<1>7. PICK o \in ToSet(g.blocks[b].ops) : pieces[k] = VisitOp(g, S, T, walk, o)
  BY <1>4, <1>6
<1> QED
  BY <1>5, <1>7, WalkMeets

\* It stands in the block or in one with a larger number.
LEMMA WalkBelow ==
  ASSUME NEW g, IsTree(g), NEW S, NEW T, NEW walk, Walking(g, S, T, walk)
  PROVE  \A b \in DOMAIN g.blocks : \A x \in ToSet(walk[b]) :
           \E c \in DOMAIN g.blocks : c >= b /\ x \in ToSet(g.blocks[c].ops)
PROOF
<1> DEFINE N == Len(g.blocks)
           Below(b) == \A x \in ToSet(walk[b]) :
                         \E c \in DOMAIN g.blocks : c >= b /\ x \in ToSet(g.blocks[c].ops)
           Bad == {b \in DOMAIN g.blocks : ~Below(b)}
<1>1. N \in Nat /\ DOMAIN g.blocks = 1 .. N
  BY DEF IsTree
<1>2. Bad = {}
  <2> SUFFICES ASSUME Bad # {} PROVE FALSE
    OBVIOUS
  <2>1. PICK b \in Bad : \A c \in Bad : c <= b
    <3>1. Bad \in SUBSET (0 .. N)
      BY <1>1
    <3> HIDE DEF Bad
    <3> QED
      BY <1>1, <3>1, Greatest
  <2>2. b \in DOMAIN g.blocks /\ ~Below(b)
    BY <2>1
  <2>3. ASSUME NEW r \in DOMAIN g.blocks, r > b PROVE Below(r)
    <3>1. r \notin Bad
      <4>1. b \in Nat /\ r \in Nat /\ ~(r <= b)
        BY <1>1, <2>1, <2>3
      <4> HIDE DEF Bad
      <4> QED
        BY <2>1, <4>1
    <3> HIDE DEF Below
    <3> QED
      BY <3>1
  <2>4. ASSUME NEW x \in ToSet(walk[b])
        PROVE  \E c \in DOMAIN g.blocks : c >= b /\ x \in ToSet(g.blocks[c].ops)
    <3>1. PICK o \in ToSet(g.blocks[b].ops) :
            x = o \/ \E r \in ToSet(g.ops[o].regions) : x \in ToSet(walk[r])
      BY <2>2, <2>4, WalkOf
    <3>2. CASE x = o
      BY <1>1, <2>2, <3>1, <3>2
    <3>3. ASSUME NEW r \in ToSet(g.ops[o].regions), x \in ToSet(walk[r])
          PROVE  \E c \in DOMAIN g.blocks : c >= b /\ x \in ToSet(g.blocks[c].ops)
      <4>1. r > b /\ r \in DOMAIN g.blocks
        <5>1. o \in DOMAIN g.ops
          BY <2>2, <3>1 DEF IsTree
        <5>2. g.ops[o].regions \in Seq(DOMAIN g.blocks)
          BY <5>1 DEF IsTree
        <5>3. r > b
          BY <2>2, <3>1, <3>3 DEF IsTree
        <5>4. r \in DOMAIN g.blocks
          BY <3>3, <5>2 DEF ToSet
        <5> QED
          BY <5>3, <5>4
      <4>2. PICK c \in DOMAIN g.blocks : c >= r /\ x \in ToSet(g.blocks[c].ops)
        BY <2>3, <3>3, <4>1
      <4> QED
        BY <1>1, <2>2, <4>1, <4>2
    <3> QED
      BY <3>1, <3>2, <3>3
  <2> QED
    BY <2>2, <2>4
<1> QED
  BY <1>2

\* An operation stands in one block, with regions in blocks behind it, and a region
\* has one operation.
LEMMA OneHome ==
  ASSUME NEW g, IsTree(g), Regular(g)
  PROVE  /\ \A b, c \in DOMAIN g.blocks : \A o \in ToSet(g.blocks[b].ops) :
              o \in ToSet(g.blocks[c].ops) => b = c
         /\ \A b \in DOMAIN g.blocks : \A o \in ToSet(g.blocks[b].ops) :
              /\ o \in DOMAIN g.ops
              /\ \A r \in ToSet(g.ops[o].regions) : r > b /\ r \in DOMAIN g.blocks
         /\ \A o, p \in DOMAIN g.ops : \A r \in ToSet(g.ops[o].regions) :
              r \in ToSet(g.ops[p].regions) => o = p
PROOF
<1>1. \A b, c \in DOMAIN g.blocks : \A o \in ToSet(g.blocks[b].ops) :
        o \in ToSet(g.blocks[c].ops) => b = c
  BY DEF IsTree
<1>2. \A b \in DOMAIN g.blocks : \A o \in ToSet(g.blocks[b].ops) :
        o \in DOMAIN g.ops /\ \A r \in ToSet(g.ops[o].regions) : r > b
  BY DEF IsTree
<1>3. \A o \in DOMAIN g.ops : \A r \in ToSet(g.ops[o].regions) : r \in DOMAIN g.blocks
  <2> SUFFICES ASSUME NEW o \in DOMAIN g.ops, NEW r \in ToSet(g.ops[o].regions)
               PROVE  r \in DOMAIN g.blocks
    OBVIOUS
  <2>1. g.ops[o].regions \in Seq(DOMAIN g.blocks)
    BY DEF IsTree
  <2> QED
    BY <2>1 DEF ToSet
<1>4. \A o, p \in DOMAIN g.ops : \A r \in ToSet(g.ops[o].regions) :
        r \in ToSet(g.ops[p].regions) => o = p
  BY DEF Regular
<1> QED
  BY <1>1, <1>2, <1>3, <1>4

\* Of two blocks whose walks meet the same operation, the one with the larger
\* number is nested under the other.
Nested(g, b, c) ==
  \E h \in DOMAIN g.blocks : h >= b /\ \E p \in ToSet(g.blocks[h].ops) : c \in ToSet(g.ops[p].regions)

\* Otherwise the walks have nothing in common.
LEMMA WalksNested ==
  ASSUME NEW g, IsTree(g), Regular(g), NEW S, NEW T, NEW walk, Walking(g, S, T, walk)
  PROVE  \A b \in DOMAIN g.blocks : \A c \in DOMAIN g.blocks :
           b < c => ToSet(walk[b]) \cap ToSet(walk[c]) = {} \/ Nested(g, b, c)
PROOF
<1> DEFINE N == Len(g.blocks)
           Good(b) == \A c \in DOMAIN g.blocks :
                        b < c => ToSet(walk[b]) \cap ToSet(walk[c]) = {} \/ Nested(g, b, c)
           Bad == {b \in DOMAIN g.blocks : ~Good(b)}
<1>1. N \in Nat /\ DOMAIN g.blocks = 1 .. N
  BY DEF IsTree
<1>2. Bad = {}
  <2> SUFFICES ASSUME Bad # {} PROVE FALSE
    OBVIOUS
  <2>1. PICK b \in Bad : \A c \in Bad : c <= b
    <3>1. Bad \in SUBSET (0 .. N)
      BY <1>1
    <3> HIDE DEF Bad
    <3> QED
      BY <1>1, <3>1, Greatest
  <2>2. b \in DOMAIN g.blocks /\ ~Good(b)
    BY <2>1
  <2>3. ASSUME NEW r \in DOMAIN g.blocks, r > b PROVE Good(r)
    <3>1. r \notin Bad
      <4>1. b \in Nat /\ r \in Nat /\ ~(r <= b)
        BY <1>1, <2>1, <2>3
      <4> HIDE DEF Bad
      <4> QED
        BY <2>1, <4>1
    <3> HIDE DEF Good
    <3> QED
      BY <3>1
  <2>4. PICK c \in DOMAIN g.blocks :
          b < c /\ ToSet(walk[b]) \cap ToSet(walk[c]) # {} /\ ~Nested(g, b, c)
    BY <2>2
  <2>5. PICK x \in ToSet(walk[b]) : x \in ToSet(walk[c])
    BY <2>4
  <2>6. PICK o \in ToSet(g.blocks[b].ops) :
          x = o \/ \E r \in ToSet(g.ops[o].regions) : x \in ToSet(walk[r])
    BY <2>2, <2>5, WalkOf
  <2>7. b \in Nat /\ c \in Nat
    BY <1>1, <2>2
  <2> HIDE DEF Good, Bad, N
  <2>8. x # o
    <3>1. PICK d \in DOMAIN g.blocks : d >= c /\ x \in ToSet(g.blocks[d].ops)
      BY <2>5, WalkBelow
    <3>2. d # b
      BY <1>1, <2>4, <2>7, <3>1
    <3> QED
      BY <2>2, <3>1, <3>2, OneHome
  <2>9. PICK r \in ToSet(g.ops[o].regions) : x \in ToSet(walk[r])
    BY <2>6, <2>8
  <2>10. o \in DOMAIN g.ops /\ r > b /\ r \in DOMAIN g.blocks /\ r \in Nat
    BY <1>1, <2>2, <2>9, OneHome
  <2>11. CASE r = c
    <3>1. b >= b /\ c \in ToSet(g.ops[o].regions)
      BY <2>7, <2>9, <2>11
    <3>2. Nested(g, b, c)
      BY <2>2, <2>6, <3>1 DEF Nested
    <3> QED
      BY <2>4, <3>2
  <2>12. CASE r < c
    <3>1. Nested(g, r, c)
      BY <2>3, <2>5, <2>9, <2>10, <2>12 DEF Good
    <3>2. PICK h \in DOMAIN g.blocks : h >= r /\ \E p \in ToSet(g.blocks[h].ops) : c \in ToSet(g.ops[p].regions)
      BY <3>1 DEF Nested
    <3>3. h >= b
      BY <1>1, <2>7, <2>10, <3>2
    <3>4. Nested(g, b, c)
      BY <3>2, <3>3 DEF Nested
    <3> QED
      BY <2>4, <3>4
  <2>13. CASE r > c
    <3>1. Nested(g, c, r)
      <4>1. Good(c)
        BY <2>3, <2>4, <2>7
      <4>2. c < r
        BY <2>7, <2>10, <2>13
      <4> QED
        BY <2>5, <2>9, <2>10, <4>1, <4>2 DEF Good
    <3>2. PICK h \in DOMAIN g.blocks : h >= c /\ \E p \in ToSet(g.blocks[h].ops) : r \in ToSet(g.ops[p].regions)
      BY <3>1 DEF Nested
    <3>3. PICK p \in ToSet(g.blocks[h].ops) : r \in ToSet(g.ops[p].regions)
      BY <3>2
    <3>4. p \in DOMAIN g.ops
      BY <3>2, <3>3, OneHome
    <3>5. p = o
      BY <2>9, <2>10, <3>3, <3>4, OneHome
    <3>6. h = b
      BY <2>2, <2>6, <3>2, <3>3, <3>5, OneHome
    <3> QED
      BY <2>4, <2>7, <3>2, <3>6
  <2> QED
    BY <2>7, <2>10, <2>11, <2>12, <2>13
<1> HIDE DEF Bad
<1>3. ASSUME NEW b \in DOMAIN g.blocks PROVE Good(b)
  BY <1>2 DEF Bad
<1> QED
  BY <1>3

\* The walks of two regions whose operations stand in one block meet nothing twice.
LEMMA SiblingsApart ==
  ASSUME NEW g, IsTree(g), Regular(g), NEW S, NEW T, NEW walk, Walking(g, S, T, walk),
         NEW b \in DOMAIN g.blocks, NEW o \in ToSet(g.blocks[b].ops), NEW p \in ToSet(g.blocks[b].ops),
         NEW q \in ToSet(g.ops[o].regions), NEW r \in ToSet(g.ops[p].regions), q # r
  PROVE  ToSet(walk[q]) \cap ToSet(walk[r]) = {}
PROOF
<1>1. DOMAIN g.blocks \subseteq Nat
  BY DEF IsTree
<1>2. q \in DOMAIN g.blocks /\ r \in DOMAIN g.blocks /\ q > b /\ r > b
  BY OneHome
<1>3. ASSUME NEW u \in ToSet(g.blocks[b].ops), NEW v \in ToSet(g.ops[u].regions),
             NEW c \in DOMAIN g.blocks, c > b, Nested(g, c, v)
      PROVE  FALSE
  <2>1. PICK h \in DOMAIN g.blocks : h >= c /\ \E w \in ToSet(g.blocks[h].ops) : v \in ToSet(g.ops[w].regions)
    BY <1>3 DEF Nested
  <2>2. PICK w \in ToSet(g.blocks[h].ops) : v \in ToSet(g.ops[w].regions)
    BY <2>1
  <2>3. w \in DOMAIN g.ops /\ u \in DOMAIN g.ops
    BY <2>1, <2>2, OneHome
  <2>4. w = u
    BY <2>2, <2>3, OneHome
  <2>5. h = b
    BY <2>1, <2>2, <2>4, OneHome
  <2> QED
    BY <1>1, <1>3, <2>1, <2>5
<1>4. CASE q < r
  BY <1>2, <1>3, <1>4, WalksNested
<1>5. CASE r < q
  BY <1>2, <1>3, <1>5, WalksNested
<1> QED
  BY <1>1, <1>2, <1>4, <1>5

\* What an operation adds to the walk of its block is met once, if what is in its
\* regions is.
LEMMA VisitOnce ==
  ASSUME NEW g, IsTree(g), Regular(g), NEW S, NEW T, S \cap T = {}, NEW walk, Walking(g, S, T, walk),
         NEW b \in DOMAIN g.blocks, NEW o \in ToSet(g.blocks[b].ops),
         \A r \in ToSet(g.ops[o].regions) : IsInjective(walk[r])
  PROVE  IsInjective(VisitOp(g, S, T, walk, o))
PROOF
<1> DEFINE Q == S \cup T
           inner == Inner(g, walk, o)
           whole == FlattenSeq(inner)
           first == IF o \in S THEN <<o>> ELSE << >>
           last == IF o \in T THEN <<o>> ELSE << >>
           regions == g.ops[o].regions
<1>1. \A c \in DOMAIN g.blocks : walk[c] \in Seq(Q)
  BY WalkType
<1>2. inner \in Seq(Seq(Q))
  BY <1>1, VisitType
<1>3. VisitOp(g, S, T, walk, o) = (first \o whole) \o last
  BY DEF VisitOp, Inner
<1>4. first \in Seq(Q) /\ last \in Seq(Q)
  <2>1. o \in Q => <<o>> \in Seq(Q)
    OBVIOUS
  <2>2. << >> \in Seq(Q)
    OBVIOUS
  <2> QED
    BY <2>1, <2>2
<1>5. ToSet(first) \subseteq {o} /\ ToSet(last) \subseteq {o} /\ ToSet(first) \cap ToSet(last) = {}
  <2>1. ToSet(<<o>>) = {o} /\ ToSet(<< >>) = {}
    BY DEF ToSet
  <2> QED
    BY <2>1
<1>6. IsInjective(first) /\ IsInjective(last)
  <2>1. IsInjective(<<o>>) /\ IsInjective(<< >>)
    BY DEF IsInjective
  <2> QED
    BY <2>1
<1>7. \A k \in DOMAIN inner : inner[k] = walk[regions[k]] /\ regions[k] \in ToSet(regions)
                              /\ k \in DOMAIN regions
  BY DEF Inner, ToSet
<1>8. IsInjective(regions)
  BY OneHome DEF Regular
<1> HIDE DEF Q, inner, first, last, whole
<1>9. \A k \in 1 .. Len(inner) : k \in DOMAIN inner
  BY <1>2
<1>10. Apart(inner)
  <2> SUFFICES ASSUME NEW j \in 1 .. Len(inner), NEW k \in 1 .. Len(inner), j # k
               PROVE  ToSet(inner[j]) \cap ToSet(inner[k]) = {}
    BY DEF Apart
  <2>1. regions[j] # regions[k]
    BY <1>7, <1>8, <1>9 DEF IsInjective
  <2>2. ToSet(walk[regions[j]]) \cap ToSet(walk[regions[k]]) = {}
    BY <1>7, <1>9, <2>1, SiblingsApart
  <2> QED
    BY <1>7, <1>9, <2>2
<1>11. \A k \in 1 .. Len(inner) : IsInjective(inner[k])
  BY <1>7, <1>9
<1>12. whole \in Seq(Q) /\ IsInjective(whole)
  BY <1>2, <1>10, <1>11, FlattenSeqType, FlattenSeqParts DEF whole
<1>13. o \notin ToSet(whole)
  <2> SUFFICES ASSUME o \in ToSet(whole) PROVE FALSE
    OBVIOUS
  <2>1. PICK k \in 1 .. Len(inner) : o \in ToSet(inner[k])
    BY <1>2, FlattenSeqParts DEF whole
  <2> DEFINE r == regions[k]
  <2>2. o \in ToSet(walk[r]) /\ r \in ToSet(regions)
    BY <1>7, <1>9, <2>1
  <2> HIDE DEF r
  <2>3. r > b /\ r \in DOMAIN g.blocks
    BY <2>2, OneHome
  <2>4. PICK c \in DOMAIN g.blocks : c >= r /\ o \in ToSet(g.blocks[c].ops)
    BY <2>2, <2>3, WalkBelow
  <2>5. c = b
    BY <2>4, OneHome
  <2>6. DOMAIN g.blocks \subseteq Nat
    BY DEF IsTree
  <2> QED
    BY <2>3, <2>4, <2>5, <2>6
<1> DEFINE front == first \o whole
<1>14. front \in Seq(Q) /\ IsInjective(front)
  <2>1. ToSet(first) \cap ToSet(whole) = {}
    BY <1>5, <1>13
  <2> QED
    BY <1>4, <1>6, <1>12, <2>1, InjectiveConcat
<1>15. ToSet(front) = ToSet(first) \cup ToSet(whole)
  BY <1>4, <1>12, ToSetConcat
<1> HIDE DEF front
<1>16. IsInjective(front \o last)
  <2>1. ToSet(front) \cap ToSet(last) = {}
    BY <1>5, <1>13, <1>15
  <2> QED
    BY <1>4, <1>6, <1>14, <2>1, InjectiveConcat
<1> QED
  BY <1>3, <1>16 DEF front

\* What two operations of a block add has nothing in common.
LEMMA VisitsApart ==
  ASSUME NEW g, IsTree(g), Regular(g), NEW S, NEW T, NEW walk, Walking(g, S, T, walk),
         NEW b \in DOMAIN g.blocks, NEW o \in ToSet(g.blocks[b].ops), NEW p \in ToSet(g.blocks[b].ops),
         o # p
  PROVE  ToSet(VisitOp(g, S, T, walk, o)) \cap ToSet(VisitOp(g, S, T, walk, p)) = {}
PROOF
<1> SUFFICES ASSUME NEW x \in ToSet(VisitOp(g, S, T, walk, o)), x \in ToSet(VisitOp(g, S, T, walk, p))
             PROVE  FALSE
  OBVIOUS
<1>1. x = o \/ \E r \in ToSet(g.ops[o].regions) : x \in ToSet(walk[r])
  BY WalkMeets
<1>2. x = p \/ \E r \in ToSet(g.ops[p].regions) : x \in ToSet(walk[r])
  BY WalkMeets
<1>3. ASSUME NEW u \in ToSet(g.blocks[b].ops), NEW v \in ToSet(g.blocks[b].ops),
             NEW r \in ToSet(g.ops[v].regions), u \in ToSet(walk[r])
      PROVE  FALSE
  <2>1. r > b /\ r \in DOMAIN g.blocks
    BY <1>3, OneHome
  <2>2. PICK c \in DOMAIN g.blocks : c >= r /\ u \in ToSet(g.blocks[c].ops)
    BY <1>3, <2>1, WalkBelow
  <2>3. c = b
    BY <1>3, <2>2, OneHome
  <2>4. DOMAIN g.blocks \subseteq Nat
    BY DEF IsTree
  <2> QED
    BY <2>1, <2>2, <2>3, <2>4
<1>4. ASSUME NEW q \in ToSet(g.ops[o].regions), NEW r \in ToSet(g.ops[p].regions),
             x \in ToSet(walk[q]), x \in ToSet(walk[r])
      PROVE  FALSE
  <2>1. q # r
    BY <1>4, OneHome
  <2>2. ToSet(walk[q]) \cap ToSet(walk[r]) = {}
    BY <1>4, <2>1, SiblingsApart
  <2> QED
    BY <1>4, <2>2
<1> QED
  BY <1>1, <1>2, <1>3, <1>4

\* The walk of the function meets an operation once (a loop is collected once).
LEMMA WalkOnce ==
  ASSUME NEW g, IsTree(g), Regular(g), NEW S, NEW T, S \cap T = {}
  PROVE  IsInjective(Walk(g, S, T))
PROOF
<1> DEFINE walk == CHOOSE f : f = [b \in DOMAIN g.blocks |-> VisitBlock(g, S, T, f, b)]
           N == Len(g.blocks)
           Bad == {b \in DOMAIN g.blocks : ~IsInjective(walk[b])}
<1>1. Walk(g, S, T) = walk[1]
  BY Zenon DEF Walk
<1>2. Walking(g, S, T, walk)
  BY WalkExists DEF Walking
<1> HIDE DEF walk
<1>3. N \in Nat /\ DOMAIN g.blocks = 1 .. N /\ 1 \in DOMAIN g.blocks
  <2>1. g.blocks \in Seq(Blocks) /\ g.blocks # << >>
    BY DEF IsTree
  <2> QED
    BY <2>1
<1>4. \A c \in DOMAIN g.blocks : walk[c] \in Seq(S \cup T)
  BY <1>2, WalkType
<1>5. Bad = {}
  <2> SUFFICES ASSUME Bad # {} PROVE FALSE
    OBVIOUS
  <2>1. PICK b \in Bad : \A c \in Bad : c <= b
    <3>1. Bad \in SUBSET (0 .. N)
      BY <1>3
    <3> HIDE DEF Bad
    <3> QED
      BY <1>3, <3>1, Greatest
  <2>2. b \in DOMAIN g.blocks /\ ~IsInjective(walk[b])
    BY <2>1
  <2>3. ASSUME NEW r \in DOMAIN g.blocks, r > b PROVE IsInjective(walk[r])
    <3>1. r \notin Bad
      <4>1. b \in Nat /\ r \in Nat /\ ~(r <= b)
        BY <1>3, <2>1, <2>3
      <4> HIDE DEF Bad
      <4> QED
        BY <2>1, <4>1
    <3> QED
      BY <3>1
  <2> HIDE DEF Bad
  <2> DEFINE ops == g.blocks[b].ops
             pieces == Pieces(g, S, T, walk, b)
  <2>4. pieces \in Seq(Seq(S \cup T))
    BY <1>2, <1>4, <2>2, VisitType
  <2>5. walk[b] = FlattenSeq(pieces)
    BY <1>2, <2>2, Zenon DEF Walking, VisitBlock, Pieces
  <2>6. \A k \in DOMAIN pieces : /\ pieces[k] = VisitOp(g, S, T, walk, ops[k])
                                 /\ ops[k] \in ToSet(ops) /\ k \in DOMAIN ops
    BY DEF Pieces, ToSet
  <2>7. IsInjective(ops)
    BY <2>2 DEF IsTree
  <2> HIDE DEF pieces
  <2>8. \A k \in 1 .. Len(pieces) : k \in DOMAIN pieces
    BY <2>4
  <2>9. ASSUME NEW k \in 1 .. Len(pieces) PROVE IsInjective(pieces[k])
    <3>1. \A r \in ToSet(g.ops[ops[k]].regions) : IsInjective(walk[r])
      BY <2>2, <2>3, <2>6, <2>8, OneHome
    <3>2. IsInjective(VisitOp(g, S, T, walk, ops[k]))
      BY <1>2, <2>2, <2>6, <2>8, <3>1, VisitOnce
    <3> QED
      BY <2>6, <2>8, <3>2
  <2>10. Apart(pieces)
    <3> SUFFICES ASSUME NEW j \in 1 .. Len(pieces), NEW k \in 1 .. Len(pieces), j # k
                 PROVE  ToSet(pieces[j]) \cap ToSet(pieces[k]) = {}
      BY DEF Apart
    <3>1. ops[j] # ops[k]
      BY <2>6, <2>7, <2>8 DEF IsInjective
    <3>2. ToSet(VisitOp(g, S, T, walk, ops[j])) \cap ToSet(VisitOp(g, S, T, walk, ops[k])) = {}
      BY <1>2, <2>2, <2>6, <2>8, <3>1, VisitsApart
    <3> QED
      BY <2>6, <2>8, <3>2
  <2>11. IsInjective(walk[b])
    BY <2>4, <2>5, <2>9, <2>10, FlattenSeqParts
  <2> QED
    BY <2>2, <2>11
<1> QED
  BY <1>1, <1>3, <1>5

-----------------------------------------------------------------------------
\* The loops that are still to be rewritten are collected once each, or the one
\* that is rewritten and erased would come again.
WInv ==
  /\ WellFormed
  /\ forOps \in Seq(Nat) /\ IsInjective(forOps)
  /\ stage = "lower" => forOps = << >>

\* The functions verify, and no loop is collected.
LEMMA WInvInit == Init => WInv
PROOF
<1> SUFFICES ASSUME Init PROVE WInv
  OBVIOUS
<1>1. << >> \in Seq(Nat) /\ IsInjective(<< >>) /\ ToSet(<< >>) = {}
  BY DEF IsInjective, ToSet
<1>2. Valid(ir) /\ forOps = << >>
  BY ProgramsAssumption DEF Init
<1> QED
  BY <1>1, <1>2 DEF WInv, WellFormed

\* A lowered operation leaves a function that verifies.
LEMMA WInvLower ==
  ASSUME WInv, LowerOp
  PROVE  WInv'
PROOF
<1> DEFINE S == {o \in DOMAIN ir.ops : ir.ops[o].kind \in Colgm}
           o == Head(Todo(ir))
<1>1. stage = "lower" /\ Valid(ir) /\ forOps = << >> /\ forOps' = << >> /\ Todo(ir) # << >>
  BY DEF WInv, WellFormed, LowerOp
<1>2. Todo(ir) \in Seq(S)
  <2>1. Walk(ir, S, {}) \in Seq(S \cup {})
    BY <1>1, WalkTakesAll DEF Valid
  <2>2. S \cup {} = S
    OBVIOUS
  <2> QED
    BY <2>1, <2>2 DEF Todo
<1>3. o \in S
  BY <1>1, <1>2
<1> HIDE DEF o
<1>4. Valid(ir')
  <2>1. CASE Lowered(ir, o) = << >>
    <3>1. ir' = ir
      BY <2>1 DEF LowerOp, o
    <3> QED
      BY <1>1, <3>1
  <2>2. CASE Lowered(ir, o) # << >>
    <3>1. ir' = Lowered(ir, o)[1]
      BY <2>2 DEF LowerOp, o
    <3>2. Valid(Lowered(ir, o)[1])
      BY <1>1, <1>3, <2>2, LoweredValid
    <3> QED
      BY <3>1, <3>2
  <2> QED
    BY <2>1, <2>2
<1>5. << >> \in Seq(Nat) /\ IsInjective(<< >>) /\ ToSet(<< >>) = {}
  BY DEF IsInjective, ToSet
<1>6. Valid(ir)'
  BY <1>4
<1>7. ToSet(forOps)' \subseteq Loops(ir)'
  BY <1>1, <1>5
<1>8. WellFormed'
  BY <1>6, <1>7 DEF WellFormed
<1> QED
  BY <1>1, <1>5, <1>8 DEF WInv

\* The loops are collected once each.
LEMMA WInvCollect ==
  ASSUME WInv, CollectLoops
  PROVE  WInv'
PROOF
<1>1. Valid(ir) /\ ir' = ir /\ forOps' = Collected(ir) /\ stage' = "rewrite"
  BY DEF WInv, WellFormed, CollectLoops
<1>2. IsTree(ir) /\ Regular(ir)
  BY <1>1 DEF Valid
<1>3. Loops(ir) \subseteq DOMAIN ir.ops /\ DOMAIN ir.ops \subseteq Nat
  BY <1>2 DEF Loops, IsTree
<1>4. Collected(ir) \in Seq({} \cup Loops(ir))
  BY <1>2, <1>3, WalkTakesAll DEF Collected
<1>5. IsInjective(Collected(ir))
  <2>1. {} \cap Loops(ir) = {}
    OBVIOUS
  <2> QED
    BY <1>2, <2>1, WalkOnce DEF Collected
<1>6. Collected(ir) \in Seq(Nat) /\ ToSet(Collected(ir)) \subseteq Loops(ir)
  <2>1. Collected(ir) \in Seq(Loops(ir))
    BY <1>4
  <2> QED
    BY <1>3, <2>1 DEF ToSet
<1>7. Valid(ir)' /\ Loops(ir)' = Loops(ir)
  BY <1>1
<1>8. WellFormed'
  BY <1>1, <1>6, <1>7 DEF WellFormed
<1> QED
  BY <1>1, <1>5, <1>6, <1>8 DEF WInv

\* So does a rewritten loop, which is not among those still to come.
LEMMA WInvRewrite ==
  ASSUME WInv, RewriteForOp
  PROVE  WInv'
PROOF
<1> DEFINE f == Head(forOps)
<1>1. /\ Valid(ir) /\ stage = "rewrite" /\ stage' = stage /\ forOps # << >> /\ forOps' = Tail(forOps)
      /\ forOps \in Seq(Nat) /\ IsInjective(forOps) /\ ToSet(forOps) \subseteq Loops(ir)
  BY DEF WInv, WellFormed, RewriteForOp
<1>2. DOMAIN forOps = 1 .. Len(forOps) /\ Len(forOps) \in Nat /\ f = forOps[1] /\ 1 \in DOMAIN forOps
  BY <1>1
<1>3. f \in Loops(ir)
  BY <1>1, <1>2 DEF ToSet
<1>4. Tail(forOps) \in Seq(Nat) /\ \A k \in DOMAIN Tail(forOps) :
        Tail(forOps)[k] = forOps[k + 1] /\ k + 1 \in DOMAIN forOps /\ k + 1 # 1 /\ k \in Nat
  BY <1>1, <1>2
<1>5. IsInjective(Tail(forOps))
  <2> SUFFICES ASSUME NEW j \in DOMAIN Tail(forOps), NEW k \in DOMAIN Tail(forOps),
                      Tail(forOps)[j] = Tail(forOps)[k]
               PROVE  j = k
    BY DEF IsInjective
  <2>1. j + 1 = k + 1
    BY <1>1, <1>4 DEF IsInjective
  <2> QED
    BY <1>4, <2>1
<1>6. ToSet(Tail(forOps)) \subseteq ToSet(forOps) \ {f}
  <2> SUFFICES ASSUME NEW k \in DOMAIN Tail(forOps)
               PROVE  Tail(forOps)[k] \in ToSet(forOps) /\ Tail(forOps)[k] # f
    BY DEF ToSet
  <2>1. Tail(forOps)[k] = forOps[k + 1] /\ k + 1 \in DOMAIN forOps /\ k + 1 # 1
    BY <1>4
  <2> QED
    BY <1>1, <1>2, <2>1 DEF IsInjective, ToSet
<1> HIDE DEF f
<1>7. Valid(ir') /\ Loops(ir) \ {f} \subseteq Loops(ir')
  <2>1. CASE hasRank0TensorIterArg(ir, f)
    <3>1. ir' = rewriteForOp(ir, f)
      BY <2>1 DEF RewriteForOp, f
    <3>2. Valid(rewriteForOp(ir, f)) /\ Loops(ir) \ {f} \subseteq Loops(rewriteForOp(ir, f))
      BY <1>1, <1>3, RewrittenValid, SparesLoops
    <3> QED
      BY <3>1, <3>2
  <2>2. CASE ~hasRank0TensorIterArg(ir, f)
    <3>1. ir' = ir
      BY <2>2 DEF RewriteForOp, f
    <3>2. Valid(ir') /\ Loops(ir') = Loops(ir)
      BY <1>1, <3>1
    <3> QED
      BY <3>2
  <2> QED
    BY <2>1, <2>2
<1>8. Valid(ir)' /\ Loops(ir) \ {f} \subseteq Loops(ir)'
  BY <1>7
<1>9. WellFormed'
  BY <1>1, <1>6, <1>8 DEF WellFormed
<1> QED
  BY <1>1, <1>4, <1>5, <1>9 DEF WInv

\* Whatever the functions are, if they verify they verify after every step of the
\* lowering and of the rank-0 pass: nothing uses a value that is not there, out of
\* sight or of another type, and no loop is rewritten after it was erased
\* (lowering.cpp, scf_for_rank0_scalar.cpp).
THEOREM StaysWellFormed == Spec => []WellFormed
PROOF
<1>1. Init => WInv
  BY WInvInit
<1>2. WInv /\ [Next]_vars => WInv'
  <2> SUFFICES ASSUME WInv, [Next]_vars PROVE WInv'
    OBVIOUS
  <2>1. CASE LowerOp
    BY <2>1, WInvLower
  <2>2. CASE CollectLoops
    BY <2>2, WInvCollect
  <2>3. CASE RewriteForOp
    BY <2>3, WInvRewrite
  <2>4. CASE UNCHANGED vars
    <3>1. ir' = ir /\ stage' = stage /\ forOps' = forOps
      BY <2>4 DEF vars
    <3>2. (Valid(ir)' <=> Valid(ir)) /\ Loops(ir)' = Loops(ir)
      BY <3>1
    <3>3. WellFormed' <=> WellFormed
      BY <3>1, <3>2 DEF WellFormed
    <3> QED
      BY <3>1, <3>3 DEF WInv
  <2> QED
    BY <2>1, <2>2, <2>3, <2>4 DEF Next
<1>3. WInv => WellFormed
  BY DEF WInv
<1> QED
  BY <1>1, <1>2, <1>3, PTL DEF Spec

=============================================================================
