------------------------------- MODULE Loops --------------------------------
(***************************************************************************)
(* The structure of a function below the dialect: the lowering of          *)
(* constant, cast, yield, if and for (src/dialect/pass/lowering.cpp), and  *)
(* the pass that makes the rank-0 tensors a loop carries scalars           *)
(* (scf_for_rank0_scalar.cpp).                                             *)
(*                                                                         *)
(* A function is a graph: operations have operands, types of results and   *)
(* regions of one block; a block has types of arguments and its operations *)
(* in order.  Ids from next on are free.  Block 1 is the function's body.  *)
(* Operations on tensors have been lowered (Lowering); the                 *)
(* canonicalization between the passes is MLIR's and not modelled.         *)
(***************************************************************************)
EXTENDS Integers, SequencesExt

CONSTANT Programs  \* functions as they are after code generation

Ints == {"i1", "i32", "i64"}
Floats == {"f32", "f64"}

\* rank is -1 for what is not a tensor.
Ty(elem, rank) == [elem |-> elem, rank |-> rank]
Index == Ty("index", -1)
Bit == Ty("i1", -1)
ElementType(t) == Ty(t.elem, -1)
IsTensor(t) == t.rank >= 0

Op(kind, args, types) ==
  [kind |-> kind, args |-> args, types |-> types, regions |-> << >>, value |-> 0]
WithArgs(op, args) ==
  [kind |-> op.kind, args |-> args, types |-> op.types, regions |-> op.regions, value |-> op.value]
OpResult(o, i) == <<"op", o, i>>
Argument(b, i) == <<"block", b, i>>
ValueType(g, v) ==
  IF v[1] = "op" THEN g.ops[v[2]].types[v[3]] ELSE g.blocks[v[2]].types[v[3]]

Colgm == {"colgm.constant", "colgm.cast", "colgm.yield", "colgm.if", "colgm.for"}

VARIABLES
  source,  \* the function as it was
  ir,
  stage,   \* "lower", "failed" or "rewrite"
  forOps   \* the loops that runOnOperation collected and has not come to

vars == <<source, ir, stage, forOps>>

-----------------------------------------------------------------------------
(* Graphs. *)

BlockOf(g, o) == CHOOSE b \in DOMAIN g.blocks : o \in ToSet(g.blocks[b].ops)

\* (TLC's @@ , which the provers do not know.)
Joined(f, h) == [x \in DOMAIN f \cup DOMAIN h |-> IF x \in DOMAIN f THEN f[x] ELSE h[x]]

\* by gives new values for some.
Rename(by, v) == IF v \in DOMAIN by THEN by[v] ELSE v
Renamed(args, by) == [j \in DOMAIN args |-> Rename(by, args[j])]

\* What stands in the block at o is now seq.
Around(ops, o, seq) ==
  LET at == CHOOSE k \in DOMAIN ops : ops[k] = o IN
  SubSeq(ops, 1, at - 1) \o seq \o SubSeq(ops, at + 1, Len(ops))

\* replaceOp: the operations new, with the next ids, in the place of o, and
\* values for its results.
replaceOp(g, o, new, values) ==
  LET n == g.next
      ids == [i \in DOMAIN new |-> n + i - 1]
      by == [v \in {OpResult(o, i) : i \in DOMAIN values} |-> values[v[3]]]
      op(p) == IF p < n THEN g.ops[p] ELSE new[p - n + 1]
  IN  [next |-> n + Len(new),
       ops |-> [p \in (DOMAIN g.ops \ {o}) \cup ToSet(ids) |->
                  WithArgs(op(p), Renamed(op(p).args, by))],
       blocks |-> [g.blocks EXCEPT ![BlockOf(g, o)].ops = Around(@, o, ids)]]

\* What a function is: operations stand once each in blocks, which are nested
\* under the first one and have their numbers from the outside in; casts have no
\* regions.
Type == [elem : Ints \cup Floats \cup {"index"}, rank : {-1} \cup Nat]
Blocks == [types : Seq(Type), ops : Seq(Nat)]

IsTree(g) ==
  /\ g.next \in Nat /\ DOMAIN g.ops \subseteq 1 .. g.next - 1
  /\ g.blocks \in Seq(Blocks) /\ g.blocks # << >>
  /\ \A o \in DOMAIN g.ops :
       /\ g.ops[o] = WithArgs(g.ops[o], g.ops[o].args)
       /\ g.ops[o].regions \in Seq(DOMAIN g.blocks)
       /\ g.ops[o].kind = "colgm.cast" => g.ops[o].regions = << >>
       /\ \E b \in DOMAIN g.blocks : o \in ToSet(g.blocks[b].ops)
  /\ \A b \in DOMAIN g.blocks :
       /\ ToSet(g.blocks[b].ops) \subseteq DOMAIN g.ops /\ IsInjective(g.blocks[b].ops)
       /\ \A c \in DOMAIN g.blocks \ {b} : ToSet(g.blocks[b].ops) \cap ToSet(g.blocks[c].ops) = {}
       /\ \A o \in ToSet(g.blocks[b].ops) : \A r \in ToSet(g.ops[o].regions) : r > b
       /\ b # 1 => \E o \in DOMAIN g.ops : b \in ToSet(g.ops[o].regions)

-----------------------------------------------------------------------------
(* The verifier of cast. *)

is_valid_cast(src, dst) ==
  \/ src = dst
  \/ {src, dst} \subseteq Ints \cup Floats
  \/ {src, dst} \cap {"index"} # {} /\ {src, dst} \cap Ints # {}

\* Tensors of one shape, or a scalar and a tensor of rank 0.
cast_verify(src, dst) ==
  /\ IF IsTensor(src) = IsTensor(dst) THEN src.rank = dst.rank
     ELSE src.rank <= 0 /\ dst.rank <= 0
  /\ is_valid_cast(src.elem, dst.elem)

-----------------------------------------------------------------------------
(* What MLIR's verifier accepts. *)

\* A block ends with its terminator and has no other; a region has one owner; a
\* loop has one region, an if has two.  (While the conversion is under way the
\* operation and the yield may be of different dialects.)
Terminators == {"colgm.yield", "scf.yield", "func.return"}
RegionCount(kind) ==
  CASE kind \in {"colgm.for", "scf.for"} -> 1 [] kind \in {"colgm.if", "scf.if"} -> 2 [] OTHER -> 0

Regular(g) ==
  /\ \A o \in DOMAIN g.ops :
       /\ Len(g.ops[o].regions) = RegionCount(g.ops[o].kind)
       /\ IsInjective(g.ops[o].regions)
       /\ \A p \in DOMAIN g.ops \ {o} : ToSet(g.ops[o].regions) \cap ToSet(g.ops[p].regions) = {}
  /\ \A b \in DOMAIN g.blocks :
       /\ g.blocks[b].ops # << >>
       /\ \A o \in ToSet(g.blocks[b].ops) :
            g.ops[o].kind \in Terminators <=> o = Last(g.blocks[b].ops)

\* A block sees its arguments, and what the operation around it does.
Arguments(g, b) == {Argument(b, i) : i \in DOMAIN g.blocks[b].types}
Results(g, o) == {OpResult(o, i) : i \in DOMAIN g.ops[o].types}

Precedes(ops, p, o) == \E j, k \in DOMAIN ops : j < k /\ ops[j] = p /\ ops[k] = o
Before(g, b, o) ==
  UNION {Results(g, p) : p \in {q \in ToSet(g.blocks[b].ops) : Precedes(g.blocks[b].ops, q, o)}}

Owner(g, b) == CHOOSE o \in DOMAIN g.ops : b \in ToSet(g.ops[o].regions)
Sight(g, sight, b) ==
  Arguments(g, b)
  \cup IF b = 1 THEN {}
       ELSE LET c == BlockOf(g, Owner(g, b)) IN sight[c] \cup Before(g, c, Owner(g, b))
Visible(g) == LET sight[b \in DOMAIN g.blocks] == Sight(g, sight, b) IN sight

\* Every operand is an argument around the operation, or a result before it.
Dominated(g) ==
  LET visible == Visible(g) IN
  \A b \in DOMAIN g.blocks : \A o \in ToSet(g.blocks[b].ops) :
    g.ops[o].args \in Seq(visible[b] \cup Before(g, b, o))

\* The types of operands and results; bodies has for each region the types of
\* its arguments and of what it yields.  (for_op::verify does not compare the
\* initial values of a loop with its results; sema has compared them.)
Accepts(kind, args, out, bodies) ==
  LET width(t) == CASE t.elem = "i1" -> 1 [] t.elem \in {"i32", "f32"} -> 32 [] OTHER -> 64
      unary == Len(args) = 1 /\ Len(out) = 1
      scalars(from, to) == /\ unary /\ args[1].rank = -1 /\ out[1].rank = -1
                           /\ args[1].elem \in from /\ out[1].elem \in to
  IN  CASE kind = "colgm.cast" -> unary /\ cast_verify(args[1], out[1])
        [] kind = "tensor.extract" -> unary /\ args[1].rank = 0 /\ out[1] = ElementType(args[1])
        [] kind = "tensor.from_elements" -> unary /\ out[1].rank = 0 /\ args[1] = ElementType(out[1])
        [] kind = "arith.add" -> Len(out) = 1 /\ args = <<out[1], out[1]>>
        [] kind = "arith.extsi" -> scalars(Ints, Ints) /\ width(args[1]) < width(out[1])
        [] kind = "arith.trunci" -> scalars(Ints, Ints) /\ width(args[1]) > width(out[1])
        [] kind = "arith.extf" -> scalars(Floats, Floats) /\ width(args[1]) < width(out[1])
        [] kind = "arith.truncf" -> scalars(Floats, Floats) /\ width(args[1]) > width(out[1])
        [] kind = "arith.sitofp" -> scalars(Ints, Floats)
        [] kind = "arith.fptosi" -> scalars(Floats, Ints)
        [] kind = "arith.index_cast" -> scalars(Ints, {"index"}) \/ scalars({"index"}, Ints)
        [] kind \in {"colgm.for", "scf.for"} ->
             LET bounds == IF kind = "scf.for" THEN 3 ELSE 2 IN
             /\ Len(args) = bounds + Len(out)
             /\ \A i \in 1 .. bounds : args[i] = Index
             /\ \A i \in DOMAIN out : args[bounds + i] = out[i]
             /\ bodies[1] = [types |-> <<Index>> \o out, yields |-> out]
        [] kind \in {"colgm.if", "scf.if"} ->
             args = <<Bit>> /\ \A r \in 1 .. 2 : bodies[r].yields = out
        [] OTHER -> TRUE

ArgTypes(g, o) == [i \in DOMAIN g.ops[o].args |-> ValueType(g, g.ops[o].args[i])]
Body(g, b) == [types |-> g.blocks[b].types, yields |-> ArgTypes(g, Last(g.blocks[b].ops))]
Bodies(g, o) == [r \in DOMAIN g.ops[o].regions |-> Body(g, g.ops[o].regions[r])]

Typed(g) ==
  \A o \in DOMAIN g.ops :
    /\ g.ops[o].types \in Seq(Type)
    /\ Accepts(g.ops[o].kind, ArgTypes(g, o), g.ops[o].types, Bodies(g, o))

Valid(g) == IsTree(g) /\ Regular(g) /\ Dominated(g) /\ Typed(g)

\* The driver runs the passes on a module that verifies (main.cpp), of a program
\* that sema accepts, which lets a loop yield only what it starts with (sema.cpp:465).
ASSUME ProgramsAssumption == \A g \in Programs : Valid(g)

-----------------------------------------------------------------------------
(* Patterns: the graph without the operation o, or none. *)

\* The operation of arith that makes dst of src, if one is needed.  The verifier
\* of cast accepts no pair for which there is none.
NoCast == <<"none">>
arith_cast(src, dst) ==
  LET width == [e \in Ints \cup Floats |->
                  CASE e = "i1" -> 1 [] e \in {"i32", "f32"} -> 32 [] OTHER -> 64]
  IN  CASE src = dst -> << >>
        [] {src, dst} \subseteq Ints /\ src # dst ->
             <<IF width[src] < width[dst] THEN "arith.extsi" ELSE "arith.trunci">>
        [] src \in Ints /\ dst \in Floats -> <<"arith.sitofp">>
        [] src \in Floats /\ dst \in Ints -> <<"arith.fptosi">>
        [] {src, dst} \subseteq Floats /\ src # dst ->
             <<IF width[src] < width[dst] THEN "arith.extf" ELSE "arith.truncf">>
        [] {src, dst} \cap {"index"} # {} /\ {src, dst} \cap Ints # {} -> <<"arith.index_cast">>
        [] OTHER -> NoCast

\* A tensor of rank 0 is taken apart, converted and put together again.
lowering_cast(g, o) ==
  LET input == g.ops[o].args[1]
      src == ValueType(g, input)
      dst == g.ops[o].types[1]
      n == g.next
      kinds == (IF IsTensor(src) THEN <<"tensor.extract">> ELSE << >>)
               \o arith_cast(src.elem, dst.elem)
               \o (IF IsTensor(dst) THEN <<"tensor.from_elements">> ELSE << >>)
      type(kind) == CASE kind = "tensor.extract" -> ElementType(src)
                      [] kind = "tensor.from_elements" -> dst
                      [] OTHER -> ElementType(dst)
      new == [i \in DOMAIN kinds |->
                Op(kinds[i], <<IF i = 1 THEN input ELSE OpResult(n + i - 2, 1)>>, <<type(kinds[i])>>)]
  IN  IF /\ src.rank <= 0 /\ dst.rank <= 0 /\ (IsTensor(src) \/ IsTensor(dst))
         /\ arith_cast(src.elem, dst.elem) # NoCast
      THEN <<replaceOp(g, o, new, <<OpResult(n + Len(new) - 1, 1)>>)>>
      ELSE << >>

\* constant, yield and if keep their operands, results and regions.
Relabelled(g, o, kind) ==
  LET op == g.ops[o] IN
  <<replaceOp(g, o, <<[op EXCEPT !.kind = kind]>>,
              [i \in DOMAIN op.types |-> OpResult(g.next, i)])>>

\* Fault: the bounds in the order of the getters above them.
LoopOperandsSwapped(args, step) == <<args[2], args[1], step>> \o SubSeq(args, 3, Len(args))
LoopOperands(args, step) == <<args[1], args[2], step>> \o SubSeq(args, 3, Len(args))

\* A loop with the step 1 and the body of the old one.
lowering_for(g, o) ==
  LET op == g.ops[o]
      n == g.next
      step == [Op("arith.constant", << >>, <<Index>>) EXCEPT !.value = 1]
      types == [i \in 1 .. Len(op.args) - 2 |-> ValueType(g, op.args[i + 2])]
      loop == [kind |-> "scf.for", args |-> LoopOperands(op.args, OpResult(n, 1)), types |-> types,
               regions |-> op.regions, value |-> op.value]
  IN  <<replaceOp(g, o, <<step, loop>>, [i \in DOMAIN types |-> OpResult(n + 1, i)])>>

Lowered(g, o) ==
  LET kind == g.ops[o].kind IN
  CASE kind = "colgm.constant" -> Relabelled(g, o, "arith.constant")
    [] kind = "colgm.yield" -> Relabelled(g, o, "scf.yield")
    [] kind = "colgm.if" -> Relabelled(g, o, "scf.if")
    [] kind = "colgm.for" -> lowering_for(g, o)
    [] kind = "colgm.cast" -> lowering_cast(g, o)

-----------------------------------------------------------------------------
(* The pass. *)

LoopBody(g, f) == g.ops[f].regions[1]

\* The iter_args are the arguments of the body behind the induction variable.
Rank0(types) == {k - 1 : k \in {j \in DOMAIN types \ {1} : types[j].rank = 0}}

\* Fault: only the first is looked at.
hasRank0TensorIterArg_first(g, f) == 1 \in Rank0(g.blocks[LoopBody(g, f)].types)
hasRank0TensorIterArg(g, f) == Rank0(g.blocks[LoopBody(g, f)].types) # {}

Unwrapped(t) == IF t.rank = 0 THEN ElementType(t) ELSE t
\* Fault: the i-th argument of the block for the i-th iter_arg.
RetypedShifted(types) ==
  [k \in DOMAIN types |-> IF k < Len(types) THEN Unwrapped(types[k + 1]) ELSE types[k]]
Retyped(types) == [k \in DOMAIN types |-> IF k = 1 THEN types[k] ELSE Unwrapped(types[k])]

\* Fault: the operand is looked up when it has been replaced already.
WrapSelf(arg, wrapped, type) == Op("tensor.from_elements", <<wrapped>>, <<type>>)
\* What wraps an argument of the body; it takes the place of the argument in the
\* uses that were there before.
Wrap(arg, wrapped, type) == Op("tensor.from_elements", <<arg>>, <<type>>)

\* The ids of what is new: the loop, which has g.next, and for the i-th iter_arg
\* the extract before the loop, the from_elements in front of its body, the
\* extract before the yield and the from_elements behind the loop.
Carried(g, f) == g.blocks[LoopBody(g, f)].types
Extract(g, f, i) == g.next + i
Wrapped(g, f, i) == g.next + Len(Carried(g, f)) + i
Yielded(g, f, i) == g.next + 2 * Len(Carried(g, f)) + i
ResultOf(g, f, i) == g.next + 3 * Len(Carried(g, f)) + i

\* What is used for the arguments of the body, before anything new uses them, and
\* for the results of the loop.
NewValues(g, f) ==
  LET rank0 == Rank0(Carried(g, f)) IN
  [v \in {Argument(LoopBody(g, f), i + 1) : i \in rank0}
         \cup {OpResult(f, i) : i \in 1 .. Len(Carried(g, f)) - 1} |->
     IF v[1] = "block" THEN OpResult(Wrapped(g, f, v[3] - 1), 1)
     ELSE IF v[3] \in rank0 THEN OpResult(ResultOf(g, f, v[3]), 1) ELSE OpResult(g.next, v[3])]

Terminator(g, f) == Last(g.blocks[LoopBody(g, f)].ops)
YieldedTensors(g, f) == Renamed(g.ops[Terminator(g, f)].args, NewValues(g, f))

\* The loop has its body, and scalars for the tensors.
NewLoop(g, f) ==
  LET inits == [i \in 1 .. Len(Carried(g, f)) - 1 |->
                  IF i \in Rank0(Carried(g, f)) THEN OpResult(Extract(g, f, i), 1)
                  ELSE g.ops[f].args[i + 3]]
  IN  [kind |-> g.ops[f].kind, args |-> SubSeq(g.ops[f].args, 1, 3) \o inits,
       types |-> Tail(Retyped(Carried(g, f))), regions |-> g.ops[f].regions, value |-> 0]

Tensor(g, f, i) == Carried(g, f)[i + 1]
Ids(g, f, base) == {base + i : i \in Rank0(Carried(g, f))}

InitExtracts(g, f) ==
  [p \in Ids(g, f, Extract(g, f, 0)) |->
     LET i == p - Extract(g, f, 0) IN
     Op("tensor.extract", <<g.ops[f].args[i + 3]>>, <<ElementType(Tensor(g, f, i))>>)]
Wraps(g, f) ==
  [p \in Ids(g, f, Wrapped(g, f, 0)) |->
     LET i == p - Wrapped(g, f, 0) IN
     Wrap(Argument(LoopBody(g, f), i + 1), OpResult(p, 1), Tensor(g, f, i))]
YieldExtracts(g, f) ==
  [p \in Ids(g, f, Yielded(g, f, 0)) |->
     LET i == p - Yielded(g, f, 0) IN
     Op("tensor.extract", <<YieldedTensors(g, f)[i]>>, <<ElementType(Tensor(g, f, i))>>)]
ResultWraps(g, f) ==
  [p \in Ids(g, f, ResultOf(g, f, 0)) |->
     LET i == p - ResultOf(g, f, 0) IN
     Op("tensor.from_elements", <<OpResult(g.next, i)>>, <<Tensor(g, f, i)>>)]

NewOps(g, f) ==
  Joined(Joined(InitExtracts(g, f), [p \in {g.next} |-> NewLoop(g, f)]),
         Joined(Wraps(g, f), Joined(YieldExtracts(g, f), ResultWraps(g, f))))

\* An operation that was there: the yield has scalars, others use new values.
KeptOp(g, f, o) ==
  WithArgs(g.ops[o],
    IF o = Terminator(g, f)
    THEN [i \in DOMAIN YieldedTensors(g, f) |->
            IF i \in Rank0(Carried(g, f)) THEN OpResult(Yielded(g, f, i), 1)
            ELSE YieldedTensors(g, f)[i]]
    ELSE Renamed(g.ops[o].args, NewValues(g, f)))

\* The numbers in S up to n.
Ascending(S, n) ==
  LET list[k \in 0 .. n] ==
        IF k = 0 THEN << >> ELSE IF k \in S THEN Append(list[k - 1], k) ELSE list[k - 1]
  IN  list[n]

\* The body and the block around the loop get new operations; an argument is
\* wrapped in front of those that were wrapped before it.
KeptBlock(g, f, b) ==
  LET listed == Ascending(Rank0(Carried(g, f)), Len(Carried(g, f)))
      ids(id(_)) == [k \in DOMAIN listed |-> id(listed[k])]
      block == g.blocks[b]
  IN  IF b = LoopBody(g, f)
      THEN [types |-> Retyped(block.types),
            ops |-> Reverse(ids(LAMBDA i : Wrapped(g, f, i))) \o Front(block.ops)
                    \o ids(LAMBDA i : Yielded(g, f, i)) \o <<Last(block.ops)>>]
      ELSE IF f \in ToSet(block.ops)
      THEN [types |-> block.types,
            ops |-> Around(block.ops, f, ids(LAMBDA i : Extract(g, f, i)) \o <<g.next>>
                                         \o ids(LAMBDA i : ResultOf(g, f, i)))]
      ELSE block

rewriteForOp(g, f) ==
  [next |-> g.next + 4 * Len(Carried(g, f)),
   ops |-> Joined([o \in DOMAIN g.ops \ {f} |-> KeptOp(g, f, o)], NewOps(g, f)),
   blocks |-> [b \in DOMAIN g.blocks |-> KeptBlock(g, f, b)]]

-----------------------------------------------------------------------------
Loops(g) == {o \in DOMAIN g.ops : g.ops[o].kind = "scf.for"}

\* An operation of before, what is in its regions, and it if it is one of after.
VisitOp(g, before, after, walk, o) ==
  (IF o \in before THEN <<o>> ELSE << >>)
  \o FlattenSeq([r \in DOMAIN g.ops[o].regions |-> walk[g.ops[o].regions[r]]])
  \o (IF o \in after THEN <<o>> ELSE << >>)

\* The operations of a block in order.
VisitBlock(g, before, after, walk, b) ==
  FlattenSeq([k \in DOMAIN g.blocks[b].ops |-> VisitOp(g, before, after, walk, g.blocks[b].ops[k])])

Walk(g, before, after) ==
  LET walk[b \in DOMAIN g.blocks] == VisitBlock(g, before, after, walk, b) IN walk[1]

\* The operations that the conversion still has to take, in its order.
Todo(g) == Walk(g, {o \in DOMAIN g.ops : g.ops[o].kind \in Colgm}, {})

\* Inner loops before the ones around them.
Collected(g) == Walk(g, {}, Loops(g))

Init == source \in Programs /\ ir = source /\ stage = "lower" /\ forOps = << >>

LowerOp ==
  /\ stage = "lower" /\ Todo(ir) # << >>
  /\ LET found == Lowered(ir, Head(Todo(ir))) IN
     IF found = << >> THEN stage' = "failed" /\ ir' = ir
     ELSE ir' = found[1] /\ stage' = stage
  /\ UNCHANGED <<source, forOps>>

CollectLoops ==
  /\ stage = "lower" /\ Todo(ir) = << >>
  /\ stage' = "rewrite"
  /\ forOps' = Collected(ir)
  /\ UNCHANGED <<source, ir>>

RewriteForOp ==
  /\ stage = "rewrite" /\ forOps # << >>
  /\ ir' = IF hasRank0TensorIterArg(ir, Head(forOps)) THEN rewriteForOp(ir, Head(forOps)) ELSE ir
  /\ forOps' = Tail(forOps)
  /\ UNCHANGED <<source, stage>>

Next == LowerOp \/ CollectLoops \/ RewriteForOp

Spec == Init /\ [][Next]_vars

-----------------------------------------------------------------------------
\* The loops that carry a tensor of rank 0.
Carriers(g) ==
  {o \in Loops(g) : \E b \in DOMAIN g.blocks :
     b = LoopBody(g, o) /\ \E k \in DOMAIN g.blocks[b].types \ {1} : g.blocks[b].types[k].rank = 0}

\* The function is valid at every point: what is used is there, in sight and of
\* the right type, and the loops that are still to be rewritten are there
\* (lowering.cpp, scf_for_rank0_scalar.cpp; a loop is collected before others
\* are rewritten and erased).
WellFormed == Valid(ir) /\ ToSet(forOps) \subseteq Loops(ir)

\* When the pass is done, no loop carries a tensor of rank 0, which bufferization
\* could not take (scf_for_rank0_scalar.cpp:13-23).
AllScalar == stage = "rewrite" /\ forOps = << >> => Carriers(ir) = {}

\* rewriteForOp settles its loop, and spares the others: those that were collected
\* and are still to come are not erased, and none gets a tensor of rank 0 again
\* (scf_for_rank0_scalar.cpp:167-175: the loops are collected before any is
\* rewritten).
RewritesOne ==
  [][stage = "rewrite" => /\ Loops(ir) \ {Head(forOps)} \subseteq Loops(ir)'
                          /\ Carriers(ir)' \subseteq Carriers(ir) \ {Head(forOps)}]_vars
=============================================================================
