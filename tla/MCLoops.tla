------------------------------ MODULE MCLoops -------------------------------
(***************************************************************************)
(* Functions for Loops, and what it is for a graph to be run, in both      *)
(* dialects.  Functions are small: every cast the verifier accepts on its  *)
(* own; one loop; a loop in a loop; two loops and an if.                   *)
(***************************************************************************)
EXTENDS Loops

I == Ty("i64", 0)
F == Ty("f64", 0)
Row == Ty("f64", 1)

V(o) == OpResult(o, 1)
With(op, regions) == [op EXCEPT !.regions = regions]
Constant(n) == [Op("colgm.constant", << >>, <<I>>) EXCEPT !.value = n]
Cast(v, type) == Op("colgm.cast", <<v>>, <<type>>)
Add(v, w, type) == Op("arith.add", <<v, w>>, <<type>>)
Return(args) == Op("func.return", args, << >>)
Yield(args) == Op("colgm.yield", args, << >>)
For(from, to, inits, types, body) ==
  With(Op("colgm.for", <<from, to>> \o inits, types), <<body>>)
If(cond, types, then, else) == With(Op("colgm.if", <<cond>>, types), <<then, else>>)
Block(types, ops) == [types |-> types, ops |-> ops]
Graph(ops, blocks) == [next |-> Len(ops) + 1, ops |-> ops, blocks |-> blocks]

Elems == Ints \cup Floats \cup {"index"}
Types == [elem : Elems, rank : {-1, 0, 1}]
Casts ==
  {Graph(<<Cast(Argument(1, 1), p[2]), Return(<<V(1)>>)>>, <<Block(<<p[1]>>, <<1, 2>>)>>) :
     p \in {q \in Types \X Types : cast_verify(q[1], q[2])}}

\* A loop carries two tensors and yields any of them, a sum, or one from outside.
Single(t, u) ==
  LET some(a, b, outer) == {outer, Argument(2, a)} \cup
        IF t = u THEN {Argument(2, b), V(5)} ELSE {} IN
  {Graph(<<Constant(0), Cast(V(1), Index), Cast(Argument(1, 3), Index),
           For(V(2), V(3), <<Argument(1, 1), Argument(1, 2)>>, <<t, u>>, 2),
           Add(Argument(2, 2), Argument(2, IF t = u THEN 3 ELSE 2), t), Yield(<<v, w>>),
           Return(<<OpResult(4, 2), OpResult(4, 1)>>)>>,
         <<Block(<<t, u, I>>, <<1, 2, 3, 4, 7>>), Block(<<Index, t, u>>, <<5, 6>>)>>) :
     v \in some(2, 3, Argument(1, 1)), w \in some(3, 2, Argument(1, 2))}

\* The inner loop runs from the iterator of the outer one, starts with what that
\* carries and uses it, or yields it.
Nested(v) ==
  Graph(<<Constant(0), Cast(V(1), Index), Cast(Argument(1, 3), Index),
          For(V(2), V(3), <<Argument(1, 1), V(1)>>, <<F, I>>, 2),
          For(Argument(2, 1), V(3), <<Argument(2, 3), Argument(2, 2)>>, <<I, F>>, 3),
          Cast(Argument(3, 1), I), Add(Argument(3, 2), V(6), I),
          Add(Argument(3, 3), Argument(2, 2), F), Yield(<<V(7), v>>),
          Yield(<<OpResult(5, 2), V(5)>>),
          Return(<<V(4), OpResult(4, 2)>>)>>,
        <<Block(<<F, F, I>>, <<1, 2, 3, 4, 11>>),
          Block(<<Index, F, I>>, <<5, 10>>), Block(<<Index, I, F>>, <<6, 7, 8, 9>>)>>)

\* A loop in a branch of an if, and another one that starts with its result.
Branching ==
  Graph(<<Constant(0), Cast(V(1), Index), Cast(Argument(1, 3), Index),
          Cast(Argument(1, 4), Ty("i1", -1)), If(V(4), <<F>>, 2, 3),
          For(V(2), V(3), <<Argument(1, 1)>>, <<F>>, 4), Yield(<<V(6)>>),
          Yield(<<Argument(1, 1)>>), Add(Argument(4, 2), Argument(1, 1), F), Yield(<<V(9)>>),
          For(V(2), V(3), <<V(5), Argument(1, 2)>>, <<F, Row>>, 5),
          Add(Argument(5, 2), V(5), F), Yield(<<V(12), Argument(5, 3)>>),
          Add(V(11), V(11), F), Return(<<V(14), OpResult(11, 2)>>)>>,
        <<Block(<<F, Row, I, Ty("i1", 0)>>, <<1, 2, 3, 4, 5, 11, 14, 15>>),
          Block(<< >>, <<6, 7>>), Block(<< >>, <<8>>), Block(<<Index, F>>, <<9, 10>>),
          Block(<<Index, F, Row>>, <<12, 13>>)>>)

MCPrograms ==
  Casts \cup UNION {Single(t, u) : t, u \in {F, Row}}
  \cup {Nested(v) : v \in {V(8), Argument(2, 2), Argument(3, 3)}} \cup {Branching}

-----------------------------------------------------------------------------
\* Integers of 1, 3 and 4 bits, which are signed; floats are exact here.
Fits(elem, n) ==
  LET wrapped(m) == ((n + m) % (2 * m)) - m IN
  CASE elem = "i1" -> -(n % 2) [] elem = "i32" -> wrapped(4)
    [] elem \in Floats -> n [] OTHER -> wrapped(8)

\* What the block yields or returns, given the values that are known.
RECURSIVE Run(_, _, _)
Run(g, b, known) ==
  LET results(o, values) == [v \in Results(g, o) |-> values[v[3]]]
      loop(env, op, inits, from, to) ==
        LET body == op.regions[1] IN
        FoldLeft(LAMBDA carried, i :
                   Run(g, body, [v \in Arguments(g, body) |->
                                   IF v[3] = 1 THEN i ELSE carried[v[3] - 1]] @@ env),
                 inits, [k \in 1 .. to - from |-> from + k - 1])
      step(env, o) ==
        LET op == g.ops[o]
            args == [i \in DOMAIN op.args |-> env[op.args[i]]]
            values ==
              CASE op.kind \in {"colgm.constant", "arith.constant"} -> <<op.value>>
                [] op.kind = "arith.add" -> <<Fits(op.types[1].elem, args[1] + args[2])>>
                [] op.kind = "colgm.for" -> loop(env, op, SubSeq(args, 3, Len(args)), args[1], args[2])
                [] op.kind = "scf.for" -> loop(env, op, SubSeq(args, 4, Len(args)), args[1], args[2])
                [] op.kind \in {"colgm.if", "scf.if"} ->
                     Run(g, op.regions[IF args[1] = 0 THEN 2 ELSE 1], env)
                [] OTHER -> <<Fits(op.types[1].elem, args[1])>>
        IN  results(o, values) @@ env
      ops == g.blocks[b].ops
      env == FoldLeft(step, known, Front(ops))
  IN  [i \in DOMAIN g.ops[Last(ops)].args |-> env[g.ops[Last(ops)].args[i]]]

\* Arguments: tensors with different elements, a bound, a condition.
Inputs == {<<1, 2, 0, 0>>, <<1, 2, 3, -1>>, <<-5, 3, 2, 0>>}
Outcome(g, in) ==
  Run(g, 1, [v \in Arguments(g, 1) |-> Fits(g.blocks[1].types[v[3]].elem, in[v[3]])])

-----------------------------------------------------------------------------
\* The function computes what it did at first, after every step.
SameResults == \A in \in Inputs : Outcome(ir, in) = Outcome(source, in)
=============================================================================
