---------------------------- MODULE MCConstFold -----------------------------
(***************************************************************************)
(* All well-typed careful functions of 5 operations whose last operation   *)
(* observes the others.                                                    *)
(***************************************************************************)
EXTENDS ConstFold

CONSTANTS
  ConstValues,  \* the scalar constants that are written
  Arithmetic    \* the arithmetic that is used

\* The operations that may come n-th, with the attribute of the leaves.
Entry(k, args, a) == [op |-> [kind |-> k, args |-> args], attr |-> a]

Singles(n) == {<<i>> : i \in 1 .. n - 1}
Pairs(n) == (1 .. n - 1) \X (1 .. n - 1)

Operations(n) ==
  {Entry("arg", << >>, <<3>>)} \cup {Entry("const", << >>, <<v>>) : v \in ConstValues}
  \cup {Entry("neg", p, << >>) : p \in Singles(n)}
  \cup {Entry(k, p, << >>) : k \in Arithmetic \cup {"pack"}, p \in Pairs(n)}
Observers(n) == {Entry("other", p, <<2>>) : p \in Singles(n) \cup Pairs(n)}

\* A function is a sequence of entries, each with its number of elements.
Length(g, o) ==
  CASE o.kind \in {"arg", "const", "other"} -> 1
    [] o.kind = "pack" -> 2 * g[o.args[1]].len
    [] OTHER -> g[o.args[1]].len

Append1(g, e) == Append(g, [op |-> e.op, attr |-> e.attr, len |-> Length(g, e.op)])

SameShape(g, o) ==
  o.kind \in Arithmetic \cup {"pack"} => g[o.args[1]].len = g[o.args[2]].len

\* Careful, for a function under construction.
Uses(g, i) == {u \in (DOMAIN g) \X (1 .. 2) :
                 u[2] \in DOMAIN g[u[1]].op.args /\ g[u[1]].op.args[u[2]] = i}
CarefulFunction(g) ==
  \/ \A i \in DOMAIN g : g[i].op.kind # "arg" =>
       \A u, v \in Uses(g, i) : u = v
  \/ \A i \in DOMAIN g :
       /\ g[i].op.kind \notin Arithmetic
       /\ g[i].op.kind = "pack" => g[i].op.args[1] # g[i].op.args[2]

Extend(G, E) ==
  {f \in {Append1(g, e) : g \in G, e \in E} :
     SameShape(f, f[Len(f)].op) /\ CarefulFunction(f)}

F1 == Extend({<< >>}, Operations(1))
F2 == Extend(F1, Operations(2))
F3 == Extend(F2, Operations(3))
F4 == Extend(F3, Operations(4))
F5 == Extend(F4, Observers(5))

MCGraphs ==
  {[op |-> [i \in Ids |-> f[i].op], attr |-> [i \in Ids |-> f[i].attr]] : f \in F5}

-----------------------------------------------------------------------------
\* var z = 0; print(x + z); print(y + z): a variable is one constant however
\* often it is read, and nothing copies a constant.
SharedZero ==
  LET f == << Entry("arg", << >>, <<3>>), Entry("const", << >>, <<0>>),
              Entry("add", <<1, 2>>, << >>), Entry("add", <<1, 2>>, << >>),
              Entry("other", <<3, 4>>, <<2>>) >> IN
  {[op |-> [i \in Ids |-> f[i].op], attr |-> [i \in Ids |-> f[i].attr]]}

\* "add x, 0 -> x" replaces an addition by its left operand and does nothing to
\* the other operations that read the 0: each still reads a value that exists.
OthersUntouched == \A i \in Live : OperandsAlive(i)
=============================================================================
