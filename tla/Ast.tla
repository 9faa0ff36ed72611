-------------------------------- MODULE Ast ---------------------------------
(***************************************************************************)
(* The syntax tree that semantic analysis annotates and code generation    *)
(* reads: src/ast.                                                         *)
(*                                                                         *)
(* A program numbers its nodes; children have smaller numbers than their   *)
(* parents.  By kind, the children (kids) and names of a node are          *)
(*   int float bool   -                                                    *)
(*   id               names: the name                                      *)
(*   tensor           kids: the elements                                   *)
(*   arith cmp        kids: lhs, rhs                                       *)
(*   neg              kids: the operand                                    *)
(*   call             kids: callee, arguments                              *)
(*   index            kids: target, index                                  *)
(*   range            kids: start, end                                     *)
(*   if               kids: condition, body [, else body]                  *)
(*   for              kids: range, body, initial values                    *)
(*                    names: iterator, names of the initial values         *)
(*   var              kids: initial value; names: the variables            *)
(*   return expr_stmt kids: the value, if any                              *)
(*   yield block      kids: the values, the statements                     *)
(*   func             kids: the body; names: its name, its parameters      *)
(*                    types: of the parameters, of the result, as written: *)
(*                    a name and dimensions                                *)
(* The operators that share every rule are one kind: + - * / are arith,    *)
(* the six comparisons cmp.                                                *)
(***************************************************************************)
EXTENDS Types, SequencesExt

CONSTANT Programs

VARIABLES
  prog,      \* the program
  resolved   \* resolve_type_ of every node

Kind(n) == prog.node[n].kind
Kids(n) == prog.node[n].kids
Names(n) == prog.node[n].names
Funcs == prog.funcs
Name(f) == Names(f)[1]    \* of a function

\* Children by their role.
Callee(n) == Kids(n)[1]
Args(n) == Tail(Kids(n))
Cond(n) == Kids(n)[1]
Bounds(n) == Kids(n)[1]
Body(n) == Kids(n)[IF Kind(n) = "func" THEN 1 ELSE 2]
HasElse(n) == Len(Kids(n)) = 3
Else(n) == Kids(n)[3]
Inits(n) == SubSeq(Kids(n), 3, Len(Kids(n)))

\* An entry of a call stack, see Sema, and one for each of nodes.
Do(what, n, i) == [do |-> what, n |-> n, i |-> i]
DoAll(what, nodes, i) == [k \in DOMAIN nodes |-> Do(what, nodes[k], i)]

-----------------------------------------------------------------------------
(* What the parser makes: each kind has its number of children, of their   *)
(* kinds, and of names; each node but a function has a parent.             *)

Expressions == {"int", "float", "bool", "id", "tensor", "arith", "cmp", "neg", "call", "index",
                "range", "if", "for"}
Statements == {"var", "return", "yield", "expr_stmt", "block"}

KidCount(kind) ==
  CASE kind \in {"int", "float", "bool", "id"} -> {0}
    [] kind \in {"neg", "var", "func"} -> {1}
    [] kind \in {"return", "expr_stmt"} -> {0, 1}
    [] kind \in {"arith", "cmp", "index", "range"} -> {2}
    [] kind = "if" -> {2, 3}
    [] kind = "call" -> Nat \ {0}
    [] kind = "for" -> Nat \ {0, 1}
    [] OTHER -> Nat

\* Of the k-th child.
KidKinds(kind, k) ==
  CASE kind = "block" -> Statements
    [] kind = "func" \/ (kind = "if" /\ k > 1) \/ (kind = "for" /\ k = 2) -> {"block"}
    [] kind = "for" /\ k = 1 -> {"range"}
    [] kind = "call" /\ k = 1 -> {"id"}
    [] OTHER -> Expressions

Nodes == [kind : Expressions \cup Statements \cup {"func"}, names : Seq(STRING), kids : Seq(Nat),
          types : Seq([base : STRING, dims : Seq(Nat)])]

ASSUME ProgramsAssumption ==
  \A p \in Programs :
    /\ p.node \in Seq(Nodes) /\ p.funcs \in Seq(DOMAIN p.node)
    /\ \A n \in DOMAIN p.node : LET d == p.node[n] IN
         /\ Len(d.kids) \in KidCount(d.kind)
         /\ \A k \in DOMAIN d.kids :
              d.kids[k] \in 1 .. n - 1 /\ p.node[d.kids[k]].kind \in KidKinds(d.kind, k)
         /\ d.kind = "id" => Len(d.names) = 1
         /\ d.kind = "for" => Len(d.names) = Len(d.kids) - 1
         /\ d.kind = "func" => Len(d.names) = Len(d.types) /\ d.names # << >>
         /\ d.kind = "func" <=> n \in Range(p.funcs)
         /\ d.kind # "func" => \E m \in DOMAIN p.node : n \in Range(p.node[m].kids)
=============================================================================
