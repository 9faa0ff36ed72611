----------------------------- MODULE TensorCall -----------------------------
(***************************************************************************)
(* One expression on tensors on its way through the compiler: the semantic *)
(* analysis finds its type, the code generator makes an operation of it,   *)
(* which is verified, lowered and executed.  Each stage computes the       *)
(* shapes and checks the operands on its own.                              *)
(***************************************************************************)
EXTENDS Lowering

CONSTANT Exprs  \* the expressions: [name, args]

Names == Registered \cup Arithmetic \cup Comparisons \cup {"neg", "elements", "slice"}

\* An operand has a value of its type, or is a call without a result; print() has no
\* type either.
IsOperand(a) ==
  \/ a.type = Void
  \/ a.type = Unknown /\ a.node = "call"
  \/ /\ a.type = TypeOf(a.value) /\ a.value.elem \in Elements /\ a.value.shape \in Seq(Nat)
     /\ DOMAIN a.value.at = Points(a.value.shape)

\* A literal in a literal; an error in it has left it without a type.
IsLiteral(a) ==
  LET found == resolve_tensor(a.items) IN
  /\ a.node = "tensor" /\ a.items \in Seq(ToSet(a.items)) /\ a.items # << >>
  /\ \A i \in DOMAIN a.items : a.items[i].type.shape \in Seq(Nat)
  /\ a.type = found.type /\ (found.reported => found.type = Unknown)

\* What the parser reads and the semantic analysis has already seen: an operator
\* has its operands, integers are those of a list, and no list is longer than an
\* integer can count.
Sequenced(args) == args \in Seq(ToSet(args)) /\ Len(args) < Half
ASSUME ExprsAssumption ==
  \A e \in Exprs :
    /\ e.name \in Names /\ Sequenced(e.args)
    /\ e.name \in Arithmetic \cup Comparisons \cup {"slice"} => Len(e.args) = 2
    /\ e.name = "neg" => Len(e.args) = 1
    /\ \A i \in DOMAIN e.args : e.args[i].type.shape \in Seq(Nat) /\ e.args[i].lits \in Seq(Int)
    /\ e.name # "elements" => \A i \in DOMAIN e.args : IsOperand(e.args[i])
    /\ e.name = "elements" /\ e.args # << >> =>
         \A n \in 0 .. Len(e.args[1].type.shape) :
           LET level == flatten_tensor(e.args, n) IN
           /\ Sequenced(level)
           /\ \A i \in DOMAIN level :
                IF level[i].node = "tensor" THEN IsLiteral(level[i]) ELSE IsOperand(level[i])

\* The operands of its operation.
Taken(e) == Operands(e.name, e.args)

VARIABLES
  expr,
  stage,     \* what is to happen next, or how it ended
  inferred,  \* the type sema gave it
  op,        \* the operation
  kernel,    \* the kernel, or none
  answer     \* the tensor it was found to be, or what was printed

callVars == <<expr, stage, inferred, op, kernel, answer>>

\* An operand that is a call without a result has no value, whose type is read.
Valueless(values) == \E i \in DOMAIN values : values[i].type \in {Void, Unknown}

CallInit ==
  /\ expr \in Exprs
  /\ stage = "infer"
  /\ inferred = Null /\ op = None /\ kernel = << >> /\ answer = << >>

\* resolve_expr: the compilation stops if an error was reported.
InferType ==
  /\ stage = "infer"
  /\ LET found == Resolve(expr.name, expr.args) IN
     inferred' = found.type /\ stage' = IF found.reported THEN "reported" ELSE "generate"
  /\ UNCHANGED <<expr, op, kernel, answer>>

GenerateOp ==
  /\ stage = "generate"
  /\ LET values == Taken(expr) IN
     IF Valueless(values) THEN op' = None /\ stage' = "undefined"
     ELSE /\ op' = Generate(expr.name, values, inferred.shape)
          /\ stage' = IF Undefined(op', expr.name, values) THEN "undefined" ELSE "verify"
  /\ UNCHANGED <<expr, inferred, kernel, answer>>

VerifyOp ==
  /\ stage = "verify"
  /\ stage' = IF Verified(op) THEN "lower" ELSE "invalid"
  /\ UNCHANGED <<expr, inferred, op, kernel, answer>>

LowerOp ==
  /\ stage = "lower"
  /\ kernel' = IF op.kind = "print" THEN << >> ELSE Lower(op)
  /\ stage' = IF op.kind # "print" /\ kernel' = << >> THEN "unlowered" ELSE "execute"
  /\ UNCHANGED <<expr, inferred, op, answer>>

ExecuteKernel ==
  /\ stage = "execute"
  /\ answer' = IF op.kind = "print" THEN lowering_print(op) ELSE <<Computed(kernel[1])>>
  /\ stage' = "done"
  /\ UNCHANGED <<expr, inferred, op, kernel>>

CallNext == InferType \/ GenerateOp \/ VerifyOp \/ LowerOp \/ ExecuteKernel

CallSpec == CallInit /\ [][CallNext]_callVars

-----------------------------------------------------------------------------
\* What sema accepts although a later stage does not: dimensions that cannot be
\* broadcast, an axis that is named twice, more than one batch dimension, indices
\* that are not a list, dimensions below zero, a literal that has both literals and
\* other tensors for elements, and operands without a value.
Gap(e) ==
  LET a == e.args  t == a[1].type.shape  list == a[2].lits IN
  \/ /\ e.name = "broadcast"
     /\ \E d \in DOMAIN t :
          LET to == list[Len(list) - Len(t) + d] IN t[d] # to /\ ~(t[d] = 1 /\ to > 1)
  \/ e.name \in {"reduce_sum", "reduce_max"} /\ Cardinality(ToSet(list)) < Len(list)
  \/ e.name = "matmul" /\ Len(t) > 3
  \/ e.name = "gather" /\ Len(a[2].type.shape) # 1
  \/ e.name \in {"broadcast", "reshape"} /\ \E i \in DOMAIN list : list[i] < 0
  \/ /\ e.name = "elements"
     /\ \E i, j \in DOMAIN Taken(e) : Len(Taken(e)[i].type.shape) # Len(Taken(e)[j].type.shape)
  \/ Valueless(Taken(e))

\* A call that the semantic analysis accepts compiles, but for the gaps above,
\* where a later stage, without a message for the source, refuses it or goes
\* wrong (sema/intrinsic.cpp and sema.cpp against dialect/colgm and lowering.cpp).
AcceptedCompile ==
  /\ stage \in {"undefined", "invalid", "unlowered"} => Gap(expr)
  /\ stage \in {"execute", "done"} => ~Gap(expr)

\* The type that sema infers, the type of the operation's result and the tensor
\* that is computed agree, though the shape is computed three times
\* (sema/intrinsic.cpp, dialect/colgm and lowering.cpp).
TypesAgree ==
  /\ IsTensor(inferred) /\ op # None => op.type = inferred
  /\ stage = "done" /\ op.kind # "print" =>
       TypeOf(answer[1]) = op.type /\ DOMAIN answer[1].at = Points(op.type.shape)

\* A kernel stays inside of its operands and of its result (lowering.cpp), but
\* for indices the program computes, which nobody checks, and for shapes whose
\* numbers of elements are equal only because the product wraps.
InBounds ==
  \A i \in DOMAIN kernel :
    LET k == kernel[i]  a == expr.args IN
    \A p \in Points(k.dom) :
      /\ k.writes[p] \in Points(k.type.shape)
      /\ \A r \in ToSet(k.reads[p]) :
           \/ r[2] \in Points(k.ins[r[1]].shape)
           \/ op.kind = "slice" /\ a[2].value.at[<< >>] \notin 0 .. a[1].type.shape[1] - 1
           \/ op.kind = "gather" /\ \E q \in DOMAIN a[2].value.at :
                a[2].value.at[q] \notin 0 .. a[1].type.shape[op.attr[1] + 1] - 1
           \/ op.kind = "reshape" /\ Count(op.type.shape) # Count(k.ins[1].shape)

\* Iterations that may run in parallel write different elements: two points that
\* write the same one differ in a loop that is a reduction or runs in order
\* (the iterator types of lowering.cpp).
ParallelDisjoint ==
  \A i \in DOMAIN kernel :
    LET k == kernel[i] IN
    \A p, q \in Points(k.dom) : k.writes[p] = k.writes[q] =>
      \A d \in DOMAIN k.dom : k.iters[d] = "parallel" => p[d] = q[d]

Abstract == INSTANCE TensorMeaning

\* What the compiler makes of an expression is its meaning: the specification of
\* the stages implements the abstract one (lowering.cpp, lowering/*.cpp and
\* runtime/print.cpp).
Meaning == Abstract!Spec
=============================================================================
