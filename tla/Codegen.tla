------------------------------ MODULE Codegen -------------------------------
(***************************************************************************)
(* Code generation: the second walk over the tree, src/codegen/generator.  *)
(* The operations it creates are represented by the types of their         *)
(* results, and what the verifiers of src/dialect/colgm require of their   *)
(* operands is required here when the operation is created.                *)
(*                                                                         *)
(* todo is the call stack, as in Sema.  vals holds what the calls have     *)
(* returned, the last one first: each a sequence of values, since an if or *)
(* a loop has several.  env is var_stack, innermost scope first.  blocks   *)
(* are the MLIR blocks being filled: a function's, a branch's or a loop    *)
(* body's, with the types it has to end with.                              *)
(*                                                                         *)
(* fault is the first thing to go wrong:                                   *)
(*   lost        get_var does not find the name                            *)
(*   undefined   an assertion, a missing value or a cast to another class  *)
(*   invalid     an operation that its verifier rejects                    *)
(*   mistyped    a loop whose initial values are not of its results' types *)
(* Assertions are compiled out (RelWithDebInfo, scripts/build.py); where   *)
(* one would fail, what comes after it is one of these faults, but for the *)
(* one on the type of a callee, after which nothing goes wrong.            *)
(***************************************************************************)
EXTENDS Ast, TLC

VARIABLES todo, vals, env, blocks, fault

vars == <<prog, resolved, todo, vals, env, blocks, fault>>

Index == Type("index", "", << >>, << >>)

-----------------------------------------------------------------------------
At(what) == todo # << >> /\ fault = "none" /\ Head(todo).do = what
Node == Head(todo).n
Visiting(kinds) == At("expr") /\ Kind(Node) \in kinds
Stating(kinds) == At("stmt") /\ Kind(Node) \in kinds

Go(work) == todo' = work \o Tail(todo)
Drop(k) == SubSeq(vals, k + 1, Len(vals))

\* The single values the last k calls returned, in the order of the calls.
Returned(k) == [i \in 1 .. k |-> vals[k + 1 - i][1]]

\* convert_type, which has no type for void and unknown, and none for the rest.
Convertible(t) == IsTensor(t) /\ t.elem \in Elements
Convert(t) == IF Convertible(t) THEN t ELSE Null
ConvertResults(t) == IF t \in {Void, Unknown} THEN << >> ELSE <<t>>

\* cast_op::verify; index casts to and from the integers of rank 0.
Castable(s, t) ==
  \/ s = t
  \/ IsTensor(s) /\ IsTensor(t) /\ s.shape = t.shape
  \/ s = Index /\ IsTensor(t) /\ t.shape = << >> /\ t.elem \in {"i32", "i64", "bool"}
  \/ t = Index /\ IsTensor(s) /\ s.shape = << >> /\ s.elem \in {"i32", "i64", "bool"}

\* The faults of a step, the first whose condition holds.
First(faults) ==
  LET found == {k \in DOMAIN faults : faults[k][2]} IN
  IF found = {} THEN "none" ELSE faults[Min(found)][1]

Calls(work) == Go(work) /\ UNCHANGED <<prog, resolved, vals, env, blocks, fault>>

\* The call returns values, after k others, unless it has a fault.  What it
\* creates may not follow a terminator.
Returns(k, values, faults) ==
  /\ Go(<< >>)
  /\ fault' = First(faults \o <<<<"invalid", blocks[1].closed>>>>)
  /\ vals' = IF fault' = "none" THEN <<values>> \o Drop(k) ELSE vals
  /\ UNCHANGED <<prog, resolved>>

Missing(values) == \E k \in DOMAIN values : values[k] = Null

\* Fault: it stays of type index.
NotConverted(v, n) == v

\* A value of type index becomes one of the type of the expression.
Converted(v, n) == IF v = Index THEN Convert(resolved[n]) ELSE v
BadCast(v, n) == v = Index /\ ~Castable(Index, resolved[n])

\* add_var: the last value of a name stays.
AddVars(scope, names, values) ==
  [name \in Range(names) |-> values[Max({k \in DOMAIN names : names[k] = name})]] @@ scope
AddVar(names, values) == env' = [env EXCEPT ![1] = AddVars(@, names, values)]

-----------------------------------------------------------------------------
(* Expressions. *)

GenerateOperands ==
  /\ Visiting({"arith", "cmp", "neg", "index"})
  /\ Calls(Append(DoAll("expr", Kids(Node), 0), Do(Kind(Node), Node, 0)))

GenerateLiteral ==
  /\ Visiting({"int", "float", "bool"})
  /\ Returns(0, <<resolved[Node]>>, << >>) /\ UNCHANGED <<env, blocks>>

\* get_var: the scopes from the inside out.
GenerateIdentifier ==
  /\ Visiting({"id"})
  /\ LET name == Names(Node)[1]
         in == {s \in DOMAIN env : name \in DOMAIN env[s]}
     IN  IF in = {} THEN fault' = "lost" /\ UNCHANGED <<prog, resolved, todo, vals>>
         ELSE /\ Go(<< >>)
              /\ vals' = <<<<env[CHOOSE s \in in : \A r \in in : s <= r][name]>>>> \o vals
              /\ UNCHANGED <<prog, resolved, fault>>
  /\ UNCHANGED <<env, blocks>>

\* flatten_tensor: the elements that are not literals.
Flattened ==
  LET leaves[n \in DOMAIN prog.node] ==
        IF Kind(n) = "tensor"
        THEN FlattenSeq([k \in DOMAIN Kids(n) |-> leaves[Kids(n)[k]]]) ELSE <<n>>
  IN  leaves[Node]

\* elements_op and stack_op: operands of one type, as many as the shape has.
GenerateTensor ==
  \/ /\ Visiting({"tensor"})
     /\ Calls(Append(DoAll("expr", Flattened, 0), Do("tensor", Node, 0)))
  \/ /\ At("tensor")
     /\ LET values == Returned(Len(Flattened))
            first == values[1]
            full == resolved[Node].shape
            outer == SubSeq(full, 1, Len(full) - Len(first.shape))
            size == FoldLeft(LAMBDA a, b : a * b, 1, outer)
        IN  Returns(Len(values), <<TensorOf(first.elem, outer \o first.shape)>>,
              <<<<"undefined", ~IsTensor(first) \/ Missing(values)>>,
                <<"invalid", \E k \in DOMAIN values : values[k] # first>>,
                <<"invalid", Len(values) # size>>>>)
     /\ UNCHANGED <<env, blocks>>

\* An operand of type index is converted if the other one is not.
GenerateBinary ==
  /\ At("arith") \/ At("cmp")
  /\ LET v == Returned(2)
         mixed == (v[1] = Index) # (v[2] = Index)
         c == IF mixed THEN [k \in 1 .. 2 |-> Converted(v[k], Kids(Node)[k])] ELSE v
     IN  Returns(2, <<IF At("cmp") THEN Convert(resolved[Node]) ELSE c[1]>>,
           <<<<"undefined", Missing(v) \/ Missing(c)>>,
             <<"invalid", mixed /\ \E k \in 1 .. 2 : BadCast(v[k], Kids(Node)[k])>>,
             <<"undefined", At("cmp") /\ ~IsTensor(c[1])>>,
             <<"invalid", c[1] # c[2]>>,
             <<"invalid", At("cmp") /\ Convert(resolved[Node]) # TensorOf("bool", c[1].shape)>>>>)
  /\ UNCHANGED <<env, blocks>>

GenerateUnary ==
  /\ At("neg")
  /\ LET v == vals[1][1] IN
     Returns(1, <<Converted(v, Node)>>,
       <<<<"undefined", Missing(<<v, Converted(v, Node)>>)>>, <<"invalid", BadCast(v, Node)>>>>)
  /\ UNCHANGED <<env, blocks>>

\* slice_op on the first axis.
GenerateIndexAccess ==
  /\ At("index")
  /\ LET v == Returned(2)  target == v[1] IN
     Returns(2, <<TensorOf(target.elem, Tail(target.shape))>>,
       <<<<"undefined", Missing(v) \/ ~IsTensor(target)>>,
         <<"invalid", ~Castable(v[2], Index) \/ target.shape = << >>>>>>)
  /\ UNCHANGED <<env, blocks>>

\* CallOp::verifySymbolUses, and a result that must have a type.
GenerateCall ==
  \/ /\ Visiting({"call"})
     /\ Calls(Append(DoAll("expr", Args(Node), 0), Do("call", Node, 0)))
  \/ /\ At("call")
     /\ LET args == Args(Node)
            v == Returned(Len(args))
            c == [k \in DOMAIN v |-> Converted(v[k], args[k])]
            name == Name(Callee(Node))
            to == {k \in DOMAIN Funcs : Name(Funcs[k]) = name}
            result == CASE name = "relu" -> c[1]
                        [] name = "print" -> Null
                        [] OTHER -> Convert(resolved[Node])
        IN  Returns(Len(args), <<result>>,
              <<<<"undefined", Missing(v) \/ Missing(c)>>,
                <<"invalid", \E k \in DOMAIN v : BadCast(v[k], args[k])>>,
                <<"undefined", name # "print" /\ result = Null>>,
                <<"invalid", name \notin {"relu", "print"} /\ to = {}>>,
                <<"invalid", \E k \in to : resolved[Funcs[k]] # FunctionType(c, result)>>>>)
     /\ UNCHANGED <<env, blocks>>

\* generate_expr has no case for an if or a for.
GenerateUnsupported ==
  /\ Visiting({"if", "for"})
  /\ fault' = "undefined" /\ UNCHANGED <<prog, resolved, todo, vals, env, blocks>>

-----------------------------------------------------------------------------
(* if and for, which have a value for every type they yield.  They are     *)
(* supported where a variable is declared, and as statements.              *)

\* generate_expr_tuple
GenerateTuple ==
  \/ At("tuple") /\ Kind(Node) \notin {"if", "for"} /\ Calls(<<Do("expr", Node, 0)>>)
  \/ At("tuple") /\ Kind(Node) = "if" /\ Calls(<<Do("expr", Cond(Node), 0), Do("if", Node, 0)>>)
  \/ /\ At("tuple") /\ Kind(Node) = "for"
     /\ Go(DoAll("expr", Inits(Node) \o Kids(Bounds(Node)), 0) \o <<Do("for", Node, 0)>>)
     /\ env' = <<<< >>>> \o env
     /\ UNCHANGED <<prog, resolved, vals, blocks, fault>>

\* The types of the results, and the fault if one has no type.
ResultTypes ==
  LET t == resolved[Node] IN IF t.con = "tuple" THEN t.parts ELSE ConvertResults(t)
BadTypes == <<"undefined", \E k \in DOMAIN ResultTypes : ~Convertible(ResultTypes[k])>>

Block(op, results) == [op |-> op, results |-> results, closed |-> FALSE]

\* A terminator that ends the innermost block with values.
Terminate(op, values, faults) ==
  /\ Go(<< >>) /\ blocks' = [blocks EXCEPT ![1].closed = TRUE]
  /\ fault' = First(faults \o
       <<<<"invalid", blocks[1].closed \/ blocks[1].op \notin op>>,
         <<"invalid", values # blocks[1].results>>>>)

\* At the end of a block it fills, an operation without a value is added if
\* there is no terminator.
Implicit == First(<<<<"invalid", ~blocks[1].closed /\ blocks[1].results # << >>>>>>)

\* A branch that is missing is an empty block.
GenerateIf ==
  \/ /\ At("if")
     /\ LET cond == vals[1][1] IN
        fault' = First(<<<<"undefined", cond = Null>>, BadTypes,
                         <<"invalid", blocks[1].closed \/ cond.shape # << >>>>>>)
     /\ Go(<<Do("block", Body(Node), 0), Do("then", Node, 0)>>)
     /\ vals' = Drop(1) /\ blocks' = <<Block("if", ResultTypes)>> \o blocks
     /\ UNCHANGED <<prog, resolved, env>>
  \/ /\ At("then")
     /\ Go(Append(IF HasElse(Node) THEN <<Do("block", Else(Node), 0)>> ELSE << >>,
                  Do("else", Node, 0)))
     /\ fault' = Implicit /\ blocks' = <<Block("if", ResultTypes)>> \o Tail(blocks)
     /\ UNCHANGED <<prog, resolved, vals, env>>
  \/ /\ At("else")
     /\ Go(<< >>) /\ vals' = <<ResultTypes>> \o vals
     /\ fault' = Implicit /\ blocks' = Tail(blocks)
     /\ UNCHANGED <<prog, resolved, env>>

\* The names enter the scope after the initial values and the bounds have been
\* generated; for_op::verify compares the body's arguments with the results,
\* from whose types they were made, and not the initial values.
GenerateFor ==
  \/ /\ At("for")
     /\ LET n == Len(Inits(Node))
            v == Returned(n + 2)
            names == <<Names(Node)[1]>> \o SubSeq(Tail(Names(Node)), 1, n)
        IN  /\ fault' = First(<<<<"undefined", Missing(v)>>, BadTypes,
                   <<"undefined", Len(ResultTypes) # n>>, <<"invalid", blocks[1].closed>>,
                   <<"invalid", ~Castable(v[n + 1], Index) \/ ~Castable(v[n + 2], Index)>>,
                   <<"mistyped", SubSeq(v, 1, n) # ResultTypes>>>>)
            /\ IF fault' = "undefined" THEN UNCHANGED env ELSE AddVar(names, <<Index>> \o ResultTypes)
            /\ Go(<<Do("block", Body(Node), 0), Do("for_end", Node, 0)>>)
            /\ vals' = Drop(n + 2) /\ blocks' = <<Block("for", ResultTypes)>> \o blocks
     /\ UNCHANGED <<prog, resolved>>
  \/ /\ At("for_end")
     /\ Go(<< >>) /\ vals' = <<ResultTypes>> \o vals /\ env' = Tail(env)
     /\ fault' = Implicit /\ blocks' = Tail(blocks)
     /\ UNCHANGED <<prog, resolved>>

-----------------------------------------------------------------------------
(* Statements and functions. *)

\* The values of a declaration or of a statement may be several.
GenerateValues ==
  /\ At("stmt") /\ Kids(Node) # << >>
  /\ \/ /\ Kind(Node) \in {"var", "expr_stmt"}
        /\ Calls(<<Do("tuple", Kids(Node)[1], 0), Do(Kind(Node), Node, 0)>>)
     \/ /\ Kind(Node) \in {"return", "yield"}
        /\ Calls(Append(DoAll("expr", Kids(Node), 0), Do(Kind(Node), Node, 0)))

GenerateVarDecl ==
  /\ At("var")
  /\ LET values == vals[1] IN
     /\ fault' = First(<<<<"undefined", Len(values) < Len(Names(Node))>>>>)
     /\ IF fault' = "none" THEN AddVar(Names(Node), values) ELSE UNCHANGED env
  /\ Go(<< >>) /\ vals' = Drop(1) /\ UNCHANGED <<prog, resolved, blocks>>

GenerateExprStmt ==
  /\ \/ At("expr_stmt") /\ vals' = Drop(1)
     \/ Stating({"expr_stmt"}) /\ Kids(Node) = << >> /\ UNCHANGED vals
  /\ Go(<< >>)
  /\ UNCHANGED <<prog, resolved, env, blocks, fault>>

\* func::ReturnOp is verified against the function, yield_op by the operation
\* around it.
GenerateTerminator ==
  /\ \/ At("return") \/ At("yield")
     \/ Stating({"return", "yield"}) /\ Kids(Node) = << >>
  /\ LET v == Returned(Len(Kids(Node))) IN
     Terminate(IF Kind(Node) = "return" THEN {"func"} ELSE {"if", "for"},
               v, <<<<"undefined", Missing(v)>>>>)
  /\ vals' = Drop(Len(Kids(Node)))
  /\ UNCHANGED <<prog, resolved, env>>

GenerateBlock ==
  \/ /\ At("block") \/ Stating({"block"})
     /\ Go(Append(DoAll("stmt", Kids(Node), 0), Do("remove_scope", Node, 0)))
     /\ env' = <<<< >>>> \o env /\ UNCHANGED <<prog, resolved, vals, blocks, fault>>
  \/ /\ At("remove_scope") /\ Go(<< >>)
     /\ env' = Tail(env) /\ UNCHANGED <<prog, resolved, vals, blocks, fault>>

\* Two functions of one name are one symbol too many for the module.
GenerateFunc ==
  \/ /\ At("func")
     /\ LET f == resolved[Node]
            args == [k \in DOMAIN Arguments(f) |-> Convert(Arguments(f)[k])]
        IN  /\ fault' = First(<<
                   <<"undefined", Missing(args)>>,
                   <<"invalid", \E k \in DOMAIN Funcs :
                                  Funcs[k] # Node /\ Name(Funcs[k]) = Name(Node)>>>>)
            /\ env' = <<AddVars(<< >>, Tail(Names(Node)), args)>> \o env
            /\ blocks' = <<Block("func", ConvertResults(Result(f)))>> \o blocks
     /\ Go(<<Do("block", Body(Node), 0), Do("func_end", Node, 0)>>)
     /\ UNCHANGED <<prog, resolved, vals>>
  \/ /\ At("func_end")
     /\ Go(<< >>) /\ fault' = Implicit
     /\ env' = Tail(env) /\ blocks' = Tail(blocks)
     /\ UNCHANGED <<prog, resolved, vals>>

Start ==
  /\ todo = DoAll("func", Funcs, 0)
  /\ vals = << >> /\ env = << >> /\ blocks = << >> /\ fault = "none"

Next ==
  \/ GenerateOperands \/ GenerateLiteral \/ GenerateIdentifier \/ GenerateTensor
  \/ GenerateBinary \/ GenerateUnary \/ GenerateIndexAccess \/ GenerateCall
  \/ GenerateUnsupported \/ GenerateTuple \/ GenerateIf \/ GenerateFor
  \/ GenerateValues \/ GenerateVarDecl \/ GenerateExprStmt \/ GenerateTerminator
  \/ GenerateBlock \/ GenerateFunc

Done == todo = << >> \/ fault # "none"

-----------------------------------------------------------------------------
\* A value has an MLIR type, or is missing.
IsValue(v) == v \in {Index, Null} \/ Convertible(v)

\* Values, variables and the types a block has to end with are MLIR types.
TypeOK ==
  /\ fault \in {"none", "lost", "undefined", "invalid", "mistyped"}
  /\ fault = "none" =>
       /\ \A k \in DOMAIN vals : \A j \in DOMAIN vals[k] : IsValue(vals[k][j])
       /\ \A s \in DOMAIN env : \A name \in DOMAIN env[s] : IsValue(env[s][name])
       /\ \A k \in DOMAIN blocks : \A j \in DOMAIN blocks[k].results :
            Convertible(blocks[k].results[j])

\* Every scope and every block has been left, and every value taken.
Closed == todo = << >> /\ fault = "none" => env = << >> /\ vals = << >> /\ blocks = << >>
=============================================================================
