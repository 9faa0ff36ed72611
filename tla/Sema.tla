-------------------------------- MODULE Sema --------------------------------
(***************************************************************************)
(* Semantic analysis: sema::scan of src/sema/sema.cpp with the scopes of   *)
(* src/sema/context.hpp.                                                   *)
(*                                                                         *)
(* As in Parser, todo is the call stack: entries [do, n, i], where do is   *)
(* "expr" or "stmt" (resolve_expr, resolve_stmt of node n), or a place in  *)
(* the middle of the procedure for node n, after the calls it makes; i is  *)
(* a loop counter, whether return is allowed, or the type of a callee.     *)
(* rets holds the types the calls have returned, the last one first.       *)
(*                                                                         *)
(* err.cnt is only ever tested for zero, so reported stands for it.        *)
(* Intrinsics are represented by relu (every unary one) and print.         *)
(***************************************************************************)
EXTENDS Ast

VARIABLES
  todo,       \* the call stack
  rets,       \* the types returned
  scopes,     \* context.variables, innermost first
  functions,  \* context.functions: type, parameter names and their types
  funcRet,    \* func_ret_type
  reported,   \* err.cnt # 0
  crashed     \* a type without an object was read

vars == <<prog, resolved, todo, rets, scopes, functions, funcRet, reported, crashed>>

-----------------------------------------------------------------------------
\* The procedure on top of the stack is at the place what.
At(what) == todo # << >> /\ ~crashed /\ Head(todo).do = what
Node == Head(todo).n

\* The last k types returned, in the order of the calls.
Returned(k) == Reverse(SubSeq(rets, 1, k))
Drop(k) == SubSeq(rets, k + 1, Len(rets))

Go(work) == todo' = work \o Tail(todo)
Err(bad) == reported' = (reported \/ bad)
\* Reading a type that has no object.  The parts of a tuple or tensor are not looked at:
\* the message of an error spells them too, and may crash where this goes on; a part
\* without an object comes from an expression that was reported before.
Deref(types) == crashed' = (\E t \in types : t = Null)
Set(n, t) == resolved' = [resolved EXCEPT ![n] = t]

\* Fault: a scope stays when its block ends.
KeepScope == scopes
PopScope == Tail(scopes)

\* The first of the declarations of each name.
FirstOf(names, types) ==
  [name \in Range(names) |-> types[Min({k \in DOMAIN names : names[k] = name})]]

\* Fault: a later declaration replaces an earlier one.
EmplaceOver(scope, names, types) ==
  [name \in DOMAIN scope \cup Range(names) |->
     IF name \in Range(names) THEN FirstOf(names, types)[name] ELSE scope[name]]

\* regist_variable: emplace, so the first declaration in a scope stays.
Emplace(scope, names, types) ==
  [name \in DOMAIN scope \cup Range(names) |->
     IF name \in DOMAIN scope THEN scope[name] ELSE FirstOf(names, types)[name]]
Regist(names, types) ==
  scopes' = [scopes EXCEPT ![1] = Emplace(@, names, types)]

\* Fault: the innermost scope only.
FoundInnermost(name) ==
  (scopes # << >> /\ name \in DOMAIN scopes[1]) \/ name \in DOMAIN functions

\* find_variable: the scopes from the inside out, then the functions.
Found(name) ==
  (\E s \in DOMAIN scopes : name \in DOMAIN scopes[s]) \/ name \in DOMAIN functions
Find(name) ==
  LET in == {s \in DOMAIN scopes : name \in DOMAIN scopes[s]} IN
  IF in # {} THEN scopes[CHOOSE s \in in : \A r \in in : s <= r][name]
  ELSE functions[name].type

FindYields(b) == {k \in DOMAIN Kids(b) : Kind(Kids(b)[k]) = "yield"}
FirstYield(b) == Kids(b)[Min(FindYields(b))]
ContainsReturn(b) == \E k \in DOMAIN Kids(b) : Kind(Kids(b)[k]) = "return"

\* A procedure calls others before it goes on.
Calls(work) ==
  Go(work) /\ UNCHANGED <<prog, resolved, rets, scopes, functions, funcRet, reported, crashed>>

\* It returns t, after k calls; bad if it reports an error.
Return(k, t, bad) ==
  /\ Go(<< >>) /\ rets' = <<t>> \o Drop(k) /\ Err(bad)
  /\ UNCHANGED <<prog, functions, funcRet>>

Visiting(kinds) == At("expr") /\ Kind(Node) \in kinds

-----------------------------------------------------------------------------
(* Expressions. *)

\* The operands come first.
ResolveOperands ==
  /\ Visiting({"tensor", "arith", "cmp", "neg", "index", "range"})
  /\ Calls(Append(DoAll("expr", Kids(Node), 0), Do(Kind(Node), Node, 0)))

Literals == [int |-> Scalar("i64"), float |-> Scalar("f64"), bool |-> Bool]

ResolveLiteral ==
  /\ Visiting(DOMAIN Literals)
  /\ Return(0, Literals[Kind(Node)], FALSE)
  /\ Set(Node, Literals[Kind(Node)])
  /\ UNCHANGED <<scopes, crashed>>

ResolveTensor ==
  /\ At("tensor")
  /\ LET types == Returned(Len(Kids(Node)))
         t == TensorOf(ElementOf(types[1]), <<Len(types)>> \o types[1].shape)
     IN  IF types # << >> /\ \A k \in DOMAIN types : types[k] = types[1]
         THEN Return(Len(types), t, FALSE) /\ Set(Node, t) /\ Deref({types[1]})
         ELSE Return(Len(types), Unknown, TRUE) /\ UNCHANGED <<resolved, crashed>>
  /\ UNCHANGED scopes

\* Fault: a name that is not found is no error.
ResolveIdentifierSilent ==
  /\ Visiting({"id"})
  /\ LET t == IF Found(Names(Node)[1]) THEN Find(Names(Node)[1]) ELSE Null IN
     Return(0, t, FALSE) /\ Set(Node, t)
  /\ UNCHANGED <<scopes, crashed>>

ResolveIdentifier ==
  /\ Visiting({"id"})
  /\ LET name == Names(Node)[1] IN
     IF Found(name) THEN Return(0, Find(name), FALSE) /\ Set(Node, Find(name))
     ELSE Return(0, Unknown, TRUE) /\ UNCHANGED resolved
  /\ UNCHANGED <<scopes, crashed>>

\* The message of an error reads the types it names.
ResolveBinary ==
  /\ At("arith") \/ At("cmp")
  /\ LET lt == rets[2]  rt == rets[1]
         t == IF At("arith") THEN lt
              ELSE IF IsTensor(lt) THEN TensorOf("bool", lt.shape) ELSE Bool
     IN  /\ Return(2, t, lt # rt) /\ Set(Node, t)
         /\ Deref((IF lt # rt THEN {lt, rt} ELSE {}) \cup (IF At("cmp") THEN {lt} ELSE {}))
  /\ UNCHANGED scopes

\* Fault: the type is returned but not recorded.
ResolveUnaryUnset ==
  At("neg") /\ Return(1, rets[1], FALSE) /\ UNCHANGED <<resolved, scopes, crashed>>

ResolveUnary ==
  /\ At("neg") /\ Return(1, rets[1], FALSE) /\ Set(Node, rets[1])
  /\ UNCHANGED <<scopes, crashed>>

ResolveIndexAccess ==
  /\ At("index")
  /\ LET lt == rets[2]  rt == rets[1]  t == TensorOf(lt.elem, Tail(lt.shape)) IN
     /\ Deref({lt})
     /\ IF IsTensor(lt) /\ rt \in Ints /\ lt.shape # << >>
        THEN Return(2, t, FALSE) /\ Set(Node, t)
        ELSE Return(2, Unknown, TRUE) /\ UNCHANGED resolved
  /\ UNCHANGED scopes

ResolveRange ==
  /\ At("range")
  /\ LET lt == rets[2]  rt == rets[1] IN
     /\ Return(2, lt, lt # rt \/ lt \notin Ints) /\ Set(Node, lt)
     /\ Deref(IF lt # rt THEN {lt, rt} ELSE {})
  /\ UNCHANGED scopes

-----------------------------------------------------------------------------
(* Calls. *)

Intrinsics == {"relu", "print"}
IsIntrinsic == Name(Callee(Node)) \in Intrinsics

\* The inference of an intrinsic asks the argument nodes for their types.
Infer ==
  LET a == resolved[Args(Node)[1]]
      ok == Len(Args(Node)) = 1 /\ IsTensor(a) /\ a.elem \in Elements \ {"bool"} IN
  IF Name(Callee(Node)) = "relu"
  THEN [type |-> IF ok THEN a ELSE Unknown, bad |-> ~ok,
        reads |-> IF Len(Args(Node)) = 1 THEN {a} ELSE {}]
  ELSE [type |-> IF Args(Node) = << >> THEN Unknown ELSE Void, bad |-> FALSE, reads |-> {}]

ResolveCall ==
  \/ /\ Visiting({"call"}) /\ IsIntrinsic
     /\ Calls(Append(DoAll("expr", Args(Node), 0), Do("intrinsic", Node, 0)))
  \/ /\ At("intrinsic")
     /\ Return(Len(Args(Node)), Infer.type, Infer.bad) /\ Deref(Infer.reads)
     /\ resolved' = [resolved EXCEPT ![Callee(Node)] = Unknown, ![Node] = Infer.type]
     /\ UNCHANGED scopes
  \/ /\ Visiting({"call"}) /\ ~IsIntrinsic
     /\ Calls(<<Do("expr", Callee(Node), 0), Do("callee", Node, 0)>>)
  \/ /\ At("callee") /\ rets[1].con # "function"
     /\ Return(1, Unknown, TRUE) /\ Deref({rets[1]})
     /\ UNCHANGED <<resolved, scopes>>
  \/ /\ At("callee") /\ rets[1].con = "function"
     /\ Len(Arguments(rets[1])) # Len(Args(Node))
     /\ Return(1, Result(rets[1]), TRUE) /\ Set(Node, Result(rets[1]))
     /\ UNCHANGED <<scopes, crashed>>
  \/ /\ At("callee") /\ rets[1].con = "function"
     /\ Len(Arguments(rets[1])) = Len(Args(Node))
     /\ Go(Append(DoAll("expr", Args(Node), 0), Do("args", Node, rets[1]))) /\ rets' = Drop(1)
     /\ UNCHANGED <<prog, resolved, scopes, functions, funcRet, reported, crashed>>
  \/ /\ At("args")
     /\ LET types == Returned(Len(Args(Node)))  f == Head(todo).i IN
        /\ Return(Len(types), Result(f), types # Arguments(f))
        /\ Set(Node, Result(f))
     /\ UNCHANGED <<scopes, crashed>>

-----------------------------------------------------------------------------
(* if and for. *)

\* What block b yields: the type of its first yield.
YieldOf(b) ==
  IF FindYields(b) = {} THEN Void ELSE resolved[FirstYield(b)]

ResolveIf ==
  \/ /\ Visiting({"if"})
     /\ Calls(<<Do("expr", Cond(Node), 0), Do("condition", Node, 0)>>)
  \/ /\ At("condition")
     /\ Go(<<Do("block", Body(Node), 0), Do("then", Node, 0)>>)
     /\ rets' = Drop(1) /\ Err(rets[1] # Bool)
     /\ UNCHANGED <<prog, resolved, scopes, functions, funcRet, crashed>>
  \/ /\ At("then")
     /\ LET b == Body(Node)  yields == FindYields(b) # {} IN
        /\ resolved' = [resolved EXCEPT ![Node] = YieldOf(b), ![b] = YieldOf(b)]
        /\ IF HasElse(Node)
           THEN /\ Go(<<Do("block", Else(Node), 0), Do("else", Node, 0)>>)
                /\ Err(ContainsReturn(b)) /\ UNCHANGED <<prog, rets, functions, funcRet>>
           ELSE Return(0, IF yields THEN Unknown ELSE Void, yields \/ ContainsReturn(b))
     /\ UNCHANGED <<scopes, crashed>>
  \/ /\ At("else")
     /\ LET b == Else(Node)
            yields == FindYields(b) # {}
            bad == \/ yields # (FindYields(Body(Node)) # {})
                   \/ yields /\ YieldOf(b) # resolved[Node]
            t == IF yields THEN resolved[Node] ELSE Void
        IN  /\ Return(0, IF bad THEN Unknown ELSE t, bad \/ ContainsReturn(b))
            /\ resolved' = [resolved EXCEPT ![Node] = t, ![b] = IF yields THEN YieldOf(b) ELSE @]
     /\ UNCHANGED <<scopes, crashed>>

DoInits ==
  [j \in 1 .. 2 * Len(Inits(Node)) |->
     IF j % 2 = 1 THEN Do("expr", Inits(Node)[(j + 1) \div 2], 0) ELSE Do("init", Node, j \div 2)]

\* The loop's scope holds the iterator, then each initial value as soon as it
\* is resolved.
ResolveForHead ==
  \/ /\ Visiting({"for"})
     /\ Calls(<<Do("expr", Bounds(Node), 0), Do("for", Node, 0)>>)
  \/ /\ At("for")
     /\ Go(DoInits \o <<Do("block", Body(Node), 0), Do("for_end", Node, 0)>>)
     /\ scopes' = <<[name \in {Names(Node)[1]} |-> rets[1]]>> \o scopes
     /\ Set(Node, rets[1]) /\ rets' = Drop(1)
     /\ Err(rets[1] \notin Ints) /\ Deref({rets[1]} \ Ints)
     /\ UNCHANGED <<prog, functions, funcRet>>
  \/ /\ At("init")
     /\ Go(<< >>) /\ rets' = Drop(1)
     /\ Regist(<<Names(Node)[1 + Head(todo).i]>>, <<rets[1]>>)
     /\ UNCHANGED <<prog, resolved, functions, funcRet, reported, crashed>>

ResolveForEnd ==
  /\ At("for_end")
  /\ LET b == Body(Node)
         inits == Inits(Node)
         expect == [k \in DOMAIN inits |-> resolved[inits[k]]]
         yields == FindYields(b) # {}
         values == IF yields THEN Kids(FirstYield(b)) ELSE << >>
         actual == [k \in DOMAIN values |-> resolved[values[k]]]
         differ == IF Len(values) # Len(inits) THEN {}
                   ELSE {k \in DOMAIN inits : expect[k] # actual[k]}
         t == IF inits = << >> THEN Void ELSE TupleType(expect)
     IN  /\ Return(0, t, ContainsReturn(b) \/ Len(values) # Len(inits) \/ differ # {})
         /\ resolved' = [resolved EXCEPT ![Node] = t, ![b] = YieldOf(b)]
         /\ Deref({expect[k] : k \in differ} \cup {actual[k] : k \in differ})
  /\ scopes' = PopScope

-----------------------------------------------------------------------------
(* Statements.  A statement returns nothing. *)

\* It ends, after k calls.
Ends(k, bad) ==
  /\ Go(<< >>) /\ rets' = Drop(k) /\ Err(bad)
  /\ UNCHANGED <<prog, functions, funcRet>>

Stating(kind) == At("stmt") /\ Kind(Node) = kind
Allowed == Head(todo).i = 1  \* allow_return

\* Statements whose values are resolved first.
ResolveValues ==
  /\ At("stmt") /\ Kids(Node) # << >>
  /\ \/ Kind(Node) \in {"var", "yield", "expr_stmt"}
     \/ Kind(Node) = "return" /\ Allowed
  /\ Calls(Append(DoAll("expr", Kids(Node), 0), Do(Kind(Node), Node, 0)))

ResolveVarDecl ==
  /\ At("var")
  /\ LET t == rets[1]
         names == Names(Node)
         types == IF t.con = "tuple" THEN t.parts ELSE <<t>>
         fits == Len(names) = Len(types)
     IN  /\ Ends(1, ~fits \/ \E k \in DOMAIN types : types[k] = Void)
         /\ IF fits THEN Regist(names, types) ELSE UNCHANGED scopes
         /\ Set(Node, t) /\ Deref({t})

\* Without a value, a return is of type void.
ResolveReturn ==
  \/ Stating("return") /\ ~Allowed /\ Ends(0, TRUE) /\ UNCHANGED <<resolved, scopes, crashed>>
  \/ /\ \/ Stating("return") /\ Allowed /\ Kids(Node) = << >>
        \/ At("return")
     /\ LET t == IF At("return") THEN rets[1] ELSE Void IN
        /\ Ends(Len(Kids(Node)), t # funcRet)
        /\ Set(Node, t) /\ Deref(IF t # funcRet THEN {t} ELSE {})
     /\ UNCHANGED scopes

ResolveYield ==
  \/ Stating("yield") /\ Kids(Node) = << >> /\ Ends(0, TRUE) /\ UNCHANGED <<resolved, scopes, crashed>>
  \/ /\ At("yield") /\ Ends(Len(Kids(Node)), FALSE)
     /\ Set(Node, TupleType(Returned(Len(Kids(Node)))))
     /\ UNCHANGED <<scopes, crashed>>

ResolveExprStmt ==
  \/ Stating("expr_stmt") /\ Kids(Node) = << >> /\ Ends(0, FALSE) /\ UNCHANGED <<resolved, scopes, crashed>>
  \/ /\ At("expr_stmt") /\ Ends(1, FALSE)
     /\ Set(Node, resolved[Kids(Node)[1]])
     /\ UNCHANGED <<scopes, crashed>>

ResolveBlock ==
  \/ /\ At("block") \/ Stating("block")
     /\ Go(Append(DoAll("stmt", Kids(Node), 0), Do("pop_scope", Node, 0)))
     /\ scopes' = <<<< >>>> \o scopes
     /\ UNCHANGED <<prog, resolved, rets, functions, funcRet, reported, crashed>>
  \/ /\ At("pop_scope") /\ Ends(0, FALSE)
     /\ scopes' = PopScope /\ UNCHANGED <<resolved, crashed>>

-----------------------------------------------------------------------------
(* Functions. *)

\* resolve_type: dimensions make a tensor of whatever the name is.  A parameter
\* without a type, which has the name "", gets the unknown type as well.
ResolveType(t) ==
  LET base == CASE t.base \in Elements -> Scalar(t.base)
                [] t.base = "void" -> Void
                [] OTHER -> Unknown
  IN  IF t.dims = << >> THEN base ELSE TensorOf(ElementOf(base), t.dims)
UnknownType(t) == t.base \notin Elements \cup {"void"}

ResolveFuncDecl ==
  /\ At("declare")
  /\ LET d == prog.node[Node]
         types == [k \in DOMAIN d.types |-> ResolveType(d.types[k])]
         t == FunctionType(SubSeq(types, 1, Len(types) - 1), types[Len(types)])
     IN  /\ Go(<< >>) /\ Err(\E k \in DOMAIN types : UnknownType(d.types[k]))
         /\ functions' = Emplace(functions, <<Name(Node)>>, <<[type |-> t, args |-> Tail(d.names)]>>)
         /\ Set(Node, t)
  /\ UNCHANGED <<prog, rets, scopes, funcRet, crashed>>

\* The parameters and the statements of the body share one scope.
ResolveFuncBlock ==
  \/ /\ At("func")
     /\ LET f == functions[Name(Node)] IN
        /\ funcRet' = Result(f.type)
        /\ scopes' = <<FirstOf(f.args, Arguments(f.type))>> \o scopes
     /\ Go(Append(DoAll("stmt", Kids(Body(Node)), 1), Do("func_end", Node, 0)))
     /\ UNCHANGED <<prog, resolved, rets, functions, reported, crashed>>
  \/ /\ At("func_end")
     /\ LET b == Body(Node) IN
        Ends(0, FindYields(b) # {} \/ (~ContainsReturn(b) /\ funcRet # Void))
     /\ scopes' = PopScope /\ UNCHANGED <<resolved, crashed>>

\* scan: every function is declared before the first body.
Init ==
  /\ prog \in Programs
  /\ resolved = [n \in DOMAIN prog.node |-> Null]
  /\ todo = DoAll("declare", Funcs, 0) \o DoAll("func", Funcs, 0)
  /\ rets = << >> /\ scopes = << >> /\ functions = << >> /\ funcRet = Void
  /\ reported = FALSE /\ crashed = FALSE

Next ==
  \/ ResolveOperands \/ ResolveLiteral \/ ResolveTensor \/ ResolveIdentifier
  \/ ResolveBinary \/ ResolveUnary \/ ResolveCall \/ ResolveIndexAccess \/ ResolveRange
  \/ ResolveIf \/ ResolveForHead \/ ResolveForEnd
  \/ ResolveValues \/ ResolveVarDecl \/ ResolveReturn \/ ResolveYield \/ ResolveExprStmt
  \/ ResolveBlock \/ ResolveFuncDecl \/ ResolveFuncBlock

Spec == Init /\ [][Next]_vars

Done == todo = << >> \/ crashed

-----------------------------------------------------------------------------
Constructors == {"tensor", "void", "unknown", "function", "tuple", "null"}

\* A type has one of the constructors of type.hpp, or no object; the parameters
\* a function is declared with are those of its type.
TypeOK ==
  /\ \A n \in DOMAIN resolved : resolved[n].con \in Constructors
  /\ \A s \in DOMAIN scopes : \A name \in DOMAIN scopes[s] :
       scopes[s][name].con \in Constructors
  /\ \A name \in DOMAIN functions :
       LET f == functions[name] IN
       f.type.con = "function" /\ Len(f.args) = Len(Arguments(f.type))

\* Every expression and every statement with a value has a type when semantic
\* analysis has ended without an error: code generation will not read a type
\* that was never set.
AllTyped ==
  Done /\ ~reported =>
    \A n \in DOMAIN prog.node :
      Kind(n) \in Expressions \cup {"var", "return", "yield"} => resolved[n] # Null

\* What reads a type without an object does so after an error was reported: a
\* program is never lost without a message.
CrashOnlyReported == crashed => reported

\* The scopes that a step leaves open keep the type of every name they hold:
\* neither a later declaration nor the end of an inner scope changes what a
\* name means.
BindingsStay ==
  [][\A d \in 1 .. Len(scopes) :
       d <= Len(scopes') =>
         LET old == Reverse(scopes)[d]  new == Reverse(scopes')[d] IN
         \A name \in DOMAIN old : name \in DOMAIN new /\ new[name] = old[name]]_vars

\* Every scope that was opened has been closed, and every type returned used.
Closed == Done /\ ~crashed => scopes = << >> /\ rets = << >>
=============================================================================
