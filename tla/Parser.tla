------------------------------- MODULE Parser -------------------------------
(***************************************************************************)
(* The recursive-descent parser of src/parse/parser.cpp.                   *)
(*                                                                         *)
(* The C++ call stack is the variable todo: the work that remains, in      *)
(* order.  An entry of todo is                                             *)
(*   - a token type: a pending match(t);                                   *)
(*   - the name of a parse_* procedure, or of a place inside one where it  *)
(*     looks ahead and decides (a loop head, an optional part);            *)
(*   - the kind of an AST node, to be built from what has been parsed.     *)
(* One action executes the first entry and replaces it by what it calls.   *)
(*                                                                         *)
(* The tree is kept as the sequence ast of its nodes in the order they are *)
(* completed; "Begin" marks where the children of a node of variable arity *)
(* start.  It is recorded while no error has been reported: main.cpp exits *)
(* on the first chkerr() after a report, so no other tree is ever read.    *)
(***************************************************************************)
EXTENDS Naturals, Sequences, FiniteSets

CONSTANTS
  Streams,    \* the token sequences the lexer may hand over
  Sentences,  \* programs of the language with their trees, from Grammar
  MaxErr      \* err.cnt saturates here; the code only tests cnt # 0

\* The six comparison operators share every rule, so one type stands for them.
TokenTypes ==
  {"num", "id", "true", "false", "for", "in", "init", "var", "func", "ret",
   "yield", "if", "else", "lparen", "rparen", "lbracket", "rbracket",
   "lbrace", "rbrace", "semi", "comma", "dot", "colon", "add", "sub", "mul",
   "div", "eq", "cmp", "arrow", "eof"}

\* nl: the token's line is greater than the line of the token before it.
Token == [type : TokenTypes, nl : BOOLEAN]

ASSUME StreamsAssumption ==
  \A s \in Streams :
    /\ s \in Seq(Token)
    /\ \A i \in 1 .. Len(s) : (s[i].type = "eof") <=> (i = Len(s))
    /\ s # << >> /\ ~s[Len(s)].nl

ASSUME MaxErrAssumption == MaxErr \in Nat \ {0}

Decisions ==
  {"scan", "resync", "parse_type", "dims", "dim_loop", "dim_sep", "parse_param",
   "param_type", "parse_func_decl", "param_loop", "param_sep", "ret_type",
   "parse_block", "stmt_loop", "after_stmt", "semis", "parse_stmt",
   "parse_var_decl", "more_vars", "parse_if_expr", "else_part",
   "parse_for_expr", "init_part", "init_loop", "init_sep", "parse_expr_stmt",
   "parse_return_stmt", "ret_value", "parse_yield_stmt", "yield_first",
   "yield_loop", "yield_sep", "parse_range_expr", "parse_tensor",
   "tensor_loop", "tensor_sep", "parse_identifier", "parse_value",
   "parse_call_expr", "call_args", "arg_loop", "arg_sep",
   "parse_index_access", "index_loop", "parse_expr", "cmp_rest",
   "parse_add_sub", "add_rest", "parse_mul_div", "mul_rest"}

NodeKinds ==
  {"Begin", "Root", "TypeDef", "Dim", "Param", "FuncDecl", "BlockStmt", "Name",
   "VarDecl", "IfExpr", "ForExpr", "ExprStmt", "ReturnStmt", "YieldStmt",
   "RangeExpr", "Number", "Bool", "Tensor", "Identifier", "CallExpr",
   "IndexAccess", "Cmp", "Add", "Sub", "Mul", "Div", "Neg"}

VARIABLES
  tokens,  \* the token vector, constant during the parse
  ptr,     \* parser.ptr, counted from 1
  errs,    \* err.cnt, saturating at MaxErr
  todo,    \* the call stack: what is still to be done, first things first
  ast      \* the tree built so far

vars == <<tokens, ptr, errs, todo, ast>>

-----------------------------------------------------------------------------
\* lookahead(t): the current token has type t.
Look(t) == tokens[ptr].type = t

LookAny(T) == tokens[ptr].type \in T

\* this_token_in_next_line()
NewLine == tokens[ptr].nl

\* Fault: next() without its test for eof.
NextPtrPastEof == ptr + 1

\* next(): never moves past eof.
NextPtr == IF Look("eof") THEN ptr ELSE ptr + 1

CountError == errs' = IF errs < MaxErr THEN errs + 1 ELSE errs

\* The first entry of todo is op, and the entries of work replace it.
Replace(op, work) ==
  /\ todo # << >> /\ Head(todo) = op
  /\ todo' = work \o Tail(todo)
  /\ UNCHANGED tokens

\* Decide what op does next without reading a token.
Decide(op, work) == Replace(op, work) /\ UNCHANGED <<ptr, errs, ast>>

\* The same, after a plain next().
Advance(op, work) ==
  Replace(op, work) /\ ptr' = NextPtr /\ UNCHANGED <<errs, ast>>

\* The same, reporting an error where the parser stands.
Report(op, work) == Replace(op, work) /\ CountError /\ UNCHANGED <<ptr, ast>>

\* match(t): the current token is consumed even when it is not t.
Match(t) ==
  /\ Replace(t, << >>)
  /\ ptr' = NextPtr
  /\ IF Look(t) THEN UNCHANGED errs ELSE CountError
  /\ UNCHANGED ast

\* A node is complete.
Build(n) ==
  /\ Replace(n, << >>)
  /\ ast' = IF errs = 0 THEN Append(ast, n) ELSE ast
  /\ UNCHANGED <<ptr, errs>>

-----------------------------------------------------------------------------
(* Types, parameters and functions. *)

ParseType ==
  \/ Decide("parse_type", <<"Begin", "id", "dims", "TypeDef">>)
  \/ Decide("dims", IF Look("lbracket") THEN <<"lbracket", "dim_loop", "rbracket">>
                    ELSE << >>)
  \/ Decide("dim_loop", IF Look("rbracket") THEN << >>
                        ELSE <<"Dim", "num", "dim_sep", "dim_loop">>)
  \/ Look("comma") /\ Decide("dim_sep", <<"comma">>)
  \/ Look("num") /\ Report("dim_sep", << >>)
  \/ ~LookAny({"comma", "num"}) /\ Decide("dim_sep", << >>)

ParseParam ==
  \/ Decide("parse_param", <<"Begin", "id", "param_type", "Param">>)
  \/ Decide("param_type", IF Look("colon") THEN <<"colon", "parse_type">>
                          ELSE << >>)

\* Fault: the parameter list is not closed by ')'.
ParseFuncDeclOpen ==
  \/ Decide("parse_func_decl",
            <<"Begin", "func", "id", "lparen", "param_loop", "rparen",
              "ret_type", "parse_block", "FuncDecl">>)
  \/ Decide("param_loop", <<"parse_param", "param_sep", "param_loop">>)
  \/ Look("comma") /\ Decide("param_sep", <<"comma">>)
  \/ ~Look("comma") /\ Decide("param_sep", << >>)
  \/ Decide("ret_type", IF Look("arrow") THEN <<"arrow", "parse_type">>
                        ELSE << >>)

ParseFuncDecl ==
  \/ Decide("parse_func_decl",
            <<"Begin", "func", "id", "lparen", "param_loop", "rparen",
              "ret_type", "parse_block", "FuncDecl">>)
  \/ Decide("param_loop", IF Look("rparen") THEN << >>
                          ELSE <<"parse_param", "param_sep", "param_loop">>)
  \/ Look("comma") /\ Decide("param_sep", <<"comma">>)
  \/ Look("rparen") /\ Decide("param_sep", << >>)
  \/ ~LookAny({"comma", "rparen"}) /\ Report("param_sep", << >>)
  \/ Decide("ret_type", IF Look("arrow") THEN <<"arrow", "parse_type">>
                        ELSE << >>)

-----------------------------------------------------------------------------
(* Blocks and statements. *)

\* A block is one statement, or statements in braces up to '}' or eof.
ParseBlock ==
  \/ Decide("parse_block",
            IF Look("lbrace")
            THEN <<"Begin", "lbrace", "stmt_loop", "rbrace", "BlockStmt">>
            ELSE <<"Begin", "parse_stmt", "BlockStmt">>)
  \/ Decide("stmt_loop", IF Look("rbrace") THEN << >>
                         ELSE <<"parse_stmt", "after_stmt">>)
  \/ Decide("after_stmt", IF Look("eof") THEN << >>
                          ELSE <<"semis", "stmt_loop">>)
  \/ Decide("semis", IF Look("semi") THEN <<"semi", "semis">> ELSE << >>)

\* Fault: a token no statement starts with is reported but not skipped.
ParseStmtStuck ==
  \/ Look("var") /\ Decide("parse_stmt", <<"parse_var_decl">>)
  \/ LookAny({"if", "for", "id"}) /\ Decide("parse_stmt", <<"parse_expr_stmt">>)
  \/ Look("ret") /\ Decide("parse_stmt", <<"parse_return_stmt">>)
  \/ Look("yield") /\ Decide("parse_stmt", <<"parse_yield_stmt">>)
  \/ /\ ~LookAny({"var", "if", "for", "id", "ret", "yield"})
     /\ Report("parse_stmt", << >>)

ParseStmt ==
  \/ Look("var") /\ Decide("parse_stmt", <<"parse_var_decl">>)
  \/ LookAny({"if", "for", "id"}) /\ Decide("parse_stmt", <<"parse_expr_stmt">>)
  \/ Look("ret") /\ Decide("parse_stmt", <<"parse_return_stmt">>)
  \/ Look("yield") /\ Decide("parse_stmt", <<"parse_yield_stmt">>)
  \/ /\ ~LookAny({"var", "if", "for", "id", "ret", "yield"})
     /\ Replace("parse_stmt", << >>)
     /\ CountError /\ ptr' = NextPtr /\ UNCHANGED ast

ParseVarDecl ==
  \/ Decide("parse_var_decl",
            <<"Begin", "var", "Name", "id", "more_vars", "eq", "parse_expr",
              "VarDecl">>)
  \/ Decide("more_vars", IF Look("comma")
                         THEN <<"comma", "Name", "id", "more_vars">>
                         ELSE << >>)

ParseIfExpr ==
  \/ Decide("parse_if_expr",
            <<"Begin", "if", "parse_expr", "parse_block", "else_part", "IfExpr">>)
  \/ Decide("else_part", IF Look("else") THEN <<"else", "parse_block">>
                         ELSE << >>)

ParseRangeExpr ==
  Decide("parse_range_expr",
         <<"parse_expr", "dot", "dot", "parse_expr", "RangeExpr">>)

ParseForExpr ==
  \/ Decide("parse_for_expr",
            <<"Begin", "for", "Name", "id", "in", "parse_range_expr",
              "init_part", "parse_block", "ForExpr">>)
  \/ Decide("init_part", IF Look("init")
                         THEN <<"init", "lparen", "init_loop", "rparen">>
                         ELSE << >>)
  \/ Decide("init_loop", IF Look("rparen") THEN << >>
                         ELSE <<"Name", "id", "eq", "parse_expr", "init_sep">>)
  \/ Look("comma") /\ Decide("init_sep", <<"comma", "init_loop">>)
  \/ Look("rparen") /\ Decide("init_sep", << >>)
  \/ ~LookAny({"comma", "rparen"}) /\ Decide("init_sep", <<"init_loop">>)

ParseExprStmt ==
  \/ Look("if") /\ Decide("parse_expr_stmt", <<"parse_if_expr", "ExprStmt">>)
  \/ Look("for") /\ Decide("parse_expr_stmt", <<"parse_for_expr", "ExprStmt">>)
  \/ Look("id") /\ Decide("parse_expr_stmt", <<"parse_call_expr", "ExprStmt">>)

\* The tokens return and yield take for the start of an expression.
StartsOperand ==
  LookAny({"id", "num", "true", "false", "add", "sub", "lparen", "lbracket"})

\* return and yield end at ';' or at a line break.
EndsHere == Look("semi") \/ NewLine

ParseReturnStmt ==
  \/ Decide("parse_return_stmt", <<"Begin", "ret", "ret_value", "ReturnStmt">>)
  \/ Decide("ret_value", IF ~EndsHere /\ StartsOperand THEN <<"parse_expr">>
                         ELSE << >>)

ParseYieldStmt ==
  \/ Decide("parse_yield_stmt", <<"Begin", "yield", "yield_first", "YieldStmt">>)
  \/ Decide("yield_first", IF EndsHere THEN << >> ELSE <<"yield_loop">>)
  \/ Decide("yield_loop", IF StartsOperand THEN <<"parse_expr", "yield_sep">>
                          ELSE << >>)
  \/ Look("comma") /\ Decide("yield_sep", <<"comma", "yield_loop">>)
  \/ ~Look("comma") /\ Decide("yield_sep", IF EndsHere THEN << >>
                                           ELSE <<"yield_loop">>)

-----------------------------------------------------------------------------
(* Expressions, loosest binding first. *)

ParseCmpExpr ==
  \/ Decide("parse_expr", <<"parse_add_sub", "cmp_rest">>)
  \/ Look("cmp") /\ Advance("cmp_rest", <<"parse_add_sub", "Cmp">>)
  \/ ~Look("cmp") /\ Decide("cmp_rest", << >>)

\* Fault: the right operand of + and - is a value, not a product.
ParseAddSubFlat ==
  \/ Decide("parse_add_sub", <<"parse_mul_div", "add_rest">>)
  \/ Look("add") /\ Advance("add_rest", <<"parse_value", "Add", "add_rest">>)
  \/ Look("sub") /\ Advance("add_rest", <<"parse_value", "Sub", "add_rest">>)
  \/ ~LookAny({"add", "sub"}) /\ Decide("add_rest", << >>)

ParseAddSub ==
  \/ Decide("parse_add_sub", <<"parse_mul_div", "add_rest">>)
  \/ Look("add") /\ Advance("add_rest", <<"parse_mul_div", "Add", "add_rest">>)
  \/ Look("sub") /\ Advance("add_rest", <<"parse_mul_div", "Sub", "add_rest">>)
  \/ ~LookAny({"add", "sub"}) /\ Decide("add_rest", << >>)

ParseMulDiv ==
  \/ Decide("parse_mul_div", <<"parse_value", "mul_rest">>)
  \/ Look("mul") /\ Advance("mul_rest", <<"parse_value", "Mul", "mul_rest">>)
  \/ Look("div") /\ Advance("mul_rest", <<"parse_value", "Div", "mul_rest">>)
  \/ ~LookAny({"mul", "div"}) /\ Decide("mul_rest", << >>)

\* Fault: the minus sign is looked at but not consumed.
ParseUnaryLeftRecursive == Decide("parse_value", <<"parse_value", "Neg">>)

ParseUnary == Advance("parse_value", <<"parse_value", "Neg">>)

\* parse_number and parse_bool_literal
ParseLiteral ==
  \/ Look("num") /\ Decide("parse_value", <<"Number", "num">>)
  \/ LookAny({"true", "false"}) /\ Advance("parse_value", <<"Bool">>)

\* The second token of lookahead tells a call, an index and a name apart.
ParseValue ==
  \/ ParseLiteral
  \/ /\ Look("id")
     /\ Decide("parse_value",
               CASE tokens[ptr + 1].type = "lparen" -> <<"parse_call_expr">>
                 [] tokens[ptr + 1].type = "lbracket" -> <<"parse_index_access">>
                 [] OTHER -> <<"parse_identifier">>)
  \/ Look("lbracket") /\ Decide("parse_value", <<"parse_tensor">>)
  \/ Look("lparen") /\ Decide("parse_value", <<"lparen", "parse_expr", "rparen">>)
  \/ Look("sub") /\ ParseUnary
  \/ Look("if") /\ Decide("parse_value", <<"parse_if_expr">>)
  \/ Look("for") /\ Decide("parse_value", <<"parse_for_expr">>)
  \/ /\ ~LookAny({"num", "true", "false", "id", "lbracket", "lparen", "sub",
                  "if", "for"})
     /\ Replace("parse_value", << >>)
     /\ CountError /\ ptr' = NextPtr /\ UNCHANGED ast

ParseCallExpr ==
  \/ Decide("parse_call_expr", <<"parse_identifier", "call_args">>)
  \/ Decide("parse_identifier", <<"Identifier", "id">>)
  \/ Decide("call_args", IF Look("lparen")
                         THEN <<"Begin", "lparen", "arg_loop", "rparen", "CallExpr">>
                         ELSE << >>)
  \/ Decide("arg_loop", IF Look("rparen") THEN << >>
                        ELSE <<"parse_expr", "arg_sep", "arg_loop">>)
  \/ Look("comma") /\ Decide("arg_sep", <<"comma">>)
  \/ Look("rparen") /\ Decide("arg_sep", << >>)
  \/ ~LookAny({"comma", "rparen"}) /\ Report("arg_sep", << >>)

ParseIndexAccess ==
  \/ Decide("parse_index_access", <<"parse_identifier", "index_loop">>)
  \/ Decide("index_loop", IF Look("lbracket")
                          THEN <<"lbracket", "parse_expr", "rbracket",
                                 "IndexAccess", "index_loop">>
                          ELSE << >>)

\* Fault: values need no comma between them, as in a yield statement.
ParseTensorNoComma ==
  \/ Decide("parse_tensor", <<"Begin", "lbracket", "tensor_loop", "rbracket", "Tensor">>)
  \/ Decide("tensor_loop", IF Look("rbracket") THEN << >>
                           ELSE <<"parse_expr", "tensor_sep", "tensor_loop">>)
  \/ Look("comma") /\ Decide("tensor_sep", <<"comma">>)
  \/ ~Look("comma") /\ Decide("tensor_sep", << >>)

ParseTensor ==
  \/ Decide("parse_tensor", <<"Begin", "lbracket", "tensor_loop", "rbracket", "Tensor">>)
  \/ Decide("tensor_loop", IF Look("rbracket") THEN << >>
                           ELSE <<"parse_expr", "tensor_sep", "tensor_loop">>)
  \/ Look("comma") /\ Decide("tensor_sep", <<"comma">>)
  \/ Look("rbracket") /\ Decide("tensor_sep", << >>)
  \/ ~LookAny({"comma", "rbracket"}) /\ Report("tensor_sep", << >>)

-----------------------------------------------------------------------------
\* scan(): functions up to eof; anything else is reported and skipped up to
\* the next 'func'.
Scan ==
  \/ Look("eof") /\ Decide("scan", <<"Root">>)
  \/ Look("func") /\ Decide("scan", <<"parse_func_decl", "scan">>)
  \/ ~LookAny({"eof", "func"}) /\ Report("scan", <<"resync", "scan">>)
  \/ LookAny({"eof", "func"}) /\ Decide("resync", << >>)
  \/ ~LookAny({"eof", "func"}) /\ Advance("resync", <<"resync">>)

Init ==
  /\ tokens \in Streams
  /\ ptr = 1 /\ errs = 0
  /\ todo = <<"Begin", "scan">>
  /\ ast = << >>

Next ==
  \/ \E t \in TokenTypes : Match(t)
  \/ \E n \in NodeKinds : Build(n)
  \/ Scan \/ ParseType \/ ParseParam \/ ParseFuncDecl
  \/ ParseBlock \/ ParseStmt \/ ParseVarDecl \/ ParseIfExpr
  \/ ParseForExpr \/ ParseRangeExpr
  \/ ParseExprStmt \/ ParseReturnStmt \/ ParseYieldStmt
  \/ ParseCmpExpr \/ ParseAddSub \/ ParseMulDiv \/ ParseValue
  \/ ParseCallExpr \/ ParseIndexAccess \/ ParseTensor

Spec == Init /\ [][Next]_vars

\* One thread runs the parser to completion: while it has a step it takes it.
FairSpec == Spec /\ WF_vars(Next)

Done == todo = << >>

-----------------------------------------------------------------------------
(* Properties. *)

Programs == {s.words : s \in Sentences}

\* The parser only reads tokens that exist: one token of lookahead past an
\* identifier, and for a line break the token before the current one.
TypeOK ==
  /\ tokens \in Seq(Token)
  /\ ptr \in 1 .. Len(tokens)
  /\ errs \in 0 .. MaxErr
  /\ todo \in Seq(TokenTypes \cup Decisions \cup NodeKinds)
  /\ ast \in Seq(NodeKinds)
  /\ ~Done /\ Head(todo) \in {"ret_value", "yield_first", "yield_sep"} => ptr > 1

\* A program of the language is parsed without an error, and into the tree
\* its grammar gives it: precedence, associativity, list nesting, and the line
\* breaks that end return and yield all come out right.
SentencesParse ==
  Done /\ tokens \in Programs =>
    errs = 0 /\ [words |-> tokens, tree |-> ast] \in Sentences

\* Nothing recurses without consuming: the call stack is bounded by a constant
\* for each token consumed, so no left recursion hides in the procedures.
StackBounded == Len(todo) <= 8 * ptr + 2

\* Every token sequence is read to its end, and answered: error recovery never
\* spins on a token it does not consume, and there is no silent hang at the end.
Answers == <>(Look("eof") /\ (Done \/ errs > 0))

\* Parsing a program of the language ends.
SentencesEnd == tokens \in Programs => <>Done
=============================================================================
