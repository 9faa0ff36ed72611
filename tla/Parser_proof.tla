---------------------------- MODULE Parser_proof ----------------------------
(***************************************************************************)
(* That the parser reads no token that is not there, and that its call     *)
(* stack is bounded, for any token vector that ends with eof.              *)
(***************************************************************************)
EXTENDS Parser, Integers, TLAPS

Entries == TokenTypes \cup Decisions \cup NodeKinds

\* The places that look at the token before the current one, and the one that
\* comes to them without consuming anything.
LooksBack == {"ret_value", "yield_first", "yield_loop", "yield_sep"}
Words == {"ret", "yield"}

\* A place that looks back stands behind a word that is still to be consumed.
Behind(s) == \A k \in DOMAIN s : s[k] \in LooksBack => \E j \in 1 .. k - 1 : s[j] \in Words

Typed ==
  /\ tokens \in Seq(Token)
  /\ tokens # << >>
  /\ tokens[Len(tokens)].type = "eof"
  /\ ptr \in 1 .. Len(tokens)
  /\ errs \in 0 .. MaxErr
  /\ todo \in Seq(Entries)
  /\ ast \in Seq(NodeKinds)

\* Until something is consumed; in an empty file nothing ever is.
AtStart ==
  ptr = 1 =>
    /\ Behind(todo)
    /\ Look("eof") => \A k \in DOMAIN todo : todo[k] \in {"Begin", "scan", "Root"}

IInv == Typed /\ AtStart

\* What may replace the entry op.
Fits(op, work) ==
  /\ work \in Seq(Entries)
  /\ op \notin {"Begin", "scan", "Root"}
  /\ op \in LooksBack \/ (op \notin Words /\ Behind(work))

-----------------------------------------------------------------------------
\* next() stays inside of the vector (parser.hpp:37-41).
LEMMA NextStays ==
  ASSUME IInv
  PROVE  NextPtr \in 1 .. Len(tokens) /\ NextPtr >= ptr /\ (NextPtr = ptr => Look("eof"))
<1>1. ptr \in Nat /\ Len(tokens) \in Nat /\ ptr <= Len(tokens) /\ ptr >= 1
  BY DEF IInv, Typed
<1>2. CASE Look("eof")
  BY <1>1, <1>2 DEF NextPtr
<1>3. CASE ~Look("eof")
  <2>1. ptr # Len(tokens)
    BY <1>3 DEF IInv, Typed, Look
  <2> QED
    BY <2>1, <1>1, <1>3 DEF NextPtr
<1> QED
  BY <1>2, <1>3

\* Errors are counted up to the limit (report.cpp:36-40).
LEMMA Counted ==
  ASSUME IInv, CountError
  PROVE  errs' \in 0 .. MaxErr
BY MaxErrAssumption DEF IInv, Typed, CountError

\* A place that looks back is only reached when something has been consumed.
LEMMA HeadKnown ==
  ASSUME IInv, todo # << >>, ptr = 1
  PROVE  Head(todo) \notin LooksBack
<1>1. 1 \in DOMAIN todo /\ Head(todo) = todo[1]
  BY DEF IInv, Typed
<1> QED
  BY <1>1 DEF IInv, AtStart, Behind

\* The entries of work in the place of the first one (Replace): a place that looks
\* back keeps the word in front of it.
LEMMA Replaced ==
  ASSUME NEW op, NEW work \in Seq(Entries), NEW rest \in Seq(Entries),
         Behind(<<op>> \o rest), op \notin Words, op \notin LooksBack, Behind(work)
  PROVE  Behind(work \o rest)
<1> DEFINE s == work \o rest
           old == <<op>> \o rest
<1>1. /\ DOMAIN s = 1 .. Len(work) + Len(rest) /\ Len(work) \in Nat /\ Len(rest) \in Nat
      /\ \A k \in 1 .. Len(work) : s[k] = work[k]
      /\ \A k \in 1 .. Len(rest) : s[Len(work) + k] = rest[k]
  OBVIOUS
<1>2. /\ DOMAIN old = 1 .. Len(rest) + 1 /\ old[1] = op
      /\ \A k \in 1 .. Len(rest) : old[k + 1] = rest[k]
  OBVIOUS
<1> SUFFICES ASSUME NEW k \in DOMAIN s, s[k] \in LooksBack
             PROVE  \E j \in 1 .. k - 1 : s[j] \in Words
  BY DEF Behind
<1>3. CASE k \in 1 .. Len(work)
  <2>1. PICK j \in 1 .. k - 1 : work[j] \in Words
    BY <1>1, <1>3 DEF Behind
  <2> QED
    BY <2>1, <1>1, <1>3
<1>4. CASE k \notin 1 .. Len(work)
  <2> DEFINE i == k - Len(work)
  <2>1. i \in 1 .. Len(rest) /\ s[k] = rest[i] /\ rest[i] = old[i + 1] /\ i + 1 \in DOMAIN old
    BY <1>1, <1>2, <1>4
  <2>2. PICK j \in 1 .. i : old[j] \in Words
    BY <2>1, <1>1 DEF Behind
  <2>3. j # 1
    BY <2>2, <1>2
  <2>4. j - 1 \in 1 .. Len(rest) /\ old[j] = rest[j - 1]
    BY <2>1, <2>2, <2>3, <1>1, <1>2
  <2>5. s[Len(work) + (j - 1)] \in Words /\ Len(work) + (j - 1) \in 1 .. k - 1
    BY <2>1, <2>2, <2>4, <1>1
  <2> QED
    BY <2>5
<1> QED
  BY <1>3, <1>4

\* Every procedure goes on by replacing its entry, where it stands or at the next
\* token (Decide, Advance, Report).
LEMMA StepKeeps ==
  ASSUME IInv, NEW op, NEW work, Fits(op, work), Replace(op, work),
         ptr' \in {ptr, NextPtr}, errs' \in 0 .. MaxErr, ast' \in Seq(NodeKinds)
  PROVE  IInv'
<1>1. /\ todo \in Seq(Entries) /\ todo # << >> /\ Head(todo) = op /\ work \in Seq(Entries)
      /\ todo' = work \o Tail(todo) /\ tokens' = tokens
  BY DEF Replace, IInv, Typed, Fits
<1>2. /\ Tail(todo) \in Seq(Entries) /\ todo = <<op>> \o Tail(todo) /\ 1 \in DOMAIN todo
      /\ todo[1] = op
  BY <1>1
<1>3. Typed'
  BY <1>1, <1>2, NextStays DEF IInv, Typed
<1>4. AtStart'
  <2> SUFFICES ASSUME ptr' = 1
               PROVE  Behind(todo') /\ (Look("eof")' =>
                        \A k \in DOMAIN todo' : todo'[k] \in {"Begin", "scan", "Root"})
    BY DEF AtStart, Behind
  <2>1. ptr = 1
    BY NextStays DEF IInv, Typed
  <2>2. ~Look("eof")
    BY <2>1, <1>2 DEF IInv, AtStart, Fits
  <2>3. ~Look("eof")'
    BY <2>1, <2>2, <1>1 DEF Look
  <2>4. op \notin LooksBack
    BY <2>1, <1>1, HeadKnown
  <2>5. op \notin Words /\ Behind(work)
    BY <2>4 DEF Fits
  <2>6. Behind(<<op>> \o Tail(todo))
    BY <2>1, <1>2 DEF IInv, AtStart
  <2>7. Behind(work \o Tail(todo))
    BY <2>4, <2>5, <2>6, <1>1, <1>2, Replaced
  <2> QED
    BY <2>3, <2>7, <1>1
<1> QED
  BY <1>3, <1>4 DEF IInv

\* A decision on the current token (lookahead).
LEMMA Decided ==
  ASSUME IInv, NEW op, NEW work, Fits(op, work), Decide(op, work)
  PROVE  IInv'
BY StepKeeps DEF Decide, IInv, Typed

\* A token that the procedure has looked at is consumed by next().
LEMMA Advanced ==
  ASSUME IInv, NEW op, NEW work, Fits(op, work), Advance(op, work)
  PROVE  IInv'
BY StepKeeps DEF Advance, IInv, Typed

\* An error is counted where the parser stands.
LEMMA Reported ==
  ASSUME IInv, NEW op, NEW work, Fits(op, work), Report(op, work)
  PROVE  IInv'
BY StepKeeps, Counted DEF Report, IInv, Typed

\* A token that nothing starts with is reported and skipped (parser.cpp:138-141,
\* 356-360).
LEMMA Skipped ==
  ASSUME IInv, NEW op, NEW work, Fits(op, work), Replace(op, work), CountError,
         ptr' = NextPtr, UNCHANGED ast
  PROVE  IInv'
BY StepKeeps, Counted DEF IInv, Typed

-----------------------------------------------------------------------------
(* One lemma for each procedure: none of them but those of return and yield puts *)
(* a place that looks back on the stack.                                         *)

Plain == Entries \ LooksBack

\* Entries that never look back may stand for any procedure.
LEMMA PlainFits ==
  ASSUME NEW op, op \notin {"Begin", "scan", "Root"} \cup Words, NEW work \in Seq(Plain)
  PROVE  Fits(op, work)
<1>1. work \in Seq(Entries) /\ \A k \in DOMAIN work : work[k] \notin LooksBack
  BY DEF Plain
<1> QED
  BY <1>1 DEF Fits, Behind

\* A type (parser.cpp:34-55).
LEMMA ParseTypeKeeps ==
  ASSUME IInv, ParseType
  PROVE  IInv'
<1> USE DEF Plain, Entries, LooksBack, Words, TokenTypes, Decisions, NodeKinds
<1>1. /\ <<"Begin", "id", "dims", "TypeDef">> \in Seq(Plain)
      /\ <<"lbracket", "dim_loop", "rbracket">> \in Seq(Plain)
      /\ << >> \in Seq(Plain)
      /\ <<"Dim", "num", "dim_sep", "dim_loop">> \in Seq(Plain)
      /\ <<"comma">> \in Seq(Plain)
  OBVIOUS
<1> QED
  BY <1>1, PlainFits, Decided, Reported DEF ParseType

\* A parameter (parser.cpp:57-67).
LEMMA ParseParamKeeps ==
  ASSUME IInv, ParseParam
  PROVE  IInv'
<1> USE DEF Plain, Entries, LooksBack, Words, TokenTypes, Decisions, NodeKinds
<1>1. /\ <<"Begin", "id", "param_type", "Param">> \in Seq(Plain)
      /\ <<"colon", "parse_type">> \in Seq(Plain)
      /\ << >> \in Seq(Plain)
  OBVIOUS
<1> QED
  BY <1>1, PlainFits, Decided DEF ParseParam

\* A function (parser.cpp:69-94).
LEMMA ParseFuncDeclKeeps ==
  ASSUME IInv, ParseFuncDecl
  PROVE  IInv'
<1> USE DEF Plain, Entries, LooksBack, Words, TokenTypes, Decisions, NodeKinds
<1>1. /\ <<"Begin", "func", "id", "lparen", "param_loop", "rparen",
             "ret_type", "parse_block", "FuncDecl">> \in Seq(Plain)
      /\ << >> \in Seq(Plain)
      /\ <<"parse_param", "param_sep", "param_loop">> \in Seq(Plain)
      /\ <<"comma">> \in Seq(Plain)
      /\ <<"arrow", "parse_type">> \in Seq(Plain)
  OBVIOUS
<1> QED
  BY <1>1, PlainFits, Decided, Reported DEF ParseFuncDecl

\* A block (parser.cpp:96-122).
LEMMA ParseBlockKeeps ==
  ASSUME IInv, ParseBlock
  PROVE  IInv'
<1> USE DEF Plain, Entries, LooksBack, Words, TokenTypes, Decisions, NodeKinds
<1>1. /\ <<"Begin", "lbrace", "stmt_loop", "rbrace", "BlockStmt">> \in Seq(Plain)
      /\ <<"Begin", "parse_stmt", "BlockStmt">> \in Seq(Plain)
      /\ << >> \in Seq(Plain)
      /\ <<"parse_stmt", "after_stmt">> \in Seq(Plain)
      /\ <<"semis", "stmt_loop">> \in Seq(Plain)
      /\ <<"semi", "semis">> \in Seq(Plain)
  OBVIOUS
<1> QED
  BY <1>1, PlainFits, Decided DEF ParseBlock

\* The choice of a statement (parser.cpp:124-142).
LEMMA ParseStmtKeeps ==
  ASSUME IInv, ParseStmt
  PROVE  IInv'
<1> USE DEF Plain, Entries, LooksBack, Words, TokenTypes, Decisions, NodeKinds
<1>1. /\ <<"parse_var_decl">> \in Seq(Plain)
      /\ <<"parse_expr_stmt">> \in Seq(Plain)
      /\ <<"parse_return_stmt">> \in Seq(Plain)
      /\ <<"parse_yield_stmt">> \in Seq(Plain)
      /\ << >> \in Seq(Plain)
  OBVIOUS
<1> QED
  BY <1>1, PlainFits, Decided, Skipped DEF ParseStmt

\* A declaration (parser.cpp:144-158).
LEMMA ParseVarDeclKeeps ==
  ASSUME IInv, ParseVarDecl
  PROVE  IInv'
<1> USE DEF Plain, Entries, LooksBack, Words, TokenTypes, Decisions, NodeKinds
<1>1. /\ <<"Begin", "var", "Name", "id", "more_vars",
             "eq", "parse_expr", "VarDecl">> \in Seq(Plain)
      /\ <<"comma", "Name", "id", "more_vars">> \in Seq(Plain)
      /\ << >> \in Seq(Plain)
  OBVIOUS
<1> QED
  BY <1>1, PlainFits, Decided DEF ParseVarDecl

\* An if (parser.cpp:160-171).
LEMMA ParseIfExprKeeps ==
  ASSUME IInv, ParseIfExpr
  PROVE  IInv'
<1> USE DEF Plain, Entries, LooksBack, Words, TokenTypes, Decisions, NodeKinds
<1>1. /\ <<"Begin", "if", "parse_expr", "parse_block",
             "else_part", "IfExpr">> \in Seq(Plain)
      /\ <<"else", "parse_block">> \in Seq(Plain)
      /\ << >> \in Seq(Plain)
  OBVIOUS
<1> QED
  BY <1>1, PlainFits, Decided DEF ParseIfExpr

\* A loop (parser.cpp:173-200).
LEMMA ParseForExprKeeps ==
  ASSUME IInv, ParseForExpr
  PROVE  IInv'
<1> USE DEF Plain, Entries, LooksBack, Words, TokenTypes, Decisions, NodeKinds
<1>1. /\ <<"Begin", "for", "Name", "id", "in", "parse_range_expr",
             "init_part", "parse_block", "ForExpr">> \in Seq(Plain)
      /\ <<"init", "lparen", "init_loop", "rparen">> \in Seq(Plain)
      /\ << >> \in Seq(Plain)
      /\ <<"Name", "id", "eq", "parse_expr", "init_sep">> \in Seq(Plain)
      /\ <<"comma", "init_loop">> \in Seq(Plain)
      /\ <<"init_loop">> \in Seq(Plain)
  OBVIOUS
<1> QED
  BY <1>1, PlainFits, Decided DEF ParseForExpr

\* The range of a loop (parser.cpp:264-272).
LEMMA ParseRangeExprKeeps ==
  ASSUME IInv, ParseRangeExpr
  PROVE  IInv'
<1> USE DEF Plain, Entries, LooksBack, Words, TokenTypes, Decisions, NodeKinds
<1>1. <<"parse_expr", "dot", "dot", "parse_expr", "RangeExpr">> \in Seq(Plain)
  OBVIOUS
<1> QED
  BY <1>1, PlainFits, Decided DEF ParseRangeExpr

\* A statement that is an expression (parser.cpp:202-215).
LEMMA ParseExprStmtKeeps ==
  ASSUME IInv, ParseExprStmt
  PROVE  IInv'
<1> USE DEF Plain, Entries, LooksBack, Words, TokenTypes, Decisions, NodeKinds
<1>1. /\ <<"parse_if_expr", "ExprStmt">> \in Seq(Plain)
      /\ <<"parse_for_expr", "ExprStmt">> \in Seq(Plain)
      /\ <<"parse_call_expr", "ExprStmt">> \in Seq(Plain)
  OBVIOUS
<1> QED
  BY <1>1, PlainFits, Decided DEF ParseExprStmt

\* A comparison (parser.cpp:411-436).
LEMMA ParseCmpExprKeeps ==
  ASSUME IInv, ParseCmpExpr
  PROVE  IInv'
<1> USE DEF Plain, Entries, LooksBack, Words, TokenTypes, Decisions, NodeKinds
<1>1. /\ <<"parse_add_sub", "cmp_rest">> \in Seq(Plain)
      /\ <<"parse_add_sub", "Cmp">> \in Seq(Plain)
      /\ << >> \in Seq(Plain)
  OBVIOUS
<1> QED
  BY <1>1, PlainFits, Decided, Advanced DEF ParseCmpExpr

\* A sum (parser.cpp:438-455).
LEMMA ParseAddSubKeeps ==
  ASSUME IInv, ParseAddSub
  PROVE  IInv'
<1> USE DEF Plain, Entries, LooksBack, Words, TokenTypes, Decisions, NodeKinds
<1>1. /\ <<"parse_mul_div", "add_rest">> \in Seq(Plain)
      /\ <<"parse_mul_div", "Add", "add_rest">> \in Seq(Plain)
      /\ <<"parse_mul_div", "Sub", "add_rest">> \in Seq(Plain)
      /\ << >> \in Seq(Plain)
  OBVIOUS
<1> QED
  BY <1>1, PlainFits, Decided, Advanced DEF ParseAddSub

\* A product (parser.cpp:457-474).
LEMMA ParseMulDivKeeps ==
  ASSUME IInv, ParseMulDiv
  PROVE  IInv'
<1> USE DEF Plain, Entries, LooksBack, Words, TokenTypes, Decisions, NodeKinds
<1>1. /\ <<"parse_value", "mul_rest">> \in Seq(Plain)
      /\ <<"parse_value", "Mul", "mul_rest">> \in Seq(Plain)
      /\ <<"parse_value", "Div", "mul_rest">> \in Seq(Plain)
      /\ << >> \in Seq(Plain)
  OBVIOUS
<1> QED
  BY <1>1, PlainFits, Decided, Advanced DEF ParseMulDiv

\* A value (parser.cpp:330-361).
LEMMA ParseValueKeeps ==
  ASSUME IInv, ParseValue
  PROVE  IInv'
<1> USE DEF Plain, Entries, LooksBack, Words, TokenTypes, Decisions, NodeKinds
<1>1. /\ <<"parse_call_expr">> \in Seq(Plain)
      /\ <<"parse_index_access">> \in Seq(Plain)
      /\ <<"parse_identifier">> \in Seq(Plain)
      /\ <<"parse_tensor">> \in Seq(Plain)
      /\ <<"lparen", "parse_expr", "rparen">> \in Seq(Plain)
      /\ <<"parse_if_expr">> \in Seq(Plain)
      /\ <<"parse_for_expr">> \in Seq(Plain)
      /\ << >> \in Seq(Plain)
      /\ <<"Number", "num">> \in Seq(Plain)
      /\ <<"Bool">> \in Seq(Plain)
      /\ <<"parse_value", "Neg">> \in Seq(Plain)
  OBVIOUS
<1> QED
  BY <1>1, PlainFits, Decided, Advanced, Skipped DEF ParseValue, ParseLiteral, ParseUnary

\* A call (parser.cpp:374-394).
LEMMA ParseCallExprKeeps ==
  ASSUME IInv, ParseCallExpr
  PROVE  IInv'
<1> USE DEF Plain, Entries, LooksBack, Words, TokenTypes, Decisions, NodeKinds
<1>1. /\ <<"parse_identifier", "call_args">> \in Seq(Plain)
      /\ <<"Identifier", "id">> \in Seq(Plain)
      /\ <<"Begin", "lparen", "arg_loop", "rparen", "CallExpr">> \in Seq(Plain)
      /\ << >> \in Seq(Plain)
      /\ <<"parse_expr", "arg_sep", "arg_loop">> \in Seq(Plain)
      /\ <<"comma">> \in Seq(Plain)
  OBVIOUS
<1> QED
  BY <1>1, PlainFits, Decided, Reported DEF ParseCallExpr

\* An index (parser.cpp:396-409).
LEMMA ParseIndexAccessKeeps ==
  ASSUME IInv, ParseIndexAccess
  PROVE  IInv'
<1> USE DEF Plain, Entries, LooksBack, Words, TokenTypes, Decisions, NodeKinds
<1>1. /\ <<"parse_identifier", "index_loop">> \in Seq(Plain)
      /\ <<"lbracket", "parse_expr", "rbracket", "IndexAccess",
             "index_loop">> \in Seq(Plain)
      /\ << >> \in Seq(Plain)
  OBVIOUS
<1> QED
  BY <1>1, PlainFits, Decided DEF ParseIndexAccess

\* A tensor (parser.cpp:306-321).
LEMMA ParseTensorKeeps ==
  ASSUME IInv, ParseTensor
  PROVE  IInv'
<1> USE DEF Plain, Entries, LooksBack, Words, TokenTypes, Decisions, NodeKinds
<1>1. /\ <<"Begin", "lbracket", "tensor_loop", "rbracket", "Tensor">> \in Seq(Plain)
      /\ << >> \in Seq(Plain)
      /\ <<"parse_expr", "tensor_sep", "tensor_loop">> \in Seq(Plain)
      /\ <<"comma">> \in Seq(Plain)
  OBVIOUS
<1> QED
  BY <1>1, PlainFits, Decided, Reported DEF ParseTensor

\* The stack that return and yield leave.
LEMMA ThirdLooksBack ==
  ASSUME NEW s, DOMAIN s = 1 .. 4, s[1] \notin LooksBack, s[2] \in Words, s[4] \notin LooksBack
  PROVE  Behind(s)
<1> SUFFICES ASSUME NEW k \in 1 .. 4, s[k] \in LooksBack
             PROVE  \E j \in 1 .. k - 1 : s[j] \in Words
  BY DEF Behind
<1>1. k = 3
  <2>1. k = 1 \/ k = 2 \/ k = 3 \/ k = 4
    OBVIOUS
  <2>2. s[2] \notin LooksBack
    BY DEF Words, LooksBack
  <2> QED
    BY <2>1, <2>2
<1>2. 2 \in 1 .. k - 1
  BY <1>1
<1> QED
  BY <1>2

\* A return (parser.cpp:217-236): the place that looks back comes behind the word.
LEMMA ParseReturnStmtKeeps ==
  ASSUME IInv, ParseReturnStmt
  PROVE  IInv'
<1>1. Fits("parse_return_stmt", <<"Begin", "ret", "ret_value", "ReturnStmt">>)
  <2> DEFINE s == <<"Begin", "ret", "ret_value", "ReturnStmt">>
  <2>1. s \in Seq(Entries)
    BY DEF Entries, TokenTypes, Decisions, NodeKinds
  <2>2. DOMAIN s = 1 .. 4 /\ s[1] \notin LooksBack /\ s[2] \in Words /\ s[4] \notin LooksBack
    BY DEF LooksBack, Words
  <2>3. Behind(s)
    BY <2>2, ThirdLooksBack
  <2> QED
    BY <2>1, <2>3 DEF Fits, Words
<1>2. <<"parse_expr">> \in Seq(Entries) /\ << >> \in Seq(Entries)
  BY DEF Entries, Decisions
<1>3. \A work \in Seq(Entries) : Fits("ret_value", work)
  BY DEF Fits, LooksBack
<1> QED
  BY <1>1, <1>2, <1>3, Decided DEF ParseReturnStmt

\* A yield (parser.cpp:238-262).
LEMMA ParseYieldStmtKeeps ==
  ASSUME IInv, ParseYieldStmt
  PROVE  IInv'
<1>1. Fits("parse_yield_stmt", <<"Begin", "yield", "yield_first", "YieldStmt">>)
  <2> DEFINE s == <<"Begin", "yield", "yield_first", "YieldStmt">>
  <2>1. s \in Seq(Entries)
    BY DEF Entries, TokenTypes, Decisions, NodeKinds
  <2>2. DOMAIN s = 1 .. 4 /\ s[1] \notin LooksBack /\ s[2] \in Words /\ s[4] \notin LooksBack
    BY DEF LooksBack, Words
  <2>3. Behind(s)
    BY <2>2, ThirdLooksBack
  <2> QED
    BY <2>1, <2>3 DEF Fits, Words
<1>2. /\ << >> \in Seq(Entries) /\ <<"yield_loop">> \in Seq(Entries)
      /\ <<"parse_expr", "yield_sep">> \in Seq(Entries) /\ <<"comma", "yield_loop">> \in Seq(Entries)
  BY DEF Entries, Decisions, TokenTypes
<1>3. \A op \in LooksBack : \A work \in Seq(Entries) : Fits(op, work)
  BY DEF Fits, LooksBack
<1> QED
  BY <1>1, <1>2, <1>3, Decided DEF ParseYieldStmt, LooksBack

-----------------------------------------------------------------------------
\* A token is matched (parser.cpp:16-27): the only step that may consume a word,
\* and then something has been consumed.
LEMMA MatchKeeps ==
  ASSUME IInv, NEW t \in TokenTypes, Match(t)
  PROVE  IInv'
<1>1. /\ todo # << >> /\ todo' = << >> \o Tail(todo) /\ tokens' = tokens /\ ptr' = NextPtr
      /\ Head(todo) = t /\ ast' = ast /\ todo \in Seq(Entries)
  BY DEF Match, Replace, IInv, Typed
<1>2. errs' \in 0 .. MaxErr
  BY Counted DEF Match, IInv, Typed
<1>3. todo' \in Seq(Entries)
  BY <1>1
<1>4. Typed'
  BY <1>1, <1>2, <1>3, NextStays DEF IInv, Typed
<1>5. ptr' # 1
  <2> SUFFICES ASSUME ptr' = 1 PROVE FALSE
    OBVIOUS
  <2>1. ptr = 1 /\ Look("eof")
    BY <1>1, NextStays DEF IInv, Typed
  <2>2. 1 \in DOMAIN todo /\ todo[1] = t
    BY <1>1
  <2>3. t \in {"Begin", "scan", "Root"}
    BY <2>1, <2>2 DEF IInv, AtStart
  <2> QED
    BY <2>3 DEF TokenTypes
<1> QED
  BY <1>4, <1>5 DEF IInv, AtStart

\* What is left of a stack after its first entry, which is not a word.
LEMMA Popped ==
  ASSUME NEW s \in Seq(Entries), s # << >>, Behind(s), Head(s) \notin Words
  PROVE  Behind(Tail(s))
<1>1. << >> \in Seq(Entries) /\ Behind(<< >>)
  BY DEF Behind
<1>2. s = <<Head(s)>> \o Tail(s) /\ Tail(s) \in Seq(Entries) /\ << >> \o Tail(s) = Tail(s)
  OBVIOUS
<1>3. Head(s) \notin LooksBack
  BY DEF Behind
<1> QED
  BY <1>1, <1>2, <1>3, Replaced

\* A node is completed (parser.cpp:29-32), the root of an empty file included.
LEMMA BuildKeeps ==
  ASSUME IInv, NEW n \in NodeKinds, Build(n)
  PROVE  IInv'
<1>1. /\ todo # << >> /\ todo' = Tail(todo) /\ tokens' = tokens /\ ptr' = ptr
      /\ Head(todo) = n /\ errs' = errs /\ todo \in Seq(Entries)
  BY DEF Build, Replace, IInv, Typed
<1>2. ast' \in Seq(NodeKinds)
  BY DEF Build, IInv, Typed
<1>3. Typed'
  BY <1>1, <1>2 DEF IInv, Typed
<1>4. n \notin Words
  BY DEF NodeKinds, Words
<1>5. ptr = 1 => Behind(todo')
  BY <1>1, <1>4, Popped DEF IInv, AtStart
<1>6. DOMAIN todo' = 1 .. Len(todo) - 1 /\ \A k \in DOMAIN todo' : todo'[k] = todo[k + 1]
  BY <1>1
<1>7. Look("eof")' <=> Look("eof")
  BY <1>1 DEF Look
<1>8. ptr = 1 /\ Look("eof") => \A k \in DOMAIN todo' : todo'[k] \in {"Begin", "scan", "Root"}
  BY <1>1, <1>6 DEF IInv, AtStart
<1> QED
  BY <1>1, <1>3, <1>5, <1>7, <1>8 DEF IInv, AtStart

\* The loop over the file (parser.cpp:480-496).
LEMMA ScanKeeps ==
  ASSUME IInv, Scan
  PROVE  IInv'
<1> USE DEF Entries, TokenTypes, Decisions, NodeKinds
<1> DEFINE Top(work) == Replace("scan", work) /\ ptr' = ptr /\ ast' = ast
<1>1. ASSUME NEW work \in Seq(Entries), Top(work), errs' \in 0 .. MaxErr, Behind(work),
             Look("eof") => work = <<"Root">>
      PROVE  IInv'
  <2>1. /\ todo # << >> /\ todo' = work \o Tail(todo) /\ tokens' = tokens /\ Head(todo) = "scan"
        /\ todo \in Seq(Entries)
    BY <1>1 DEF Replace, IInv, Typed
  <2>2. Typed'
    BY <1>1, <2>1 DEF IInv, Typed
  <2>3. todo = <<"scan">> \o Tail(todo) /\ Tail(todo) \in Seq(Entries)
    BY <2>1
  <2>4. ptr = 1 => Behind(todo')
    BY <1>1, <2>1, <2>3, Replaced DEF IInv, AtStart, Words, LooksBack
  <2>5. ASSUME ptr = 1, Look("eof")
        PROVE  \A k \in DOMAIN todo' : todo'[k] \in {"Begin", "scan", "Root"}
    <3>1. todo' = <<"Root">> \o Tail(todo)
      BY <2>1, <1>1, <2>5
    <3>2. DOMAIN todo' = DOMAIN todo /\ \A k \in DOMAIN todo \ {1} : todo'[k] = todo[k]
      BY <3>1, <2>1
    <3>3. todo'[1] = "Root"
      BY <3>1
    <3> QED
      BY <3>2, <3>3, <2>5 DEF IInv, AtStart
  <2>6. Look("eof")' <=> Look("eof")
    BY <1>1, <2>1 DEF Look
  <2> QED
    BY <1>1, <2>2, <2>4, <2>5, <2>6 DEF IInv, AtStart
<1>2. \A work \in Seq(Plain) : work \in Seq(Entries) /\ Behind(work)
  BY DEF Plain, Behind
<1>3. /\ <<"Root">> \in Seq(Plain) /\ <<"parse_func_decl", "scan">> \in Seq(Plain)
      /\ <<"resync", "scan">> \in Seq(Plain)
  BY DEF Plain, LooksBack
<1>4. CASE Look("eof") /\ Decide("scan", <<"Root">>)
  BY <1>1, <1>2, <1>3, <1>4 DEF Decide, IInv, Typed
<1>5. CASE Look("func") /\ Decide("scan", <<"parse_func_decl", "scan">>)
  BY <1>1, <1>2, <1>3, <1>5 DEF Decide, IInv, Typed, Look
<1>6. CASE ~LookAny({"eof", "func"}) /\ Report("scan", <<"resync", "scan">>)
  BY <1>1, <1>2, <1>3, <1>6, Counted DEF Report, Look, LookAny
<1>7. << >> \in Seq(Plain) /\ <<"resync">> \in Seq(Plain)
  BY DEF Plain, LooksBack
<1>8. CASE Decide("resync", << >>)
  BY <1>7, <1>8, PlainFits, Decided DEF Words
<1>9. CASE Advance("resync", <<"resync">>)
  BY <1>7, <1>9, PlainFits, Advanced DEF Words
<1> QED
  BY <1>4, <1>5, <1>6, <1>8, <1>9 DEF Scan

-----------------------------------------------------------------------------
\* It holds where the parser starts.
LEMMA InitIInv == Init => IInv
<1> SUFFICES ASSUME Init PROVE IInv
  OBVIOUS
<1>1. /\ tokens \in Seq(Token) /\ tokens # << >>
      /\ \A i \in 1 .. Len(tokens) : (tokens[i].type = "eof") <=> (i = Len(tokens))
  BY StreamsAssumption DEF Init
<1>2. Len(tokens) \in Nat /\ Len(tokens) >= 1
  BY <1>1
<1>3. todo \in Seq(Entries)
  BY DEF Init, Entries, NodeKinds, Decisions
<1>4. Typed
  BY <1>1, <1>2, <1>3, MaxErrAssumption DEF Init, Typed
<1>5. DOMAIN todo = 1 .. 2 /\ todo[1] = "Begin" /\ todo[2] = "scan"
  BY DEF Init
<1>6. AtStart
  BY <1>5 DEF AtStart, Behind, LooksBack
<1> QED
  BY <1>4, <1>6 DEF IInv

\* The invariant is kept by every procedure.
LEMMA NextIInv == IInv /\ [Next]_vars => IInv'
<1> SUFFICES ASSUME IInv, [Next]_vars PROVE IInv'
  OBVIOUS
<1>1. CASE UNCHANGED vars
  BY <1>1 DEF vars, IInv, Typed, AtStart, Look
<1>2. CASE Next
  BY <1>2, MatchKeeps, BuildKeeps, ScanKeeps, ParseTypeKeeps, ParseParamKeeps,
     ParseFuncDeclKeeps, ParseBlockKeeps, ParseStmtKeeps, ParseVarDeclKeeps, ParseIfExprKeeps,
     ParseForExprKeeps, ParseRangeExprKeeps, ParseExprStmtKeeps, ParseReturnStmtKeeps,
     ParseYieldStmtKeeps, ParseCmpExprKeeps, ParseAddSubKeeps, ParseMulDivKeeps,
     ParseValueKeeps, ParseCallExprKeeps, ParseIndexAccessKeeps, ParseTensorKeeps
     DEF Next
<1> QED
  BY <1>1, <1>2

\* It says what the property says.
LEMMA IInvTypeOK == IInv => TypeOK
<1> SUFFICES ASSUME IInv PROVE TypeOK
  OBVIOUS
<1>1. todo # << >> /\ Head(todo) \in {"ret_value", "yield_first", "yield_sep"} => ptr # 1
  BY HeadKnown DEF LooksBack
<1> QED
  BY <1>1 DEF IInv, Typed, TypeOK, Entries, Done

\* On any token vectors that end with eof, the parser never looks at a token that is
\* not in the vector: not past the end in spite of its error recovery
\* (parser.hpp:37-41), and not before the first one where a return or a yield
\* compares the current token with the last (parser.hpp:31-35).
THEOREM TypeCorrect == Spec => []TypeOK
<1>1. Init => IInv
  BY InitIInv
<1>2. IInv /\ [Next]_vars => IInv'
  BY NextIInv
<1>3. IInv => TypeOK
  BY IInvTypeOK
<1> QED
  BY <1>1, <1>2, <1>3, PTL DEF Spec

-----------------------------------------------------------------------------
(* The depth of the stack.  Every entry has a height: how much deeper than *)
(* the place of the entry the stack can be while the entry is worked off,  *)
(* less 8 for each token consumed on the way.  At the eof nothing is       *)
(* consumed, and nothing recurses either, so there the height is another.  *)

\* The entries that surely consume a token, if there is one before the eof.
Consuming ==
  TokenTypes \cup
  {"parse_type", "parse_param", "parse_func_decl", "parse_block", "parse_stmt",
   "parse_var_decl", "parse_if_expr", "parse_for_expr", "parse_expr_stmt",
   "parse_return_stmt", "parse_yield_stmt", "parse_range_expr", "parse_tensor",
   "parse_identifier", "parse_value", "parse_call_expr", "parse_index_access",
   "parse_expr", "parse_add_sub", "parse_mul_div"}

Height(e) ==
  CASE e = "parse_range_expr" -> 16
    [] e \in {"arg_loop", "tensor_loop"} -> 14
    [] e \in {"yield_first", "yield_loop", "yield_sep"} -> 13
    [] e \in {"parse_expr", "ret_value"} -> 12
    [] e \in {"parse_add_sub", "parse_block", "stmt_loop", "after_stmt"} -> 11
    [] e \in {"scan", "parse_stmt", "parse_expr_stmt", "parse_mul_div"} -> 10
    [] e \in {"parse_func_decl", "parse_for_expr", "parse_value"} -> 9
    [] e \in {"parse_var_decl", "parse_tensor", "call_args"} -> 8
    [] e \in {"parse_if_expr", "index_loop"} -> 7
    [] e \in {"parse_yield_stmt", "param_loop"} -> 6
    [] e \in {"parse_return_stmt", "init_loop", "init_sep"} -> 5
    [] e \in {"parse_type", "parse_param", "dim_loop", "more_vars", "init_part",
              "cmp_rest", "add_rest"} -> 4
    [] e \in {"parse_call_expr", "parse_index_access", "dims", "else_part", "mul_rest"} -> 3
    [] e \in {"parse_identifier", "param_type", "ret_type", "semis"} -> 2
    [] OTHER -> 1

AtEof(e) ==
  CASE e = "parse_for_expr" -> 11
    [] e = "parse_func_decl" -> 10
    [] e \in {"parse_var_decl", "parse_range_expr", "parse_tensor"} -> 8
    [] e = "parse_if_expr" -> 7
    [] e \in {"param_loop", "arg_loop", "tensor_loop"} -> 6
    [] e \in {"init_loop", "init_sep"} -> 5
    [] e \in {"parse_type", "parse_param", "dim_loop", "parse_return_stmt",
              "parse_yield_stmt", "parse_expr"} -> 4
    [] e \in {"parse_block", "parse_call_expr", "parse_index_access", "parse_add_sub"} -> 3
    [] e \in {"stmt_loop", "parse_identifier", "parse_mul_div"} -> 2
    [] OTHER -> 1
\* One entry before the k-th surely consumes a token; two do.
Once(s, k) == \E i \in 1 .. k - 1 : s[i] \in Consuming

Twice(s, k) == \E i \in 1 .. k - 1 : s[i] \in Consuming /\ Once(s, i)

\* The depth that the entries before the k-th pay for (two suffice).
Credit(s, k) == IF Twice(s, k) THEN 16 ELSE IF Once(s, k) THEN 8 ELSE 0

\* The stack s can be worked off from the p-th token within the bound.
Budget(s, p) ==
  \A k \in DOMAIN s :
    /\ Len(s) - k + Height(s[k]) <= 8 * p + 2 + Credit(s, k)
    /\ Len(s) - k + AtEof(s[k]) <= 8 * p + 10

BudgetAtEof(s, p) == \A k \in DOMAIN s : Len(s) - k + AtEof(s[k]) <= 8 * p + 2

Deep == IF Look("eof") THEN BudgetAtEof(todo, ptr) ELSE Budget(todo, ptr)

\* The entries of work, of which the c-th and the d-th surely consume a token, need
\* no more than op did, where gain tokens are consumed with the step.
Within(op, work, c, d, gain) ==
  /\ work \in Seq(Entries) /\ c \in Nat \ {0} /\ d \in Nat /\ c < d
  /\ c <= Len(work) => work[c] \in Consuming
  /\ d <= Len(work) => work[d] \in Consuming
  /\ op \in Consuming => c <= Len(work) \/ gain = 1
  /\ \A k \in 1 .. Len(work) :
       /\ Len(work) - k + Height(work[k])
            <= Height(op) + 8 * gain + (IF k > d THEN 16 ELSE IF k > c THEN 8 ELSE 0)
       /\ Len(work) - k + AtEof(work[k]) <= Height(op) + 8

Affords(op, work, gain) == \E c, d : Within(op, work, c, d, gain)

AffordsAtEof(op, work) ==
  /\ work \in Seq(Entries)
  /\ \A k \in 1 .. Len(work) : Len(work) - k + AtEof(work[k]) <= AtEof(op)

\* The heights of the entries that the procedures name.
LEMMA Heights ==
  /\ Height("add_rest") = 4 /\ AtEof("add_rest") = 1
  /\ Height("after_stmt") = 11 /\ AtEof("after_stmt") = 1
  /\ Height("arg_loop") = 14 /\ AtEof("arg_loop") = 6
  /\ Height("arg_sep") = 1 /\ AtEof("arg_sep") = 1
  /\ Height("call_args") = 8 /\ AtEof("call_args") = 1
  /\ Height("cmp_rest") = 4 /\ AtEof("cmp_rest") = 1
  /\ Height("dim_loop") = 4 /\ AtEof("dim_loop") = 4
  /\ Height("dim_sep") = 1 /\ AtEof("dim_sep") = 1
  /\ Height("dims") = 3 /\ AtEof("dims") = 1
  /\ Height("else_part") = 3 /\ AtEof("else_part") = 1
  /\ Height("index_loop") = 7 /\ AtEof("index_loop") = 1
  /\ Height("init_loop") = 5 /\ AtEof("init_loop") = 5
  /\ Height("init_part") = 4 /\ AtEof("init_part") = 1
  /\ Height("init_sep") = 5 /\ AtEof("init_sep") = 5
  /\ Height("more_vars") = 4 /\ AtEof("more_vars") = 1
  /\ Height("mul_rest") = 3 /\ AtEof("mul_rest") = 1
  /\ Height("param_loop") = 6 /\ AtEof("param_loop") = 6
  /\ Height("param_sep") = 1 /\ AtEof("param_sep") = 1
  /\ Height("param_type") = 2 /\ AtEof("param_type") = 1
  /\ Height("parse_add_sub") = 11 /\ AtEof("parse_add_sub") = 3
  /\ Height("parse_block") = 11 /\ AtEof("parse_block") = 3
  /\ Height("parse_call_expr") = 3 /\ AtEof("parse_call_expr") = 3
  /\ Height("parse_expr") = 12 /\ AtEof("parse_expr") = 4
  /\ Height("parse_expr_stmt") = 10 /\ AtEof("parse_expr_stmt") = 1
  /\ Height("parse_for_expr") = 9 /\ AtEof("parse_for_expr") = 11
  /\ Height("parse_func_decl") = 9 /\ AtEof("parse_func_decl") = 10
  /\ Height("parse_identifier") = 2 /\ AtEof("parse_identifier") = 2
  /\ Height("parse_if_expr") = 7 /\ AtEof("parse_if_expr") = 7
  /\ Height("parse_index_access") = 3 /\ AtEof("parse_index_access") = 3
  /\ Height("parse_mul_div") = 10 /\ AtEof("parse_mul_div") = 2
  /\ Height("parse_param") = 4 /\ AtEof("parse_param") = 4
  /\ Height("parse_range_expr") = 16 /\ AtEof("parse_range_expr") = 8
  /\ Height("parse_return_stmt") = 5 /\ AtEof("parse_return_stmt") = 4
  /\ Height("parse_stmt") = 10 /\ AtEof("parse_stmt") = 1
  /\ Height("parse_tensor") = 8 /\ AtEof("parse_tensor") = 8
  /\ Height("parse_type") = 4 /\ AtEof("parse_type") = 4
  /\ Height("parse_value") = 9 /\ AtEof("parse_value") = 1
  /\ Height("parse_var_decl") = 8 /\ AtEof("parse_var_decl") = 8
  /\ Height("parse_yield_stmt") = 6 /\ AtEof("parse_yield_stmt") = 4
  /\ Height("resync") = 1 /\ AtEof("resync") = 1
  /\ Height("ret_type") = 2 /\ AtEof("ret_type") = 1
  /\ Height("ret_value") = 12 /\ AtEof("ret_value") = 1
  /\ Height("scan") = 10 /\ AtEof("scan") = 1
  /\ Height("semis") = 2 /\ AtEof("semis") = 1
  /\ Height("stmt_loop") = 11 /\ AtEof("stmt_loop") = 2
  /\ Height("tensor_loop") = 14 /\ AtEof("tensor_loop") = 6
  /\ Height("tensor_sep") = 1 /\ AtEof("tensor_sep") = 1
  /\ Height("yield_first") = 13 /\ AtEof("yield_first") = 1
  /\ Height("yield_loop") = 13 /\ AtEof("yield_loop") = 1
  /\ Height("yield_sep") = 13 /\ AtEof("yield_sep") = 1
  /\ \A e \in TokenTypes \cup NodeKinds : Height(e) = 1 /\ AtEof(e) = 1
BY DEF Height, AtEof, TokenTypes, NodeKinds

\* No entry has no height.
LEMMA HeightsPositive ==
  \A e : Height(e) \in Nat /\ Height(e) >= 1 /\ AtEof(e) \in Nat /\ AtEof(e) >= 1
BY DEF Height, AtEof

\* A credit is a number.
LEMMA CreditNat == \A s, k : Credit(s, k) \in {0, 8, 16} /\ Credit(s, k) \in Nat
BY DEF Credit

\* What an entry of work is paid by those before it.
LEMMA CreditWithin ==
  ASSUME NEW op, NEW work, NEW c, NEW d, NEW gain, Within(op, work, c, d, gain),
         NEW rest \in Seq(Entries), NEW k \in 1 .. Len(work)
  PROVE  Credit(work \o rest, k) >= IF k > d THEN 16 ELSE IF k > c THEN 8 ELSE 0
<1> DEFINE s == work \o rest
<1>1. /\ Len(work) \in Nat /\ k \in Nat /\ k <= Len(work) /\ k >= 1
      /\ c \in Nat /\ d \in Nat /\ c >= 1 /\ c < d /\ work \in Seq(Entries)
  BY DEF Within
<1>2. \A j \in 1 .. Len(work) : s[j] = work[j]
  BY <1>1
<1> HIDE DEF s
<1>3. ASSUME k > c PROVE Once(s, k)
  <2>1. c \in 1 .. k - 1 /\ s[c] \in Consuming
    BY <1>1, <1>2, <1>3 DEF Within
  <2> QED
    BY <2>1 DEF Once
<1>4. ASSUME k > d PROVE Twice(s, k)
  <2>1. c \in 1 .. d - 1 /\ d \in 1 .. k - 1 /\ s[c] \in Consuming /\ s[d] \in Consuming
    BY <1>1, <1>2, <1>4 DEF Within
  <2> QED
    BY <2>1 DEF Once, Twice
<1>5. Credit(s, k) >= IF k > d THEN 16 ELSE IF k > c THEN 8 ELSE 0
  BY <1>1, <1>3, <1>4 DEF Credit
<1> QED
  BY <1>5 DEF s

\* What an entry behind is paid: no less, when work consumes where op did; and else
\* one token less.
LEMMA CreditBehind ==
  ASSUME NEW op \in Entries, NEW work \in Seq(Entries), NEW rest \in Seq(Entries),
         NEW i \in 1 .. Len(rest)
  PROVE  /\ Credit(work \o rest, Len(work) + i) + 8 >= Credit(<<op>> \o rest, i + 1)
         /\ (op \in Consuming => \E j \in 1 .. Len(work) : work[j] \in Consuming) =>
              Credit(work \o rest, Len(work) + i) >= Credit(<<op>> \o rest, i + 1)
<1> DEFINE new == work \o rest
           old == <<op>> \o rest
<1>1. /\ Len(work) \in Nat /\ Len(rest) \in Nat /\ i \in Nat /\ i >= 1 /\ i <= Len(rest)
      /\ \A j \in 1 .. Len(work) : new[j] = work[j]
      /\ \A j \in 1 .. Len(rest) : new[Len(work) + j] = rest[j]
      /\ old[1] = op /\ \A j \in 1 .. Len(rest) : old[j + 1] = rest[j]
  OBVIOUS
<1> HIDE DEF new, old
<1> DEFINE n == Len(work) + i
<1>2. \A l \in 1 .. i : Once(rest, l) => Once(new, Len(work) + l)
  <2> SUFFICES ASSUME NEW l \in 1 .. i, NEW j \in 1 .. l - 1, rest[j] \in Consuming
               PROVE  Once(new, Len(work) + l)
    BY DEF Once
  <2>1. Len(work) + j \in 1 .. (Len(work) + l) - 1 /\ new[Len(work) + j] = rest[j]
    BY <1>1
  <2> QED
    BY <2>1 DEF Once
<1>3. Twice(rest, i) => Twice(new, n)
  <2> SUFFICES ASSUME NEW j \in 1 .. i - 1, rest[j] \in Consuming, Once(rest, j)
               PROVE  Twice(new, n)
    BY DEF Twice
  <2>1. Len(work) + j \in 1 .. n - 1 /\ new[Len(work) + j] = rest[j] /\ j \in 1 .. i
    BY <1>1
  <2>2. Once(new, Len(work) + j)
    BY <1>2, <2>1
  <2> QED
    BY <2>1, <2>2 DEF Twice
<1>4. Once(old, i + 1) => op \in Consuming \/ Once(rest, i)
  <2> SUFFICES ASSUME NEW j \in 1 .. i, old[j] \in Consuming, op \notin Consuming
               PROVE  Once(rest, i)
    BY <1>1 DEF Once
  <2>1. j - 1 \in 1 .. i - 1 /\ old[j] = rest[j - 1]
    BY <1>1
  <2> QED
    BY <2>1 DEF Once
<1>5. Twice(old, i + 1) => Twice(rest, i) \/ (op \in Consuming /\ Once(rest, i))
  <2> SUFFICES ASSUME NEW j \in 1 .. (i + 1) - 1, old[j] \in Consuming,
                      NEW l \in 1 .. j - 1, old[l] \in Consuming
               PROVE  Twice(rest, i) \/ (op \in Consuming /\ Once(rest, i))
    BY DEF Once, Twice
  <2>1. j - 1 \in 1 .. i - 1 /\ old[j] = rest[j - 1]
    BY <1>1
  <2>2. Once(rest, i)
    BY <2>1 DEF Once
  <2>3. CASE l = 1
    BY <1>1, <2>2, <2>3
  <2>4. CASE l # 1
    <3>1. l - 1 \in 1 .. (j - 1) - 1 /\ old[l] = rest[l - 1]
      BY <1>1, <2>4
    <3>2. Once(rest, j - 1)
      BY <3>1 DEF Once
    <3> QED
      BY <2>1, <3>2 DEF Twice
  <2> QED
    BY <2>3, <2>4
<1>6. ASSUME NEW j \in 1 .. Len(work), work[j] \in Consuming
      PROVE  Once(new, n) /\ (Once(rest, i) => Twice(new, n))
  <2>1. j \in 1 .. n - 1 /\ new[j] \in Consuming
    BY <1>1, <1>6
  <2>2. ASSUME NEW l \in 1 .. i - 1, rest[l] \in Consuming
        PROVE  Twice(new, n)
    <3>1. /\ Len(work) + l \in 1 .. n - 1 /\ new[Len(work) + l] \in Consuming
          /\ j \in 1 .. (Len(work) + l) - 1
      BY <1>1, <2>2
    <3> QED
      BY <2>1, <3>1 DEF Once, Twice
  <2> QED
    BY <2>1, <2>2 DEF Once
<1>7. Twice(rest, i) => Once(rest, i)
  BY DEF Once, Twice
<1>8. Once(rest, i) => Once(new, n)
  <2>1. i \in 1 .. i
    BY <1>1
  <2> QED
    BY <1>2, <2>1
<1>9. Credit(new, n) + 8 >= Credit(old, i + 1)
  BY <1>3, <1>4, <1>5, <1>7, <1>8 DEF Credit
<1>10. (op \in Consuming => \E j \in 1 .. Len(work) : work[j] \in Consuming) =>
         Credit(new, n) >= Credit(old, i + 1)
  BY <1>3, <1>4, <1>5, <1>6, <1>8 DEF Credit
<1> QED
  BY <1>9, <1>10 DEF new, old, n

\* A step that leaves the parser where it is.
LEMMA BudgetDecided ==
  ASSUME NEW op \in Entries, NEW work, NEW rest \in Seq(Entries), NEW p \in Nat,
         Affords(op, work, 0), Budget(<<op>> \o rest, p)
  PROVE  Budget(work \o rest, p)
<1>1. PICK c, d : Within(op, work, c, d, 0)
  BY DEF Affords
<1>2. /\ work \in Seq(Entries) /\ Len(work) \in Nat /\ Len(rest) \in Nat
      /\ c \in Nat /\ c >= 1 /\ d \in Nat
      /\ op \in Consuming => \E j \in 1 .. Len(work) : work[j] \in Consuming
  BY <1>1 DEF Within
<1> DEFINE s == work \o rest
           old == <<op>> \o rest
<1>3. /\ DOMAIN s = 1 .. Len(work) + Len(rest) /\ Len(s) = Len(work) + Len(rest)
      /\ \A j \in 1 .. Len(work) : s[j] = work[j]
      /\ \A j \in 1 .. Len(rest) : s[Len(work) + j] = rest[j]
  BY <1>2
<1>4. /\ DOMAIN old = 1 .. Len(rest) + 1 /\ Len(old) = Len(rest) + 1
      /\ old[1] = op /\ \A j \in 1 .. Len(rest) : old[j + 1] = rest[j]
  OBVIOUS
<1>5. \A k \in 1 .. Len(work) : Credit(s, k) >= IF k > d THEN 16 ELSE IF k > c THEN 8 ELSE 0
  BY <1>1, CreditWithin
<1>6. \A i \in 1 .. Len(rest) : Credit(s, Len(work) + i) >= Credit(old, i + 1)
  BY <1>2, CreditBehind
<1>7. Budget(old, p)
  OBVIOUS
<1> HIDE DEF s, old
<1>8. ASSUME NEW k \in 1 .. Len(work)
      PROVE  /\ Len(s) - k + Height(s[k]) <= 8 * p + 2 + Credit(s, k)
             /\ Len(s) - k + AtEof(s[k]) <= 8 * p + 10
  <2> DEFINE x == IF k > d THEN 16 ELSE IF k > c THEN 8 ELSE 0
  <2>1. Len(rest) + Height(op) <= 8 * p + 2
    <3>1. Credit(old, 1) = 0
      BY DEF Credit, Once, Twice
    <3>2. 1 \in DOMAIN old /\ Len(old) - 1 = Len(rest)
      BY <1>2, <1>4
    <3>3. Len(old) - 1 + Height(old[1]) <= 8 * p + 2 + Credit(old, 1)
      BY <1>7, <3>2 DEF Budget
    <3> QED
      BY <3>1, <3>2, <3>3, <1>2, <1>4, HeightsPositive
  <2>2. /\ Len(work) - k + Height(work[k])
             <= Height(op) + x
        /\ Len(work) - k + AtEof(work[k]) <= Height(op) + 8
    BY <1>1, HeightsPositive DEF Within
  <2>3. s[k] = work[k] /\ Credit(s, k) \in Nat
    BY <1>3, CreditNat
  <2>4. Credit(s, k) >= x /\ x \in Nat
    BY <1>5
  <2>5. /\ Len(s) - k = Len(rest) + (Len(work) - k) /\ Len(work) - k \in Nat
        /\ k \in Nat /\ Len(s) \in Nat /\ Len(rest) \in Nat
    BY <1>2, <1>3
  <2> HIDE DEF x
  <2>6. Height(work[k]) \in Nat /\ AtEof(work[k]) \in Nat /\ Height(op) \in Nat
    BY HeightsPositive
  <2>7. Len(s) - k + Height(work[k]) <= 8 * p + 2 + Credit(s, k)
    <3> DEFINE e == Height(work[k])
               h == Height(op)
               n == Len(work) - k
               y == Credit(s, k)
    <3>1. e \in Nat /\ h \in Nat /\ n \in Nat /\ Len(rest) \in Nat /\ x \in Nat /\ y \in Nat
      BY <2>3, <2>4, <2>5, <2>6
    <3>2. Len(rest) + h <= 8 * p + 2 /\ n + e <= h + x /\ y >= x
      BY <2>1, <2>2, <2>4
    <3>3. Len(s) - k = Len(rest) + n
      BY <2>5
    <3> HIDE DEF e, h, n, y
    <3>4. Len(rest) + n + e <= 8 * p + 2 + y
      BY <3>1, <3>2
    <3> QED
      BY <3>3, <3>4 DEF e, y
  <2>8. Len(s) - k + AtEof(work[k]) <= 8 * p + 10
    <3> DEFINE e == AtEof(work[k])
               h == Height(op)
               n == Len(work) - k
    <3>1. e \in Nat /\ h \in Nat /\ n \in Nat /\ Len(rest) \in Nat
      BY <2>5, <2>6
    <3>2. Len(rest) + h <= 8 * p + 2 /\ n + e <= h + 8
      BY <2>1, <2>2
    <3>3. Len(s) - k = Len(rest) + n
      BY <2>5
    <3> HIDE DEF e, h, n
    <3>4. Len(rest) + n + e <= 8 * p + 10
      BY <3>1, <3>2
    <3> QED
      BY <3>3, <3>4 DEF e
  <2> QED
    BY <2>3, <2>7, <2>8
<1>9. ASSUME NEW i \in 1 .. Len(rest)
      PROVE  /\ Len(s) - (Len(work) + i) + Height(s[Len(work) + i])
                  <= 8 * p + 2 + Credit(s, Len(work) + i)
             /\ Len(s) - (Len(work) + i) + AtEof(s[Len(work) + i]) <= 8 * p + 10
  <2>1. i + 1 \in DOMAIN old /\ old[i + 1] = rest[i] /\ s[Len(work) + i] = rest[i]
    BY <1>2, <1>3, <1>4
  <2>2. /\ Len(old) - (i + 1) + Height(rest[i]) <= 8 * p + 2 + Credit(old, i + 1)
        /\ Len(old) - (i + 1) + AtEof(rest[i]) <= 8 * p + 10
    BY <2>1, <1>7 DEF Budget
  <2>3. Credit(s, Len(work) + i) >= Credit(old, i + 1)
    BY <1>6
  <2> QED
    BY <1>2, <1>3, <1>4, <2>1, <2>2, <2>3, HeightsPositive, CreditNat
<1>10. Budget(s, p)
  <2> SUFFICES ASSUME NEW k \in DOMAIN s
               PROVE  /\ Len(s) - k + Height(s[k]) <= 8 * p + 2 + Credit(s, k)
                      /\ Len(s) - k + AtEof(s[k]) <= 8 * p + 10
    BY DEF Budget
  <2>1. CASE k \in 1 .. Len(work)
    BY <1>8, <2>1
  <2>2. CASE k \notin 1 .. Len(work)
    <3>1. k - Len(work) \in 1 .. Len(rest) /\ k = Len(work) + (k - Len(work))
      BY <1>2, <1>3, <2>2
    <3> QED
      BY <1>9, <3>1
  <2> QED
    BY <2>1, <2>2
<1> QED
  BY <1>10 DEF s

\* A step that consumes a token.
LEMMA BudgetMoved ==
  ASSUME NEW op \in Entries, NEW work, NEW rest \in Seq(Entries), NEW p \in Nat,
         Affords(op, work, 1), Budget(<<op>> \o rest, p)
  PROVE  Budget(work \o rest, p + 1) /\ BudgetAtEof(work \o rest, p + 1)
<1>1. PICK c, d : Within(op, work, c, d, 1)
  BY DEF Affords
<1>2. /\ work \in Seq(Entries) /\ Len(work) \in Nat /\ Len(rest) \in Nat
      /\ c \in Nat /\ c >= 1 /\ d \in Nat
  BY <1>1 DEF Within
<1> DEFINE s == work \o rest
           old == <<op>> \o rest
<1>3. /\ DOMAIN s = 1 .. Len(work) + Len(rest) /\ Len(s) = Len(work) + Len(rest)
      /\ \A j \in 1 .. Len(work) : s[j] = work[j]
      /\ \A j \in 1 .. Len(rest) : s[Len(work) + j] = rest[j]
  BY <1>2
<1>4. /\ DOMAIN old = 1 .. Len(rest) + 1 /\ Len(old) = Len(rest) + 1
      /\ old[1] = op /\ \A j \in 1 .. Len(rest) : old[j + 1] = rest[j]
  OBVIOUS
<1>5. \A k \in 1 .. Len(work) : Credit(s, k) >= IF k > d THEN 16 ELSE IF k > c THEN 8 ELSE 0
  BY <1>1, CreditWithin
<1>6. \A i \in 1 .. Len(rest) : Credit(s, Len(work) + i) + 8 >= Credit(old, i + 1)
  BY <1>2, CreditBehind
<1>7. Budget(old, p)
  OBVIOUS
<1> HIDE DEF s, old
<1>8. ASSUME NEW k \in 1 .. Len(work)
      PROVE  /\ Len(s) - k + Height(s[k]) <= 8 * p + 10 + Credit(s, k)
             /\ Len(s) - k + AtEof(s[k]) <= 8 * p + 10
  <2> DEFINE x == IF k > d THEN 16 ELSE IF k > c THEN 8 ELSE 0
  <2>1. Len(rest) + Height(op) <= 8 * p + 2
    <3>1. Credit(old, 1) = 0
      BY DEF Credit, Once, Twice
    <3>2. 1 \in DOMAIN old /\ Len(old) - 1 = Len(rest)
      BY <1>2, <1>4
    <3>3. Len(old) - 1 + Height(old[1]) <= 8 * p + 2 + Credit(old, 1)
      BY <1>7, <3>2 DEF Budget
    <3> QED
      BY <3>1, <3>2, <3>3, <1>2, <1>4, HeightsPositive
  <2>2. /\ Len(work) - k + Height(work[k])
             <= Height(op) + 8 + x
        /\ Len(work) - k + AtEof(work[k]) <= Height(op) + 8
    BY <1>1, HeightsPositive DEF Within
  <2>3. s[k] = work[k] /\ Credit(s, k) \in Nat
    BY <1>3, CreditNat
  <2>4. Credit(s, k) >= x /\ x \in Nat
    BY <1>5
  <2>5. /\ Len(s) - k = Len(rest) + (Len(work) - k) /\ Len(work) - k \in Nat
        /\ k \in Nat /\ Len(s) \in Nat /\ Len(rest) \in Nat
    BY <1>2, <1>3
  <2> HIDE DEF x
  <2>6. Height(work[k]) \in Nat /\ AtEof(work[k]) \in Nat /\ Height(op) \in Nat
    BY HeightsPositive
  <2>7. Len(s) - k + Height(work[k]) <= 8 * p + 10 + Credit(s, k)
    <3> DEFINE e == Height(work[k])
               h == Height(op)
               n == Len(work) - k
               y == Credit(s, k)
    <3>1. e \in Nat /\ h \in Nat /\ n \in Nat /\ Len(rest) \in Nat /\ x \in Nat /\ y \in Nat
      BY <2>3, <2>4, <2>5, <2>6
    <3>2. Len(rest) + h <= 8 * p + 2 /\ n + e <= h + 8 + x /\ y >= x
      BY <2>1, <2>2, <2>4
    <3>3. Len(s) - k = Len(rest) + n
      BY <2>5
    <3> HIDE DEF e, h, n, y
    <3>4. Len(rest) + n + e <= 8 * p + 10 + y
      BY <3>1, <3>2
    <3> QED
      BY <3>3, <3>4 DEF e, y
  <2>8. Len(s) - k + AtEof(work[k]) <= 8 * p + 10
    <3> DEFINE e == AtEof(work[k])
               h == Height(op)
               n == Len(work) - k
    <3>1. e \in Nat /\ h \in Nat /\ n \in Nat /\ Len(rest) \in Nat
      BY <2>5, <2>6
    <3>2. Len(rest) + h <= 8 * p + 2 /\ n + e <= h + 8
      BY <2>1, <2>2
    <3>3. Len(s) - k = Len(rest) + n
      BY <2>5
    <3> HIDE DEF e, h, n
    <3>4. Len(rest) + n + e <= 8 * p + 10
      BY <3>1, <3>2
    <3> QED
      BY <3>3, <3>4 DEF e
  <2> QED
    BY <2>3, <2>7, <2>8
<1>9. ASSUME NEW i \in 1 .. Len(rest)
      PROVE  /\ Len(s) - (Len(work) + i) + Height(s[Len(work) + i])
                  <= 8 * p + 10 + Credit(s, Len(work) + i)
             /\ Len(s) - (Len(work) + i) + AtEof(s[Len(work) + i]) <= 8 * p + 10
  <2>1. i + 1 \in DOMAIN old /\ old[i + 1] = rest[i] /\ s[Len(work) + i] = rest[i]
    BY <1>2, <1>3, <1>4
  <2>2. /\ Len(old) - (i + 1) + Height(rest[i]) <= 8 * p + 2 + Credit(old, i + 1)
        /\ Len(old) - (i + 1) + AtEof(rest[i]) <= 8 * p + 10
    BY <2>1, <1>7 DEF Budget
  <2>3. Credit(s, Len(work) + i) + 8 >= Credit(old, i + 1)
    BY <1>6
  <2> QED
    BY <1>2, <1>3, <1>4, <2>1, <2>2, <2>3, HeightsPositive, CreditNat
<1>10. \A k \in DOMAIN s :
         /\ Len(s) - k + Height(s[k]) <= 8 * p + 10 + Credit(s, k)
         /\ Len(s) - k + AtEof(s[k]) <= 8 * p + 10
  <2> SUFFICES ASSUME NEW k \in DOMAIN s
               PROVE  /\ Len(s) - k + Height(s[k]) <= 8 * p + 10 + Credit(s, k)
                      /\ Len(s) - k + AtEof(s[k]) <= 8 * p + 10
    OBVIOUS
  <2>1. CASE k \in 1 .. Len(work)
    BY <1>8, <2>1
  <2>2. CASE k \notin 1 .. Len(work)
    <3>1. k - Len(work) \in 1 .. Len(rest) /\ k = Len(work) + (k - Len(work))
      BY <1>2, <1>3, <2>2
    <3> QED
      BY <1>9, <3>1
  <2> QED
    BY <2>1, <2>2
<1>11. 8 * (p + 1) + 2 = 8 * p + 10 /\ 8 * (p + 1) + 10 = 8 * p + 18
  OBVIOUS
<1>12. BudgetAtEof(s, p + 1)
  BY <1>10, <1>11 DEF BudgetAtEof
<1>13. Budget(s, p + 1)
  <2>1. \A k \in DOMAIN s : Len(s) - k + AtEof(s[k]) \in Int /\ Credit(s, k) \in Nat
    <3>1. Len(s) \in Nat /\ DOMAIN s = 1 .. Len(s)
      BY <1>2, <1>3
    <3>2. \A k \in DOMAIN s : k \in Nat /\ AtEof(s[k]) \in Nat
      BY <3>1, HeightsPositive
    <3> QED
      BY <3>1, <3>2, CreditNat
  <2>2. \A k \in DOMAIN s :
          /\ Len(s) - k + Height(s[k]) <= 8 * (p + 1) + 2 + Credit(s, k)
          /\ Len(s) - k + AtEof(s[k]) <= 8 * (p + 1) + 10
    BY <1>10, <1>11, <2>1
  <2> QED
    BY <2>2, Zenon DEF Budget
<1> QED
  BY <1>12, <1>13 DEF s

\* A step at the eof.
LEMMA BudgetEnded ==
  ASSUME NEW op \in Entries, NEW work, NEW rest \in Seq(Entries), NEW p \in Nat,
         AffordsAtEof(op, work), BudgetAtEof(<<op>> \o rest, p)
  PROVE  BudgetAtEof(work \o rest, p)
<1>1. /\ work \in Seq(Entries) /\ Len(work) \in Nat /\ Len(rest) \in Nat
  BY DEF AffordsAtEof
<1> DEFINE s == work \o rest
           old == <<op>> \o rest
<1>2. /\ DOMAIN s = 1 .. Len(work) + Len(rest) /\ Len(s) = Len(work) + Len(rest)
      /\ \A j \in 1 .. Len(work) : s[j] = work[j]
      /\ \A j \in 1 .. Len(rest) : s[Len(work) + j] = rest[j]
  BY <1>1
<1>3. /\ DOMAIN old = 1 .. Len(rest) + 1 /\ Len(old) = Len(rest) + 1
      /\ old[1] = op /\ \A j \in 1 .. Len(rest) : old[j + 1] = rest[j]
  OBVIOUS
<1>4. BudgetAtEof(old, p)
  OBVIOUS
<1> HIDE DEF s, old
<1>5. Len(rest) + AtEof(op) <= 8 * p + 2
  <2>1. 1 \in DOMAIN old /\ Len(old) - 1 = Len(rest)
    BY <1>1, <1>3
  <2> QED
    BY <1>3, <1>4, <2>1 DEF BudgetAtEof
<1>6. ASSUME NEW k \in DOMAIN s
      PROVE  Len(s) - k + AtEof(s[k]) <= 8 * p + 2
  <2>1. CASE k \in 1 .. Len(work)
    <3>1. Len(work) - k + AtEof(work[k]) <= AtEof(op)
      BY <2>1 DEF AffordsAtEof
    <3> QED
      BY <1>1, <1>2, <1>5, <2>1, <3>1, HeightsPositive
  <2>2. CASE k \notin 1 .. Len(work)
    <3> DEFINE i == k - Len(work)
    <3>1. i \in 1 .. Len(rest) /\ s[k] = rest[i] /\ old[i + 1] = rest[i] /\ i + 1 \in DOMAIN old
      BY <1>1, <1>2, <1>3, <2>2
    <3>2. Len(old) - (i + 1) + AtEof(rest[i]) <= 8 * p + 2
      BY <1>4, <3>1 DEF BudgetAtEof
    <3>3. k \in Nat
      BY <1>1, <1>2
    <3>4. Len(old) - (i + 1) = Len(s) - k
      BY <1>1, <1>2, <1>3, <3>3
    <3> QED
      BY <3>1, <3>2, <3>4
  <2> QED
    BY <2>1, <2>2
<1>7. BudgetAtEof(s, p)
  BY <1>6 DEF BudgetAtEof
<1> QED
  BY <1>7 DEF s

\* Every step but that of a scan that ends replaces its entry by what it can afford.
LEMMA StepBounded ==
  ASSUME IInv, Deep, NEW op, NEW work, Replace(op, work),
         \/ ptr' = ptr /\ (~Look("eof") => Affords(op, work, 0))
         \/ ptr' = NextPtr /\ (~Look("eof") => Affords(op, work, 1)),
         Look("eof") => AffordsAtEof(op, work)
  PROVE  Deep'
<1>1. /\ todo \in Seq(Entries) /\ todo # << >> /\ Head(todo) = op
      /\ todo' = work \o Tail(todo) /\ tokens' = tokens /\ ptr \in Nat
  BY DEF Replace, IInv, Typed
<1>2. Tail(todo) \in Seq(Entries) /\ todo = <<op>> \o Tail(todo) /\ op \in Entries
  BY <1>1
<1>3. CASE Look("eof")
  <2>1. ptr' = ptr
    BY <1>3 DEF NextPtr
  <2>2. Look("eof")'
    BY <1>1, <1>3, <2>1 DEF Look
  <2>3. BudgetAtEof(<<op>> \o Tail(todo), ptr)
    BY <1>2, <1>3 DEF Deep
  <2>4. BudgetAtEof(work \o Tail(todo), ptr)
    BY <1>1, <1>2, <1>3, <2>3, BudgetEnded
  <2> QED
    BY <1>1, <2>1, <2>2, <2>4 DEF Deep
<1>4. CASE ~Look("eof")
  <2>1. Budget(<<op>> \o Tail(todo), ptr)
    BY <1>2, <1>4 DEF Deep
  <2>2. CASE ptr' = ptr /\ Affords(op, work, 0)
    <3>1. ~Look("eof")'
      BY <1>1, <1>4, <2>2 DEF Look
    <3>2. Budget(work \o Tail(todo), ptr)
      BY <1>1, <1>2, <2>1, <2>2, BudgetDecided
    <3> QED
      BY <1>1, <2>2, <3>1, <3>2 DEF Deep
  <2>3. CASE ptr' = NextPtr /\ Affords(op, work, 1)
    <3>1. ptr' = ptr + 1
      BY <1>4, <2>3 DEF NextPtr
    <3>2. Budget(work \o Tail(todo), ptr + 1) /\ BudgetAtEof(work \o Tail(todo), ptr + 1)
      BY <1>1, <1>2, <2>1, <2>3, BudgetMoved
    <3> QED
      BY <1>1, <3>1, <3>2 DEF Deep
  <2> QED
    BY <1>4, <2>2, <2>3
<1> QED
  BY <1>3, <1>4

\* More than three entries, counted out.
LEMMA Upto ==
  /\ \A k \in 1 .. 4 : k = 1 \/ k = 2 \/ k = 3 \/ k = 4
  /\ \A k \in 1 .. 5 : k = 1 \/ k = 2 \/ k = 3 \/ k = 4 \/ k = 5
  /\ \A k \in 1 .. 6 : k = 1 \/ k = 2 \/ k = 3 \/ k = 4 \/ k = 5 \/ k = 6
  /\ \A k \in 1 .. 8 : k = 1 \/ k = 2 \/ k = 3 \/ k = 4 \/ k = 5 \/ k = 6 \/ k = 7 \/ k = 8
  /\ \A k \in 1 .. 9 : k = 1 \/ k = 2 \/ k = 3 \/ k = 4 \/ k = 5 \/ k = 6 \/ k = 7 \/ k = 8
                         \/ k = 9
OBVIOUS

\* Nothing in the place of an entry is always afforded, if the entry consumes nothing or
\* a token is consumed with the step.
LEMMA NothingAffords ==
  /\ \A op \in Entries \ Consuming : Affords(op, << >>, 0)
  /\ \A op \in Entries : Affords(op, << >>, 1) /\ AffordsAtEof(op, << >>)
<1>1. << >> \in Seq(Entries) /\ Len(<< >>) = 0 /\ 1 .. 0 = {}
  OBVIOUS
<1>2. \A op \in Entries \ Consuming : Within(op, << >>, 1, 2, 0)
  BY <1>1 DEF Within
<1>3. \A op \in Entries : Within(op, << >>, 1, 2, 1)
  BY <1>1 DEF Within
<1> QED
  BY <1>1, <1>2, <1>3 DEF Affords, AffordsAtEof

\* A decision on the current token.
LEMMA DecidedBounded ==
  ASSUME IInv, Deep, NEW op, NEW work, Decide(op, work),
         ~Look("eof") => Affords(op, work, 0), Look("eof") => AffordsAtEof(op, work)
  PROVE  Deep'
BY StepBounded DEF Decide

\* An error is counted where the parser stands.
LEMMA ReportedBounded ==
  ASSUME IInv, Deep, NEW op, NEW work, Report(op, work),
         ~Look("eof") => Affords(op, work, 0), Look("eof") => AffordsAtEof(op, work)
  PROVE  Deep'
BY StepBounded DEF Report

\* A token that the procedure has looked at is consumed.
LEMMA AdvancedBounded ==
  ASSUME IInv, Deep, NEW op, NEW work, Advance(op, work), ~Look("eof"), Affords(op, work, 1)
  PROVE  Deep'
BY StepBounded DEF Advance

\* A token is consumed, and nothing is left to do for the entry.
LEMMA SkippedBounded ==
  ASSUME IInv, Deep, NEW op \in Entries, Replace(op, << >>), ptr' = NextPtr
  PROVE  Deep'
BY StepBounded, NothingAffords

\* A type (parser.cpp:34-55).
LEMMA ParseTypeBounded ==
  ASSUME IInv, Deep, ParseType
  PROVE  Deep'
<1> USE DEF Entries, TokenTypes, Decisions, NodeKinds, Consuming
<1>1. /\ Within("parse_type", <<"Begin", "id", "dims", "TypeDef">>, 2, 5, 0)
      /\ AffordsAtEof("parse_type", <<"Begin", "id", "dims", "TypeDef">>)
  BY Heights, Upto DEF Within, AffordsAtEof
<1>2. Within("dims", <<"lbracket", "dim_loop", "rbracket">>, 1, 3, 0)
  BY Heights, Upto DEF Within, AffordsAtEof
<1>3. /\ Within("dim_loop", <<"Dim", "num", "dim_sep", "dim_loop">>, 2, 5, 0)
      /\ AffordsAtEof("dim_loop", <<"Dim", "num", "dim_sep", "dim_loop">>)
  BY Heights, Upto DEF Within, AffordsAtEof
<1>4. Within("dim_sep", <<"comma">>, 1, 2, 0)
  BY Heights, Upto DEF Within, AffordsAtEof
<1> QED
  BY <1>1, <1>2, <1>3, <1>4, NothingAffords, DecidedBounded, ReportedBounded DEF
     Affords, ParseType, Look, LookAny

\* A parameter (parser.cpp:57-67).
LEMMA ParseParamBounded ==
  ASSUME IInv, Deep, ParseParam
  PROVE  Deep'
<1> USE DEF Entries, TokenTypes, Decisions, NodeKinds, Consuming
<1>1. /\ Within("parse_param", <<"Begin", "id", "param_type", "Param">>, 2, 5, 0)
      /\ AffordsAtEof("parse_param", <<"Begin", "id", "param_type", "Param">>)
  BY Heights, Upto DEF Within, AffordsAtEof
<1>2. Within("param_type", <<"colon", "parse_type">>, 1, 2, 0)
  BY Heights, Upto DEF Within, AffordsAtEof
<1> QED
  BY <1>1, <1>2, NothingAffords, DecidedBounded DEF Affords, ParseParam, Look, LookAny

\* A function (parser.cpp:69-94).
LEMMA ParseFuncDeclBounded ==
  ASSUME IInv, Deep, ParseFuncDecl
  PROVE  Deep'
<1> USE DEF Entries, TokenTypes, Decisions, NodeKinds, Consuming
<1>1. /\ Within("parse_func_decl",
                <<"Begin", "func", "id", "lparen", "param_loop", "rparen", "ret_type",
                  "parse_block", "FuncDecl">>, 2, 3, 0)
      /\ AffordsAtEof("parse_func_decl",
                      <<"Begin", "func", "id", "lparen", "param_loop", "rparen",
                        "ret_type", "parse_block", "FuncDecl">>)
  BY Heights, Upto DEF Within, AffordsAtEof
<1>2. /\ Within("param_loop", <<"parse_param", "param_sep", "param_loop">>, 1, 4, 0)
      /\ AffordsAtEof("param_loop", <<"parse_param", "param_sep", "param_loop">>)
  BY Heights, Upto DEF Within, AffordsAtEof
<1>3. Within("param_sep", <<"comma">>, 1, 2, 0)
  BY Heights, Upto DEF Within, AffordsAtEof
<1>4. Within("ret_type", <<"arrow", "parse_type">>, 1, 2, 0)
  BY Heights, Upto DEF Within, AffordsAtEof
<1> QED
  BY <1>1, <1>2, <1>3, <1>4, NothingAffords, DecidedBounded, ReportedBounded DEF
     Affords, ParseFuncDecl, Look, LookAny

\* A block (parser.cpp:96-122).
LEMMA ParseBlockBounded ==
  ASSUME IInv, Deep, ParseBlock
  PROVE  Deep'
<1> USE DEF Entries, TokenTypes, Decisions, NodeKinds, Consuming
<1>1. Within("parse_block",
             <<"Begin", "lbrace", "stmt_loop", "rbrace", "BlockStmt">>, 2, 4, 0)
  BY Heights, Upto DEF Within, AffordsAtEof
<1>2. /\ Within("parse_block", <<"Begin", "parse_stmt", "BlockStmt">>, 2, 4, 0)
      /\ AffordsAtEof("parse_block", <<"Begin", "parse_stmt", "BlockStmt">>)
  BY Heights, Upto DEF Within, AffordsAtEof
<1>3. /\ Within("stmt_loop", <<"parse_stmt", "after_stmt">>, 1, 3, 0)
      /\ AffordsAtEof("stmt_loop", <<"parse_stmt", "after_stmt">>)
  BY Heights, Upto DEF Within, AffordsAtEof
<1>4. Within("after_stmt", <<"semis", "stmt_loop">>, 3, 4, 0)
  BY Heights, Upto DEF Within, AffordsAtEof
<1>5. Within("semis", <<"semi", "semis">>, 1, 3, 0)
  BY Heights, Upto DEF Within, AffordsAtEof
<1> QED
  BY <1>1, <1>2, <1>3, <1>4, <1>5, NothingAffords, DecidedBounded DEF Affords,
     ParseBlock, Look, LookAny

\* The choice of a statement (parser.cpp:124-142).
LEMMA ParseStmtBounded ==
  ASSUME IInv, Deep, ParseStmt
  PROVE  Deep'
<1> USE DEF Entries, TokenTypes, Decisions, NodeKinds, Consuming
<1>1. Within("parse_stmt", <<"parse_var_decl">>, 1, 2, 0)
  BY Heights, Upto DEF Within, AffordsAtEof
<1>2. Within("parse_stmt", <<"parse_expr_stmt">>, 1, 2, 0)
  BY Heights, Upto DEF Within, AffordsAtEof
<1>3. Within("parse_stmt", <<"parse_return_stmt">>, 1, 2, 0)
  BY Heights, Upto DEF Within, AffordsAtEof
<1>4. Within("parse_stmt", <<"parse_yield_stmt">>, 1, 2, 0)
  BY Heights, Upto DEF Within, AffordsAtEof
<1> QED
  BY <1>1, <1>2, <1>3, <1>4, NothingAffords, DecidedBounded, SkippedBounded DEF
     Affords, ParseStmt, Look, LookAny

\* A declaration (parser.cpp:144-158).
LEMMA ParseVarDeclBounded ==
  ASSUME IInv, Deep, ParseVarDecl
  PROVE  Deep'
<1> USE DEF Entries, TokenTypes, Decisions, NodeKinds, Consuming
<1>1. /\ Within("parse_var_decl",
                <<"Begin", "var", "Name", "id", "more_vars", "eq", "parse_expr",
                  "VarDecl">>, 2, 4, 0)
      /\ AffordsAtEof("parse_var_decl",
                      <<"Begin", "var", "Name", "id", "more_vars", "eq", "parse_expr",
                        "VarDecl">>)
  BY Heights, Upto DEF Within, AffordsAtEof
<1>2. Within("more_vars", <<"comma", "Name", "id", "more_vars">>, 1, 3, 0)
  BY Heights, Upto DEF Within, AffordsAtEof
<1> QED
  BY <1>1, <1>2, NothingAffords, DecidedBounded DEF Affords, ParseVarDecl, Look,
     LookAny

\* An if (parser.cpp:160-171).
LEMMA ParseIfExprBounded ==
  ASSUME IInv, Deep, ParseIfExpr
  PROVE  Deep'
<1> USE DEF Entries, TokenTypes, Decisions, NodeKinds, Consuming
<1>1. /\ Within("parse_if_expr",
                <<"Begin", "if", "parse_expr", "parse_block", "else_part", "IfExpr">>,
                  2, 3, 0)
      /\ AffordsAtEof("parse_if_expr",
                      <<"Begin", "if", "parse_expr", "parse_block", "else_part",
                        "IfExpr">>)
  BY Heights, Upto DEF Within, AffordsAtEof
<1>2. Within("else_part", <<"else", "parse_block">>, 1, 2, 0)
  BY Heights, Upto DEF Within, AffordsAtEof
<1> QED
  BY <1>1, <1>2, NothingAffords, DecidedBounded DEF Affords, ParseIfExpr, Look,
     LookAny

\* A loop (parser.cpp:173-200).
LEMMA ParseForExprBounded ==
  ASSUME IInv, Deep, ParseForExpr
  PROVE  Deep'
<1> USE DEF Entries, TokenTypes, Decisions, NodeKinds, Consuming
<1>1. /\ Within("parse_for_expr",
                <<"Begin", "for", "Name", "id", "in", "parse_range_expr", "init_part",
                  "parse_block", "ForExpr">>, 2, 4, 0)
      /\ AffordsAtEof("parse_for_expr",
                      <<"Begin", "for", "Name", "id", "in", "parse_range_expr",
                        "init_part", "parse_block", "ForExpr">>)
  BY Heights, Upto DEF Within, AffordsAtEof
<1>2. Within("init_part", <<"init", "lparen", "init_loop", "rparen">>, 1, 2, 0)
  BY Heights, Upto DEF Within, AffordsAtEof
<1>3. /\ Within("init_loop", <<"Name", "id", "eq", "parse_expr", "init_sep">>, 2, 3, 0)
      /\ AffordsAtEof("init_loop", <<"Name", "id", "eq", "parse_expr", "init_sep">>)
  BY Heights, Upto DEF Within, AffordsAtEof
<1>4. Within("init_sep", <<"comma", "init_loop">>, 1, 3, 0)
  BY Heights, Upto DEF Within, AffordsAtEof
<1>5. /\ Within("init_sep", <<"init_loop">>, 2, 3, 0)
      /\ AffordsAtEof("init_sep", <<"init_loop">>)
  BY Heights, Upto DEF Within, AffordsAtEof
<1> QED
  BY <1>1, <1>2, <1>3, <1>4, <1>5, NothingAffords, DecidedBounded DEF Affords,
     ParseForExpr, Look, LookAny

\* The range of a loop (parser.cpp:264-272).
LEMMA ParseRangeExprBounded ==
  ASSUME IInv, Deep, ParseRangeExpr
  PROVE  Deep'
<1> USE DEF Entries, TokenTypes, Decisions, NodeKinds, Consuming
<1>1. /\ Within("parse_range_expr",
                <<"parse_expr", "dot", "dot", "parse_expr", "RangeExpr">>, 1, 2, 0)
      /\ AffordsAtEof("parse_range_expr",
                      <<"parse_expr", "dot", "dot", "parse_expr", "RangeExpr">>)
  BY Heights, Upto DEF Within, AffordsAtEof
<1> QED
  BY <1>1, NothingAffords, DecidedBounded DEF Affords, ParseRangeExpr, Look, LookAny

\* A statement that is an expression (parser.cpp:202-215).
LEMMA ParseExprStmtBounded ==
  ASSUME IInv, Deep, ParseExprStmt
  PROVE  Deep'
<1> USE DEF Entries, TokenTypes, Decisions, NodeKinds, Consuming
<1>1. Within("parse_expr_stmt", <<"parse_if_expr", "ExprStmt">>, 1, 3, 0)
  BY Heights, Upto DEF Within, AffordsAtEof
<1>2. Within("parse_expr_stmt", <<"parse_for_expr", "ExprStmt">>, 1, 3, 0)
  BY Heights, Upto DEF Within, AffordsAtEof
<1>3. Within("parse_expr_stmt", <<"parse_call_expr", "ExprStmt">>, 1, 3, 0)
  BY Heights, Upto DEF Within, AffordsAtEof
<1> QED
  BY <1>1, <1>2, <1>3, NothingAffords, DecidedBounded DEF Affords, ParseExprStmt,
     Look, LookAny

\* A return (parser.cpp:217-236).
LEMMA ParseReturnStmtBounded ==
  ASSUME IInv, Deep, ParseReturnStmt
  PROVE  Deep'
<1> USE DEF Entries, TokenTypes, Decisions, NodeKinds, Consuming
<1>1. /\ Within("parse_return_stmt",
                <<"Begin", "ret", "ret_value", "ReturnStmt">>, 2, 5, 0)
      /\ AffordsAtEof("parse_return_stmt",
                      <<"Begin", "ret", "ret_value", "ReturnStmt">>)
  BY Heights, Upto DEF Within, AffordsAtEof
<1>2. Within("ret_value", <<"parse_expr">>, 1, 2, 0)
  BY Heights, Upto DEF Within, AffordsAtEof
<1> QED
  BY <1>1, <1>2, NothingAffords, DecidedBounded DEF Affords, ParseReturnStmt,
     StartsOperand, Look, LookAny

\* A yield (parser.cpp:238-262).
LEMMA ParseYieldStmtBounded ==
  ASSUME IInv, Deep, ParseYieldStmt
  PROVE  Deep'
<1> USE DEF Entries, TokenTypes, Decisions, NodeKinds, Consuming
<1>1. /\ Within("parse_yield_stmt",
                <<"Begin", "yield", "yield_first", "YieldStmt">>, 2, 5, 0)
      /\ AffordsAtEof("parse_yield_stmt",
                      <<"Begin", "yield", "yield_first", "YieldStmt">>)
  BY Heights, Upto DEF Within, AffordsAtEof
<1>2. /\ Within("yield_first", <<"yield_loop">>, 2, 3, 0)
      /\ AffordsAtEof("yield_first", <<"yield_loop">>)
  BY Heights, Upto DEF Within, AffordsAtEof
<1>3. Within("yield_loop", <<"parse_expr", "yield_sep">>, 1, 3, 0)
  BY Heights, Upto DEF Within, AffordsAtEof
<1>4. Within("yield_sep", <<"comma", "yield_loop">>, 1, 3, 0)
  BY Heights, Upto DEF Within, AffordsAtEof
<1>5. /\ Within("yield_sep", <<"yield_loop">>, 2, 3, 0)
      /\ AffordsAtEof("yield_sep", <<"yield_loop">>)
  BY Heights, Upto DEF Within, AffordsAtEof
<1> QED
  BY <1>1, <1>2, <1>3, <1>4, <1>5, NothingAffords, DecidedBounded DEF Affords,
     ParseYieldStmt, StartsOperand, Look, LookAny

\* A comparison (parser.cpp:411-436).
LEMMA ParseCmpExprBounded ==
  ASSUME IInv, Deep, ParseCmpExpr
  PROVE  Deep'
<1> USE DEF Entries, TokenTypes, Decisions, NodeKinds, Consuming
<1>1. /\ Within("parse_expr", <<"parse_add_sub", "cmp_rest">>, 1, 3, 0)
      /\ AffordsAtEof("parse_expr", <<"parse_add_sub", "cmp_rest">>)
  BY Heights, Upto DEF Within, AffordsAtEof
<1>2. Within("cmp_rest", <<"parse_add_sub", "Cmp">>, 1, 3, 1)
  BY Heights, Upto DEF Within, AffordsAtEof
<1> QED
  BY <1>1, <1>2, NothingAffords, DecidedBounded, AdvancedBounded DEF Affords,
     ParseCmpExpr, Look, LookAny

\* A sum (parser.cpp:438-455).
LEMMA ParseAddSubBounded ==
  ASSUME IInv, Deep, ParseAddSub
  PROVE  Deep'
<1> USE DEF Entries, TokenTypes, Decisions, NodeKinds, Consuming
<1>1. /\ Within("parse_add_sub", <<"parse_mul_div", "add_rest">>, 1, 3, 0)
      /\ AffordsAtEof("parse_add_sub", <<"parse_mul_div", "add_rest">>)
  BY Heights, Upto DEF Within, AffordsAtEof
<1>2. Within("add_rest", <<"parse_mul_div", "Add", "add_rest">>, 1, 4, 1)
  BY Heights, Upto DEF Within, AffordsAtEof
<1>3. Within("add_rest", <<"parse_mul_div", "Sub", "add_rest">>, 1, 4, 1)
  BY Heights, Upto DEF Within, AffordsAtEof
<1> QED
  BY <1>1, <1>2, <1>3, NothingAffords, DecidedBounded, AdvancedBounded DEF Affords,
     ParseAddSub, Look, LookAny

\* A product (parser.cpp:457-474).
LEMMA ParseMulDivBounded ==
  ASSUME IInv, Deep, ParseMulDiv
  PROVE  Deep'
<1> USE DEF Entries, TokenTypes, Decisions, NodeKinds, Consuming
<1>1. /\ Within("parse_mul_div", <<"parse_value", "mul_rest">>, 1, 3, 0)
      /\ AffordsAtEof("parse_mul_div", <<"parse_value", "mul_rest">>)
  BY Heights, Upto DEF Within, AffordsAtEof
<1>2. Within("mul_rest", <<"parse_value", "Mul", "mul_rest">>, 1, 4, 1)
  BY Heights, Upto DEF Within, AffordsAtEof
<1>3. Within("mul_rest", <<"parse_value", "Div", "mul_rest">>, 1, 4, 1)
  BY Heights, Upto DEF Within, AffordsAtEof
<1> QED
  BY <1>1, <1>2, <1>3, NothingAffords, DecidedBounded, AdvancedBounded DEF Affords,
     ParseMulDiv, Look, LookAny

\* A value (parser.cpp:330-361).
LEMMA ParseValueBounded ==
  ASSUME IInv, Deep, ParseValue
  PROVE  Deep'
<1> USE DEF Entries, TokenTypes, Decisions, NodeKinds, Consuming
<1>1. Within("parse_value", <<"parse_value", "Neg">>, 1, 3, 1)
  BY Heights, Upto DEF Within, AffordsAtEof
<1>2. Within("parse_value", <<"Number", "num">>, 2, 3, 0)
  BY Heights, Upto DEF Within, AffordsAtEof
<1>3. Within("parse_value", <<"Bool">>, 2, 3, 1)
  BY Heights, Upto DEF Within, AffordsAtEof
<1>4. Within("parse_value", <<"parse_call_expr">>, 1, 2, 0)
  BY Heights, Upto DEF Within, AffordsAtEof
<1>5. Within("parse_value", <<"parse_index_access">>, 1, 2, 0)
  BY Heights, Upto DEF Within, AffordsAtEof
<1>6. Within("parse_value", <<"parse_identifier">>, 1, 2, 0)
  BY Heights, Upto DEF Within, AffordsAtEof
<1>7. Within("parse_value", <<"parse_tensor">>, 1, 2, 0)
  BY Heights, Upto DEF Within, AffordsAtEof
<1>8. Within("parse_value", <<"lparen", "parse_expr", "rparen">>, 1, 2, 0)
  BY Heights, Upto DEF Within, AffordsAtEof
<1>9. Within("parse_value", <<"parse_if_expr">>, 1, 2, 0)
  BY Heights, Upto DEF Within, AffordsAtEof
<1>10. Within("parse_value", <<"parse_for_expr">>, 1, 2, 0)
  BY Heights, Upto DEF Within, AffordsAtEof
<1> QED
  BY <1>1, <1>2, <1>3, <1>4, <1>5, <1>6, <1>7, <1>8, <1>9, <1>10, NothingAffords,
     DecidedBounded, AdvancedBounded, SkippedBounded DEF Affords, ParseValue,
     ParseLiteral, ParseUnary, Look, LookAny

\* A call (parser.cpp:374-394).
LEMMA ParseCallExprBounded ==
  ASSUME IInv, Deep, ParseCallExpr
  PROVE  Deep'
<1> USE DEF Entries, TokenTypes, Decisions, NodeKinds, Consuming
<1>1. /\ Within("parse_call_expr", <<"parse_identifier", "call_args">>, 1, 3, 0)
      /\ AffordsAtEof("parse_call_expr", <<"parse_identifier", "call_args">>)
  BY Heights, Upto DEF Within, AffordsAtEof
<1>2. /\ Within("parse_identifier", <<"Identifier", "id">>, 2, 3, 0)
      /\ AffordsAtEof("parse_identifier", <<"Identifier", "id">>)
  BY Heights, Upto DEF Within, AffordsAtEof
<1>3. Within("call_args",
             <<"Begin", "lparen", "arg_loop", "rparen", "CallExpr">>, 2, 4, 0)
  BY Heights, Upto DEF Within, AffordsAtEof
<1>4. /\ Within("arg_loop", <<"parse_expr", "arg_sep", "arg_loop">>, 1, 4, 0)
      /\ AffordsAtEof("arg_loop", <<"parse_expr", "arg_sep", "arg_loop">>)
  BY Heights, Upto DEF Within, AffordsAtEof
<1>5. Within("arg_sep", <<"comma">>, 1, 2, 0)
  BY Heights, Upto DEF Within, AffordsAtEof
<1> QED
  BY <1>1, <1>2, <1>3, <1>4, <1>5, NothingAffords, DecidedBounded, ReportedBounded DEF
     Affords, ParseCallExpr, Look, LookAny

\* An index (parser.cpp:396-409).
LEMMA ParseIndexAccessBounded ==
  ASSUME IInv, Deep, ParseIndexAccess
  PROVE  Deep'
<1> USE DEF Entries, TokenTypes, Decisions, NodeKinds, Consuming
<1>1. /\ Within("parse_index_access", <<"parse_identifier", "index_loop">>, 1, 3, 0)
      /\ AffordsAtEof("parse_index_access", <<"parse_identifier", "index_loop">>)
  BY Heights, Upto DEF Within, AffordsAtEof
<1>2. Within("index_loop",
             <<"lbracket", "parse_expr", "rbracket", "IndexAccess", "index_loop">>, 1,
               2, 0)
  BY Heights, Upto DEF Within, AffordsAtEof
<1> QED
  BY <1>1, <1>2, NothingAffords, DecidedBounded DEF Affords, ParseIndexAccess, Look,
     LookAny

\* A tensor (parser.cpp:306-321).
LEMMA ParseTensorBounded ==
  ASSUME IInv, Deep, ParseTensor
  PROVE  Deep'
<1> USE DEF Entries, TokenTypes, Decisions, NodeKinds, Consuming
<1>1. /\ Within("parse_tensor",
                <<"Begin", "lbracket", "tensor_loop", "rbracket", "Tensor">>, 2, 4, 0)
      /\ AffordsAtEof("parse_tensor",
                      <<"Begin", "lbracket", "tensor_loop", "rbracket", "Tensor">>)
  BY Heights, Upto DEF Within, AffordsAtEof
<1>2. /\ Within("tensor_loop", <<"parse_expr", "tensor_sep", "tensor_loop">>, 1, 4, 0)
      /\ AffordsAtEof("tensor_loop", <<"parse_expr", "tensor_sep", "tensor_loop">>)
  BY Heights, Upto DEF Within, AffordsAtEof
<1>3. Within("tensor_sep", <<"comma">>, 1, 2, 0)
  BY Heights, Upto DEF Within, AffordsAtEof
<1> QED
  BY <1>1, <1>2, <1>3, NothingAffords, DecidedBounded, ReportedBounded DEF Affords,
     ParseTensor, Look, LookAny

\* The loop over the file (parser.cpp:480-496).
LEMMA ScanBounded ==
  ASSUME IInv, Deep, Scan
  PROVE  Deep'
<1> USE DEF Entries, TokenTypes, Decisions, NodeKinds, Consuming
<1>1. AffordsAtEof("scan", <<"Root">>)
  BY Heights DEF AffordsAtEof
<1>2. Within("scan", <<"parse_func_decl", "scan">>, 1, 3, 0)
  BY Heights DEF Within
<1>3. Within("scan", <<"resync", "scan">>, 3, 4, 0)
  BY Heights DEF Within
<1>4. Within("resync", <<"resync">>, 2, 3, 1)
  BY Heights DEF Within
<1> QED
  BY <1>1, <1>2, <1>3, <1>4, NothingAffords, DecidedBounded, ReportedBounded,
     AdvancedBounded DEF Affords, Scan, Look, LookAny

\* A token is matched (parser.cpp:16-27).
LEMMA MatchBounded ==
  ASSUME IInv, Deep, NEW t \in TokenTypes, Match(t)
  PROVE  Deep'
BY SkippedBounded DEF Match, Entries

\* A node is completed (parser.cpp:29-32).
LEMMA BuildBounded ==
  ASSUME IInv, Deep, NEW n \in NodeKinds, Build(n)
  PROVE  Deep'
<1>1. n \in Entries \ Consuming
  BY DEF NodeKinds, Entries, Consuming, TokenTypes
<1> QED
  BY <1>1, StepBounded, NothingAffords DEF Build

\* It holds where the parser starts.
LEMMA InitDeep == Init => Deep
<1> SUFFICES ASSUME Init PROVE Deep
  OBVIOUS
<1>1. /\ ptr = 1 /\ DOMAIN todo = 1 .. 2 /\ Len(todo) = 2 /\ todo[1] = "Begin"
      /\ todo[2] = "scan"
  BY DEF Init
<1>2. /\ Height("Begin") = 1 /\ AtEof("Begin") = 1 /\ Height("scan") = 10
      /\ AtEof("scan") = 1
  BY Heights DEF NodeKinds
<1>3. \A k \in 1 .. 2 : k = 1 \/ k = 2
  OBVIOUS
<1>4. BudgetAtEof(todo, ptr)
  BY <1>1, <1>2, <1>3 DEF BudgetAtEof
<1>5. Budget(todo, ptr)
  BY <1>1, <1>2, <1>3, CreditNat DEF Budget
<1> QED
  BY <1>4, <1>5 DEF Deep

\* It is kept by every procedure.
LEMMA NextDeep == IInv /\ Deep /\ [Next]_vars => Deep'
<1> SUFFICES ASSUME IInv, Deep, [Next]_vars PROVE Deep'
  OBVIOUS
<1>1. CASE UNCHANGED vars
  BY <1>1 DEF vars, Deep, Look, Budget, BudgetAtEof
<1>2. CASE Next
  BY <1>2, MatchBounded, BuildBounded, ScanBounded, ParseTypeBounded, ParseParamBounded,
     ParseFuncDeclBounded, ParseBlockBounded, ParseStmtBounded, ParseVarDeclBounded,
     ParseIfExprBounded, ParseForExprBounded, ParseRangeExprBounded, ParseExprStmtBounded,
     ParseReturnStmtBounded, ParseYieldStmtBounded, ParseCmpExprBounded,
     ParseAddSubBounded, ParseMulDivBounded, ParseValueBounded, ParseCallExprBounded,
     ParseIndexAccessBounded, ParseTensorBounded
     DEF Next
<1> QED
  BY <1>1, <1>2

\* The first entry has no credit: its place is the depth of the stack.
LEMMA DeepBounded == IInv /\ Deep => StackBounded
<1> SUFFICES ASSUME IInv, Deep PROVE StackBounded
  OBVIOUS
<1>1. todo \in Seq(Entries) /\ Len(todo) \in Nat /\ ptr \in Nat
  BY DEF IInv, Typed
<1>2. CASE Len(todo) = 0
  BY <1>1, <1>2 DEF StackBounded
<1>3. CASE Len(todo) # 0
  <2>1. 1 \in DOMAIN todo
    BY <1>1, <1>3
  <2>2. Credit(todo, 1) = 0
    BY DEF Credit, Once, Twice
  <2>3. \/ Len(todo) - 1 + AtEof(todo[1]) <= 8 * ptr + 2
        \/ Len(todo) - 1 + Height(todo[1]) <= 8 * ptr + 2
    <3>1. CASE Look("eof")
      BY <2>1, <3>1 DEF Deep, BudgetAtEof
    <3>2. CASE ~Look("eof")
      <4>1. Len(todo) - 1 + Height(todo[1]) <= 8 * ptr + 2 + Credit(todo, 1)
        BY <2>1, <3>2 DEF Deep, Budget
      <4> QED
        BY <1>1, <2>2, <4>1, HeightsPositive
    <3> QED
      BY <3>1, <3>2
  <2> QED
    BY <1>1, <2>3, HeightsPositive DEF StackBounded
<1> QED
  BY <1>2, <1>3

\* Nothing recurses without consuming, on any token vector that ends with eof: the call
\* stack of the parser (parser.cpp:34-496) is never deeper than a constant for each token
\* consumed.  Error recovery included, and although the lists consume nothing at the eof.
THEOREM StackDepth == Spec => []StackBounded
<1>1. Init => IInv /\ Deep
  BY InitIInv, InitDeep
<1>2. IInv /\ Deep /\ [Next]_vars => (IInv /\ Deep)'
  BY NextIInv, NextDeep
<1>3. IInv /\ Deep => StackBounded
  BY DeepBounded
<1> QED
  BY <1>1, <1>2, <1>3, PTL DEF Spec
=============================================================================
