# A TLA+ verification of the colgm-mlir compiler

colgm-mlir compiles a small tensor language. A source file goes through a
lexer, a recursive-descent parser, a semantic analysis and a code generator
into a dialect of MLIR, which two passes fold and lower and a JIT runs. The
program is sequential: nothing here is about threads. What is hard in it is
that several walks over the same data must agree (two walks over the tree with
a symbol table each; a shape computed in `sema`, in the operation's builder and in
the lowering),
that the parser must come back from any error, and that a rewriting driver
applies patterns in an order the code does not choose, to a graph in which
operations are freed by hand. All paths below are relative to the repository,
whose code is under `src/`.

## Inventory

| component | state | operations | used by |
|---|---|---|---|
| lexer (`src/lexer`) | `ptr, line, column, invalid_char`, the tokens | `scan` and its generators | driver; tokens go to the parser |
| parser (`src/parse`) | `ptr`, the call stack, the tree | 24 `parse_*` procedures, `match`, `next` | driver; the tree goes to `sema` and `codegen` |
| syntax tree (`src/ast`) | nodes, locations, `resolve_type_` | constructors, `set_resolved` | written by parser and `sema`, read by `codegen` |
| type storage (`src/sema/storage`) | three interning tables | `get_*_type` | `sema`; type equality is pointer equality |
| semantic analysis (`src/sema/sema`, `context`) | function table, stack of scopes, `func_ret_type` | 20 `resolve_*` procedures | driver |
| intrinsic typing (`src/sema/intrinsic`) | none | one inference per intrinsic | `resolve_call_expr` |
| code generation (`src/codegen`) | module, insertion point, `var_stack` | 20 `generate_*` procedures | driver |
| dialect (`src/dialect/colgm`) | attributes and operands | builders and verifiers | code generation, passes |
| constant folding (`src/dialect/pass/constfold`) | the operations of a function | 7 rewrite patterns | pass manager |
| lowering (`src/dialect/pass/lowering*`) | the operations of a module | one conversion per operation | pass manager |
| rank-0 loop scalarisation (`src/dialect/pass/scf_for_rank0_scalar`) | the loops of a function | `rewriteForOp` | JIT pipeline |
| JIT and runtime (`src/runtime`) | the execution engine | `run_jit`, `__colgm_print_*` | driver |
| driver (`src/main.cpp`) | options, the error counter | `execute` | |
| error report (`src/report`) | `cnt`, the source lines | `err`, `warn`, `chkerr` | every front-end phase |

How they interact: the phases run one after the other and hand over by
reference (tokens, tree, module). They share one `error` object; `execute`
calls `chkerr()` after the lexer, the parser and `sema`, which exits when
anything was reported, so a phase may assume that those before it reported
nothing. After code generation the same role is played by MLIR's verifier.

What is hard, and what must hold:

* parser: it ends on any token sequence; it accepts the language and builds the
  tree that the precedence table gives; recovery consumes the whole file.
* scopes and types: what `sema` accepts, `codegen` can generate: every name is
  found, and has the type `sema` gave it.
* type storage: two types are the same object iff they are equal.
* constant folding: no order of rewrites frees an operation that is still read
  or changes what the program computes, and the rewriting ends.
* tensors: the analysis, the generator, the verifier and the lowering of an
  operation agree on its shape, and the loops that come out compute what the
  expression means, inside of their operands.
* loops: each rewrite of the structured operations leaves a valid function that
  computes what it did.
* driver: no phase runs after an error.

`PROJECT.json` lists, under `hazards`, each place in the code where one of
these can go wrong, with the property that would notice.

## Plan

| step | modules | status |
|---|---|---|
| 1 | `Parser`; `Grammar`, the reference language | done |
| 2 | `ConstFold`; proofs in `ConstFold_proof` | done |
| 3 | `Types`, `Ast`, `Sema`, `Codegen`; `Frontend` composes the two walks; `Terms`, the typing rules they are compared with | done |
| 4 | `Lexer`; `Lexicon`, the lexical grammar; `TypeStorage`, which refines `TypeValues` (types as values), proofs in `Types_proof` | done |
| 5 | `Driver`: the options and the gates between all phases; proofs in `Driver_proof` | done |
| 6 | `Scalars`, `Tensors`, `Intrinsics`, `Operations`, `Lowering`; `TensorCall` composes them and refines `TensorMeaning` | done |
| 7 | `Loops`: the lowering of the structured operations and the rank-0 pass; proofs in `Loops_proof` | done |
| 8 | `Parser_proof`: the parser reads no token that is not there, and its call stack is bounded | done |
| 9 | `Induction`: lemmas for what is defined by recursion; `Sema_proof` (with `Frontend`) | done |
| 10 | `CommandLine`: the arguments as a whole, taken out of `MCDriver` so that `Driver_proof` can use it | done |
| 11 | `Lexer_proof`: tokens are where they say, are the longest lexemes, and separated lexemes are accepted | done |
| 12 | `Types_proof`: the stages of an expression on tensors agree, and its loops stay in bounds and write apart | done |

Theorems: memory safety of the folding pass and that it changes nothing a program
prints or returns, for functions of any size; that interning makes pointer equality type
equality, however deep types are nested, and implements types as values; that semantic
analysis keeps its scopes, leaves no expression without a type and reads no missing
one without having reported an error, for every tree the parser can make; what the driver does for any
arguments; that the parser stays inside the token vector and recurses only as far as it consumes tokens;
that the rank-0 pass misses no loop, and that lowering and that pass keep a function
valid, whatever the function is; that tokens are where they say and are the longest lexemes of
any text, and that lexemes between blanks are accepted; that the stages of any expression on tensors agree
on its type, that what `sema` accepts compiles but for named gaps, and that the loops that come
out of it stay in bounds and write apart.
Still worth proving: that the scopes of `codegen` stay balanced.

`Induction` is what several of the proofs have in common. The provers here cannot use
the induction theorems of the library, which have an operator as a parameter. They
can use well-foundedness: `Least` says that a set of naturals that is not empty has a least
element, `Greatest` the same of a bounded one. A claim about every number is then
proved by looking at the least number for which it fails, and that a recursive
function is what its equation says, by looking at the least domain on which
no function satisfies the equation. The module also has the elements of a sequence that is
put together from others, and `Path`, a counter along a sequence of steps, with which
the proofs about call stacks count.

## Lexer

`Lexer` models `scan` with one action for each branch of its loop. A text is a
sequence of characters. Those that a branch tells apart stand for themselves, `a` stands for the
other letters, `0` for the digits, `(` for
every operator that never joins the next character, `h1 h2 c` for the bytes of
UTF-8 characters. `toks` is the token vector; `at` and `upto` are the place of a
token in the text, which the code does not keep and the properties need.
`MaxInvalid` is the limit on invalid characters, 10 in the code and 2 in the
run, so that texts reach it.

| run | question | bounds |
|---|---|---|
| `lexer` | are the tokens the longest lexemes at every place (`MaximalMunch`), are separated lexemes accepted (`AcceptsLexemes`), are tokens where they say (`Positions`), what becomes of the hexadecimal and octal literals of the language (`PrefixesSplit`)? | all texts over seven alphabets: numbers and exponents to 6 characters, letters after numbers to 5, every operator next to every other to 4, comments to 7 and, of their characters and line breaks alone, to 8 (`/*n/**//` needs them), words with UTF-8 to 5, invalid characters to 6. Every pair of branches that compete for a character occurs |

`Lexicon` has the lexical grammar, as predicates on strings, and the tokens that longest match
finds in a text (`TokensFrom`, a recursive function); it knows nothing of
the order in which `scan` tries its branches. Its words and comments are those of
`docs/syntax-design.md`, its numbers the decimal ones of the comment in `num_gen`. The hexadecimal and
octal literals of that document (lines 61-66: `0x7fffffff`, `0o777`) are not among them: the scanner
does not know them, and makes of `0x7f` the number `0` and the identifier `x7f`, without an error.
`MaximalMunch` is a claim about decimal numbers, and says nothing against that; `PrefixesSplit` states it, for
every such literal in any text, and the disagreement is a finding. What else the scanner gets wrong and the
properties therefore leave out: a continuation byte without a head is dropped
without an error (`Stray`); `...` and `=>` become tokens without a type, without
an error (the parser then reports them); the column after a comment of several
lines counts the line break; a character of several bytes counts two columns. The end
token is where the last token is.

`Lexer_proof` proves `TokenPositions`: `Spec => []Positions`, for all texts. The line of a token, by which the
parser ends statements, is always right; the column if the line before it is `Plain`. The invariant `LInv` says
the same of the place where the scanner is (`Here`), but at a line break, where a note leaves
a column that nobody reads. One lemma per branch: a lexeme stays on its line and takes as many columns as characters
(`Along`), a comment adds the breaks in it, and if it has any, the line is not plain after it. That the
end of an identifier is where its recursive function says needs `Induction`. The proof found a flaw in the
property: `Plain` used to ask for a `/*` in front of each `*/`, which the comment
`/* ... /* ... */` satisfies, with a line break in it, while the column is wrong after it.

It also proves `ScansLongest` (`Spec => []MaximalMunch`) and `ScansLexemes` (`Spec => []AcceptsLexemes`), for
texts of any length.

* First the grammar is said again, of places in the text instead of strings cut out of it (`NumberIs`,
  `WordIs`, `TypeIs`, `LineIs`, `BlockIs`), and `EndIs` says which lexemes can begin with a character.
* `TokensFrom` has a solution to its equation, and its values are sequences: `TokensExist` and `TokensType`,
  by the least place at which that would fail (from the end of the text back).
* Each branch takes the longest lexeme at its place (`Munches`): `WordMunch`, `NumberMunch`,
  `TypeMunch`, `SpaceMunch`, `NoteMunch`, `CommentMunch`. The hard ones are numbers, whose
  point and exponent are given back when no digits follow, and words, where a cut character must not count.
* `MInv`, the invariant for `MaximalMunch`: if nothing was reported, no token is without a type and no byte is `Stray`,
  the reference is the tokens so far followed by `TokensFrom[ptr]`, and the scanner is not inside
  a character (which is why an identifier cannot begin in the middle of one); and an invalid
  character counted is an error reported.
* `AInv`, the invariant for `AcceptsLexemes`: in a text of separated lexemes nothing was reported, and the scanner
  is at a blank, at the end or where a lexeme begins (`Between`). Up to the next blank there is one lexeme
  (`Chunk`); the branch that its first character selects takes all of it, since it takes the
  longest and nothing continues over a blank.

The two premises of `MaximalMunch` that are not about errors, no `Stray` byte and no token without
a type, leave out what the paragraph above lists: there the property is false of the code. The one
of `AcceptsLexemes` admits blanks, but no comments, between lexemes.

## Parser

`Parser` models every procedure of `parser.cpp`. The C++ call stack is the
variable `todo`: pending `match` calls, procedures, and nodes to complete. One
action per procedure pops its entry and pushes what it calls; places inside a
procedure where it looks ahead (a loop head, an optional part) are entries of
their own. `errs` is `err.cnt`, saturating at `MaxErr` (the code only tests it
for zero). `ast` is the tree in postfix order; it is recorded while `errs = 0`,
since `execute` exits before any tree with an error is read. A token is its
type and whether it starts a new line, the two things the parser looks at. The
six comparison operators share one type.

`Grammar` is written from the language, not from the parser: operators that
build sentences with their trees. A run compares the two.

| run | question | bounds |
|---|---|---|
| `parser` | does the parser accept exactly the expressions, with the right trees; does recovery end, reach the end of the file and lose no program? | in the place of an expression every string of 5 tokens over the operators and 4 over the brackets: all nestings of two operators of each precedence occur; programs that use every statement, and every program one edit away |
| `parser_hang` (violation) | docs/TODO.md:54 promises at least "report the first error and exit"; a list left open at the end of the file is reported forever | three short programs |

Properties: `SentencesParse` (a sentence is accepted and gets its tree),
`OnlySentencesParse` (nothing else is accepted), `StackBounded` (the stack is
bounded by the tokens consumed: no recursion without progress), `Answers` (every
file is read to its end, and the parser has then returned or reported an error: it
never spins on a token, nor silently at the end), `SentencesEnd` (it ends on
every sentence). Fairness is weak fairness of the one process: the parser runs
until it returns.

The language of `Grammar` is the one the parser is written for, which is smaller
than that of docs/syntax-design.md: declarations have no type annotation, and an
operator at the start of a line continues the line above, where the document ends
the statement.

`Parser_proof` proves `TypeCorrect`: `Spec => []TypeOK`, for any token vectors that
end with `eof`. What is in question is `ptr`. It stays inside because `next()`
stops at `eof` and `eof` is last. `return` and `yield` also look at the token before
the current one (parser.hpp:31-36), which must not be the first one: the invariant
adds that, while nothing has been consumed, every entry of the stack that looks
back stands behind a `ret` or `yield` still to be matched (`Behind`), and that in
an empty file, where `next()` never moves, the stack holds nothing but the loop over the
file (`AtStart`). There is one lemma per procedure.

`StackDepth`: `Spec => []StackBounded`, for the same token vectors. The bound says nothing
about what is on the stack, so it is not inductive. The invariant `Deep` gives each entry a `Height`:
how much deeper than its place the stack can get while the entry is worked off, less
8 for each token consumed meanwhile. An entry behind others may count on the tokens
that those surely consume (`Consuming`, `Credit`; two such entries are enough for every procedure).
At `eof` nothing is consumed and that credit is void, but nothing recurses there either,
so the heights are others (`AtEof`), and every entry keeps to both (`Budget`). One lemma per procedure
says that what it pushes fits where it stood (`Within`). The heights are the least that do;
that of the loop over the file, 10, is what `StackBounded` allows at the first token. TLC checked the
invariant before it was proved.

## Type storage

`TypeStorage` has a heap of objects, three tables from keys to pointers, and an
action for each getter: look up the key, otherwise allocate and enter. Keys hold
pointers, so they are compared one level deep. `asked` and `result` are the
arguments and the answer of the last call. `Destroy` counts what the destructor
deletes. `TypeValues` is what the storage promises: types are values, and a call
returns the value it describes. The refinement maps a pointer to the value of
its object, all the way down.

| run | question | bounds |
|---|---|---|
| `types` | does the storage implement `TypeValues` (`Implements`); are types with equal values one object however deep they are nested (`Unique`); is everything deleted once (`FreedOnce`)? | two objects beyond the members: a tensor of a tensor, a function on a tuple, every order of two allocations with repeated calls between them; one argument, rank 0 to 2 |

`Types_proof` proves, for any dimensions and any bounds,

* `TypeCorrect`: `Spec => []TypeOK`;
* `Uniqueness`: `Spec => []Unique`;
* `AnswersRight`: `Spec => []Answers`;
* `FreeingOnce`: `Spec => []FreedOnce`;
* `Implementation`: `Spec => Implements`, the refinement, step by step: a getter that finds an
  old object and one that makes a new one are the same step of `TypeValues`, and
  `Destroy` is a stuttering step.

`Unique` rests on `Interned`: objects with equal fields are one. That is not inductive: a new object is
new only because the table would have found an old one. The invariant `IInv` adds that each table finds every
allocated object of its kind under the object itself (`Indexed`), holds nothing
else (`Held`), and that the members come first and differ (`BaseFirst`). `Unique`
follows from `Interned` by induction over the nesting of types: an object is made of objects with
smaller addresses, so the value of a pointer exists (the equation that defines it has
exactly one solution, also when the heap grows), and of two objects with one value the
one with the least address would be made of parts that are not unique either.

## Frontend

`sema` and `codegen` walk the same tree one after the other, each with its own
idea of scope. `sema` leaves a type in every node (`resolve_type_`), and
`codegen` believes it without checking. `Frontend` runs `Sema`, then, if nothing
was reported, `Codegen` on the tree `Sema` leaves.

* `Types`: types as values, which `TypeStorage` justifies; `Null` is the type before it is set.
* `Ast`: the tree as numbered nodes with kind, children, names; children have
  smaller numbers than parents.
* `Sema`: `todo` is the call stack of the `resolve_*` procedures, with an entry
  for every place at which a procedure goes on after a call; `rets` the types
  they have returned; `scopes`, `functions`, `funcRet` are the members of
  `context` and `sema`; `reported` is `err.cnt # 0`; `crashed` stops the walk
  where a type without an object is read. Only the type itself is looked at: the message of an
  error also spells the parts of a tuple, and the code may crash at a part where the
  model goes on (always after an earlier report, so nothing is generated either way).
* `Codegen`: `todo` again; `vals` what the `generate_*` procedures have returned;
  `env` is `var_stack`; `blocks` the regions being filled, with the types each
  has to end with and whether it has a terminator. An operation is represented
  by the types of its results. Its verifier's requirements are evaluated where
  it is created, although MLIR verifies the module at the end: the outcome is
  the same, since the operands do not change in between. `fault` is the first
  thing to go wrong, and the walk stops there.
* `Terms`: the typing rules, from the language and not from `sema.cpp`. A term is
  built with its type and whether it is well-typed, so programs carry their own
  verdict, `prog.typed`.

`relu` stands for the intrinsics that keep the type of their argument, `print`
for the one without a result; the others are in `Intrinsics` (see "Expressions on
tensors").
`+ - * /` are one kind of node and so are the comparisons, as the code treats
them alike here. `i32` and `f32` only enter through parameters and follow the rules of `i64` and
`f64`; the runs use the latter.

| run | question | bounds |
|---|---|---|
| `frontend` | on the programs of a grammar: does `sema` report exactly the programs that break a rule (`Verdict`), and does what it accepts become a valid module (`Compiles`)? On any tree: are types and values consistent (`TypeOK`, `AllTyped`), do scopes close (`Closed`), do bindings stay (`BindingsStay`), does a crash come after a report (`CrashOnlyReported`)? | an expression of depth 2 in every place that takes one: every pair of an operator and an operand of each type, well- or ill-typed; loops in loops, ifs in loops, shadowing; and programs outside the grammar, see below |
| `frontend_names` (violation) | generator.hpp:65 asserts that semantic analysis catches unknown variables; it accepts `init(a = i)`, where `i` is the iterator | three programs |
| `frontend_iterator` (violation) | docs/syntax-design.md:222 says the iterator is an i64; `yield i` and `[i, x]` are rejected, as its value is of type index | loops that yield it or put it in a tensor |

Programs marked `plain` are those on which both walks have to agree; they
keep to names declared once per scope, yields that stand last and directly in a
branch or a loop body, if and for only as statements or as the value of a
declaration, iterators only where they are converted, `print`
only as a statement, functions only as callees, and those called return a value. The others
break these restrictions one by one, and there `Compiles` does
not hold: names are lost, the last declaration of a name wins in `codegen` and
the first in `sema`, a nested yield ends a block that is not its own, an if as an
operand has no code, a second function of the same name is dropped by `sema` and
rejected by the module, a call of a function without a result has no type.
`sema` accepts all of these. The two violations are
those of them that the repository itself says cannot happen.

The debug assertion at generator.cpp:309, that the type of a callee is known, fails
for every intrinsic, which has no function type; the model is of the release
build, where nothing reads that type.

No run needs fairness: the walks are recursive procedures over a finite tree,
and the properties are about the states they reach. Deadlock checking is off
because both walks end.

### What is proved

`ProgramsAssumption` (in `Ast`) says what the parser makes: each kind of node has its number of children, of the
kinds that the constructors of the syntax tree take, children come before their
parents, and every node but a function has a parent. It says nothing of names or types: programs may
be as wrong as they like. For any set of such programs, `Sema_proof` proves

* `Scopes`: `Spec => []Closed`;
* `Bindings`: `Spec => BindingsStay`;
* `TypesCorrect`: `Spec => []TypeOK`;
* `CrashesReported`: `Spec => []CrashOnlyReported`;
* `EverythingTyped`: `Spec => []AllTyped`.

They share one invariant, `Sound`, of three parts, none of which is inductive without the first.

* `Control`: every entry of `todo` is a place of a procedure at a node of a kind it is
  written for, and the stack balances the books: each entry takes a number of types from `rets`, gives a number
  back, and may close a scope; run from the top to the bottom with what is there now, the entries
  never take what is not there and end with nothing left (`Balanced`, by `Path`). That
  is what makes the recursion of the C++ code a stack of procedures that return.
* `Declared`: before the body of a function is analysed its name is in the table, or an entry that
  declares it stands in front of it on the stack.
* `Orderly`: everything that has no type yet is under an entry of the stack (`Left`, which is
  defined with the nodes below a node), an entry that reads the types of its children
  stands behind the entries that set them (`Ordered`); every type that anything holds is built
  by constructors that the language has, a missing one only after a report (`Typed`); and a crash
  comes after a report.

It takes this to the composition: `Refinement`, `FrontendSpec => Spec` (a step of
code generation changes nothing that semantic analysis keeps), `Trust`, that code
generation takes a step only when everything it will read a type of has one, and `Guarantees`, that
the five properties hold while code is generated, which is what the run `frontend` checks. `Verdict` and
`Compiles` compare with the typing rules of `Terms` and stay with TLC.

## Constant folding

`ConstFold` models the pass over a function as a graph: `op[i]` has a kind and
the operations it reads, `attr[i]` the elements of a constant, `erased[i]` how
often it was freed. Each pattern is an action at an operation; `Rewrite(e)` is
one application by MLIR's greedy driver, which is external and may choose any
operation and any pattern that matches. A constant that replaces an operation
takes over its name, so the graph does not grow. What a program prints and
returns is what operations of kind `other` read.

The pass erases a constant without asking for other readers when it
canonicalizes `x + 0`, `x - 0`, `x * 1`, `x / 1`, and asks `use_empty` of an
entry it may have erased before when a pack reads a constant twice. So it is
not memory safe on every function. `Careful` names functions on which it is:
every result but an argument is read once (`SingleUse`), or there is nothing
to canonicalize and no pack reads a result twice (`FoldOnly`). `CarefulSpec`
starts in those, and all theorems are about it.

| run | question | bounds |
|---|---|---|
| `constfold` | is every order of rewrites safe, does it keep what is observed, does it end with the constants folded? | all well-typed careful functions of 4 operations and an observer, over constants 0 and 1 of 2 bits: chains of three rewrites and every pair of patterns that enable one another occur |
| `constfold_shared` (violation) | the comment `add x, 0 -> x` says only the addition is rewritten; a zero that two additions read is freed under the second | the function `x + z, y + z` |

`FairSpec` adds weak fairness of the driver: it goes on while a pattern
matches. The code gives it 32 iterations and ignores failure; `StepShrinks`
shows that a rewrite never enables more work than it settles.

### What is proved

`ConstFold_proof` proves, for any number of operations, any width and any set
of functions:

* `TypeCorrect`: `CarefulSpec => []TypeOK`, SSA form is kept;
* `MemorySafety`: `CarefulSpec => []MemorySafe`;
* `Observations`: `CarefulSpec => []SameObservations`, what is printed and returned is what it was;
* `Shrinks`: `CarefulSpec => StepShrinks`.

`MemorySafe` alone is not inductive: that the constant erased by a rewrite has
no reader left depends on how often it was read before. The invariant adds
`Careful`, which is kept because a rewrite moves at most one use of a result to
another reader and removes the reader it came from. The proof has one lemma
per pattern, one step per conjunct. For `Observations` the values of all operations are the one
solution of a recursive equation (`ValuesExist`, `ValuesUnique`); each pattern is shown to
leave the values of before a solution for the function of after, so they are its values. The
assumptions are those of the module:
the functions the pass is given are in SSA form with the operands their kinds
need, which MLIR's verifier has checked, and (`ElementsAssumption`) operands of one arithmetic operation have equally
many elements.

## Expressions on tensors

An expression on tensors is typed in `sema` (sema/intrinsic.cpp), becomes an operation
whose builder computes the type of its result (codegen, dialect/colgm), which is
verified, then lowered to a loop nest that has shapes of its own
(dialect/pass/lowering.cpp, lowering/), then run. `TensorCall` takes one expression
through these stages; `stage` is the next one, or how it ended: `reported` by `sema`,
`undefined` (the generator reads what is not there), `invalid`, `unlowered`, `done`.

* `Scalars`: integers that wrap at `Width` bits, `arith` operations on them; floats
  are a field, the integers modulo `Modulus`, with `Exp` any function with
  `Exp[-v]` inverse to `Exp[v]`, so that the algebra of a lowering is compared and not
  its rounding. Order, smallest and infinite values are those of the integers.
* `Tensors`: a tensor is an element type, a shape and a function on the points of the
  shape. A kernel is a loop nest of `linalg` or `tensor`: the domain, the iterator types,
  for each point the elements read and the one written, the body and the elements
  it starts from (`Garbage` for what nobody wrote).
* `Intrinsics`: the inference of every intrinsic, operator, index and literal
  (`Resolve`), with its reports; an `unknown` type where the code returns one.
* `Operations`: the operands (`Taken`; `flatten_tensor` takes the elements out of nested
  literals), the operation with its attribute and the type its builder gives it, and the
  verifiers.
* `Lowering`: one operator per pattern, giving its kernel; `print` gives the tokens it prints.
* `TensorMeaning`: what an expression means, by the textbook: no loops, maps or
  memory. A specification that answers in one step.

| run | question | bounds |
|---|---|---|
| `tensors` | are the three shapes equal (`TypesAgree`), does what `sema` accepts compile (`AcceptedCompile`), do loops stay in bounds (`InBounds`), do parallel iterations write apart (`ParallelDisjoint`), is the answer the meaning (`Meaning`)? | every intrinsic and operator; shapes up to rank 3 with dimensions 0 to 3, so that no two dimensions need be equal and some are empty or 1; all lists of up to 3 numbers from 0 to 3 as axes, shapes and permutations, and negative ones; wrong counts and kinds of arguments. `Width` is 6, so that 5 * 13 wraps to 1 and the smallest integer is met |

`AcceptedCompile` names what `sema` accepts and a later stage refuses or gets wrong (`Gap`):
dimensions that cannot be broadcast, an axis of a reduction named twice, `matmul` with more
than one batch dimension, indices of `gather` that are not a list, negative
dimensions, a literal that mixes literals with other tensors (all get the rank of the
first), an operand without a value (`print(print(x))`, and `[print()]`, whose element is `Unknown`
with no more than a warning). `InBounds` and the meaning
leave out what the program computes and nobody checks: the index of a slice, the indices of `gather`, and a reshape whose number of
elements is equal only because the product wraps.

Things the model takes from the code and a reader might not expect: `!=` on floats is
the ordered comparison (a NaN is not different from itself); `<` on bools and
`reduce_max` of them are signed, so true is the smaller one; the element types of
the operands of `matmul` are never compared, and the expressions keep them equal. Not
among the expressions: arithmetic on bools and the printing of empty tensors.

Division. Integers are divided by `arith.divsi`, which is undefined for a divisor of zero and for the
lowest integer divided by -1: the quotient is then `Garbage`, and `Meaning` asks nothing of a call that
divides so (`Meaningless`), though all the other properties do; the run has such divisors. Floats
are divided by `arith.divf`: the quotient is the term `<<"div", x, y>>`, without a value, so that
`Meaning` says which elements are divided by which and not how a float is rounded.

The run needs no fairness: a stage that is not reached promises nothing, and
`AcceptedCompile` says which are reached.

The expressions are what the parser can read and `sema` has seen up to this one
(`ExprsAssumption`): an operator has its operands; an operand has a value of its type, or is a call
without a result; a literal inside a literal has the type that `sema` gave it, `Unknown` if it reported an error;
`print()` is `Unknown` with only a warning; a list has fewer elements than the program has integers above zero (`Half`, 2^63 in the code). Where the
code recurses, over dimensions or into literals, the model has recursive functions, so that it can be
reasoned about. `flatten_tensor` opens literals as many times as the first element has
dimensions, where the code goes on until there is none; `AllOpened` proves that the two are the same.

### What is proved

`Types_proof` proves, for every set of such expressions, every `Width`, `Modulus` and `Exp`, tensors of any rank
and shape and literals of any depth,

* `CallsAgree`: `CallSpec => []TypesAgree`,
* `CallsCompile`: `CallSpec => []AcceptedCompile`,
* `CallsStayInBounds`: `CallSpec => []InBounds`,
* `CallsRunApart`: `CallSpec => []ParallelDisjoint`.

What each property says of one stage depends on what the stages before it found, so none is
inductive. `CallInv` says which stages have done their work and what each left: the type is that of
`Resolve`, the operation that of `Generate`, the kernel that of `Lower`, and at each of the ways to end,
which test failed. That steps keep it is easy; what takes work is what it implies. For each
expression that `sema` does not report and whose operands have values there is an outcome (`Outcome`): the
operation has the inferred type; in a gap the generator, the verifier or the lowering refuses it; otherwise it is verified
and has a kernel with reads and writes in bounds (`BoundsOf`) and parallel iterations apart (`Disjoint`).
There is one lemma per operation, and `OutcomeOf` for all.

* `GenericGood`: most kernels are a loop over a domain with a map for each operand. If a map only picks dimensions that
  are as long as the operand's, it stays inside, and if that of the result picks every parallel one, they write apart. It remains
  to show, per operation, that the verifier or the inference has established this.
* Reductions: sema, builder and lowering each pick the dimensions that stay in a recursion of their own; they are
  shown to agree dimension by dimension. `transpose`: a list of all numbers below its length, none twice,
  has each exactly once.
* `reshape`: a point's number is below the number of elements (`OffsetInside`), and a number below that of the
  operand's elements is that of a point in it (`PointInside`), so equal products are enough. If only
  the wrapped products are equal, the exception of `InBounds` applies.
* `stack` and literals: the operands are counted. A literal has as many elements as its first
  dimension says at each level, so after `k` levels there are as many items as the product of `k`
  dimensions. That needs every item of a level to be of the type expected there
  (`LevelTyped`) and a level not to mix literals and tensors, unless it is a gap. The
  induction is over levels, not over the depth of the expression.
* A literal that became an attribute leaves its operations behind; `LiteralsErase` is that the order in which
  `erase_dead_value` erases them leaves none with a use when it goes, for literals of any length.

That the tensor computed has the type of the operation (`ComputedIs`) follows from the recursive function
that runs the iterations one by one: each replaces one element, at a point of the result.
`Meaning`, which compares the values, stays with TLC.

## Loops

`Loops` has a function as a graph: operations with operands, result types and
regions, blocks with argument types and their operations in order. `LowerOp` takes the
operations `constant`, `cast`, `yield`, `if` and `for` of the dialect, in the order of the
conversion, to `arith` and `scf`; `CollectLoops` and `RewriteForOp` are the pass that
makes scalars of the rank-0 tensors that a loop carries (bufferization cannot take
them): the initial values are extracted, the arguments in the body wrapped again, what is
yielded extracted, the results wrapped. Fresh ids are taken above `next`.

| run | question | bounds |
|---|---|---|
| `rank0` | after every rewrite, is the function valid (`WellFormed`: every use in sight and of the right type, collected loops still there), and does it compute the same (`SameResults`, on three inputs)? Does no loop carry a rank-0 tensor at the end (`AllScalar`), and does a rewrite touch its own loop only (`RewritesOne`)? | every cast that the verifier accepts; one loop with two values, of rank 0 and 1 in each order; a loop in a loop, where the inner one yields the outer's values; two loops and an if |

What a valid function is (`Valid`) is MLIR's and the dialect's verifiers: a tree of blocks (`IsTree`) that end
with their terminators, with an owner for each (`Regular`), operands in sight (`Dominated`; what a block sees is
its arguments and what its owner sees) and of the types their operation demands (`Typed`). The driver runs
the passes on a module that verifies, which is the assumption on functions (`ProgramsAssumption`). One thing in it
is not for_op::verify's, which compares the results of a loop with its body and not with its
initial values: that these have the same types is sema's to see (sema.cpp:465), and `Compiles` says that they have.
While operations are being lowered the yield of one dialect may end the loop of the other.

`MCLoops` has the functions and an interpreter (`Run`). Casts from scalar to scalar, and of ranked tensors, pass
the verifier and no pattern takes them; code generation does not make them, and the
stage is then `failed`.

`Loops_proof` proves, for any functions that are valid (`ProgramsAssumption`),

* `RewritingOneLoop`: `Spec => RewritesOne`: the
  rewrite erases its loop and no other, no new loop carries a rank-0 tensor, and blocks
  other than the body keep their types. It matters because the loops are
  collected before any is rewritten;
* `NoneCarried`: `Spec => []AllScalar`. The invariant `LInv` is that the function stays a
  tree while it is lowered, and that afterwards every loop that carries a rank-0 tensor is still
  in `forOps`. That `forOps` starts with all loops is a fact about the recursive walk: it
  has what its operations add and what the walks inside have (`WalkStep`), and the block with the least number whose
  walk were not part of the whole would be a region in a block with a smaller one;
* `StaysWellFormed`: `Spec => []WellFormed`. `WellFormed` is not inductive: a loop that was collected twice would come
  again after it had been rewritten and erased. `WInv` adds that `forOps` has each loop once, which
  the walk gives it (`WalkOnce`): of two blocks whose walks meet one operation, one is nested
  under the other (`WalksNested`), so regions side by side have nothing in common. That the rewrites keep a
  function valid are two lemmas. `LoweredValid`, for the five patterns: an operation may be replaced by a row of
  new ones whose operands are in sight where it stands, the last of which takes over its regions and has results of its
  types (`Replaces`, `ReplacedValid`). `RewrittenValid`, for `rewriteForOp`: its tree, its terminators, what is in sight, the types, each
  from where the new operations are put (`NewBody`, `Place`). In both, dominance is the same argument
  (`RenamedSight`): what was in sight of an operation is in sight, renamed, of the one that stands for it, from
  the outermost block inwards.

## Driver

`Driver` models `main` and `execute` of main.cpp and `run_jit`: `step` is the place
in the program, `at, input, cmd, po` are the variables of `main`, `cnt` is whether
the shared `error` has counted anything. A phase is one step that turns out well or
not; the other modules say when. `ran` records the phases with their outcome,
`shown` what was written out, `status` how the process ended. `-o` stands for the
four options that take a value (nothing ever reads that of `-o`). Each pass of the pass manager
may fail: the folding ignores what the greedy driver says, but `pm.run` verifies the module
after every pass. `sema`, code generation and both passes may also crash, and so may the
call of `main`, which is called as a function without arguments whatever it was declared as.

| run | question | bounds |
|---|---|---|
| `driver` | does no phase run after one that failed (`Gated`), does the status say so (`StatusTells`), is the earliest view shown and nothing past it run (`EarliestView`), is the right argument the file (`InputFile`), is a program executed only after folding and lowering, and whenever it should be (`ExecutedLowered`)? | all vectors of 3 arguments out of 14, which every pair of options with a file needs, 4 and 5 over those that interact; every outcome of every phase |

`CommandLine` reads the arguments as a whole (which are values, which is the file, where
they stop making sense), where `main` reads them one after the other. Two things it
takes from the code: `-v` is a file unless it is the only argument, and an empty
argument is passed over.

`Driver_proof` proves all five properties, for any arguments: `PhasesGated`, `Status`, `TheFile`,
`Views` and `Execution`. The invariant `LInv` is made of

* `Behind` and `WellSoFar`: the phases that have run rank below the next step,
  and until the process exits all of them went well and nothing was counted,
  which is what `chkerr` and the failure tests establish one by one;
* `Passed`: the process has not come past a view that was asked for, nor past a pass
  that was needed and has not run; the order is only in the steps, so this is where the
  views and passes get theirs;
* `Reading`: while `main` reads, `at` is at no value of an option, and `input` and `cmd`
  are what the arguments before `at` mean (`Progress`); afterwards they are what all of
  them mean (`Understood`). Which argument is a value is defined by recursion over those before
  it, and its equation is proved first;
* `Ended`: the ways in which the process ends, with their status.

## Only model-checked

* Liveness (`FoldsAll`, `Answers`, `SentencesEnd`): the prover has neither fairness nor `ENABLED`.
* `Verdict`, `Compiles`, `SentencesParse`, `OnlySentencesParse`, `Meaning`, `SameResults`: they compare a
  machine with a definition that is recursive over terms, sentences or blocks (`RECURSIVE`
  operators, which the prover does not read, or sets of sentences up to a length).
* `Closed` of `Codegen`, which `Compiles` includes, could be proved and is not yet.

## Not modelled

* Text layout: messages, `--view-ast`, the parsing and printing of the operations'
  assembly format, the declarations of the runtime's functions.
* The MLIR and LLVM libraries: the greedy driver, the conversion driver and the
  verifiers appear as far as the code depends on them; the canonicalizer between the
  passes and the pipeline from `scf` to machine code do not.
* The rounding of floating-point numbers.
* The components marked `not_modelled` in `PROJECT.json`, each with its reason.
* What happens when `main` is called as a function without arguments although it
  has some (jit.cpp:105): the driver counts it as a crash of the phase.
