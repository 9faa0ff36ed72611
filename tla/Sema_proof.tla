----------------------------- MODULE Sema_proof -----------------------------
(***************************************************************************)
(* What semantic analysis guarantees for every program, while the tree is  *)
(* analysed and while code is generated from it.                           *)
(***************************************************************************)
EXTENDS Frontend, Induction, TLAPS

N == DOMAIN prog.node

\* Places that are named for the kind of their node.
Same == {"tensor", "arith", "cmp", "neg", "index", "range", "for", "var", "return", "yield",
         "expr_stmt"}

\* The kinds of the nodes that a place is for.
Owners(do) ==
  CASE do = "expr" -> Expressions
    [] do = "stmt" -> Statements
    [] do \in Same -> {do}
    [] do \in {"intrinsic", "callee", "args"} -> {"call"}
    [] do \in {"condition", "then", "else"} -> {"if"}
    [] do \in {"init", "for_end"} -> {"for"}
    [] do \in {"declare", "func", "func_end"} -> {"func"}
    [] OTHER -> {"block"}

Places == {"expr", "stmt"} \cup Same \cup
          {"intrinsic", "callee", "args", "condition", "then", "else", "init", "for_end",
           "declare", "func", "func_end", "block", "pop_scope"}

Entry(e) ==
  /\ e.do \in Places /\ e.n \in N /\ Kind(e.n) \in Owners(e.do)
  /\ e.do \in {"return", "expr_stmt"} => Kids(e.n) # << >>
  /\ e.do = "else" => HasElse(e.n)
  /\ e.do = "init" => e.i \in 1 .. Len(Inits(e.n))

Sequence(s) == \E T : s \in Seq(T)

\* A sequence of entries.
Frames(work) == Sequence(work) /\ \A k \in DOMAIN work : Entry(work[k])

Shape ==
  /\ prog \in Programs /\ Frames(todo)
  /\ reported \in BOOLEAN /\ crashed \in BOOLEAN

-----------------------------------------------------------------------------
(* Programs. *)

\* What the parser makes of a node.
LEMMA NodeFacts ==
  ASSUME prog \in Programs, NEW n \in N
  PROVE  /\ n \in Nat /\ Kind(n) \in Expressions \cup Statements \cup {"func"}
         /\ Kids(n) \in Seq(N) /\ Len(Kids(n)) \in KidCount(Kind(n)) /\ Names(n) \in Seq(STRING)
         /\ \A k \in DOMAIN Kids(n) : Kids(n)[k] \in 1 .. n - 1 /\ Kind(Kids(n)[k]) \in KidKinds(Kind(n), k)
         /\ Kind(n) = "id" => Len(Names(n)) = 1
         /\ Kind(n) = "for" => Len(Names(n)) = Len(Kids(n)) - 1
<1> DEFINE d == prog.node[n]
<1>1. prog.node \in Seq(Nodes) /\ N = 1 .. Len(prog.node) /\ d \in Nodes
  BY ProgramsAssumption DEF N
<1>2. /\ Len(d.kids) \in KidCount(d.kind)
      /\ \A k \in DOMAIN d.kids :
           d.kids[k] \in 1 .. n - 1 /\ prog.node[d.kids[k]].kind \in KidKinds(d.kind, k)
      /\ d.kind = "id" => Len(d.names) = 1
      /\ d.kind = "for" => Len(d.names) = Len(d.kids) - 1
  BY ProgramsAssumption DEF N
<1>3. d.kids \in Seq(Nat) /\ d.names \in Seq(STRING) /\ d.kind \in Expressions \cup Statements \cup {"func"}
  BY <1>1 DEF Nodes
<1>4. \A k \in DOMAIN d.kids : d.kids[k] \in N
  BY <1>1, <1>2
<1>5. d.kids \in Seq(N)
  BY <1>3, <1>4
<1> QED
  BY <1>1, <1>2, <1>3, <1>5 DEF Kind, Kids, Names

\* The numbers of children of each kind.
LEMMA KidCounts ==
  ASSUME NEW kind, NEW len \in KidCount(kind)
  PROVE  /\ kind \in {"int", "float", "bool", "id"} => len = 0
         /\ kind \in {"neg", "var", "func"} => len = 1
         /\ kind \in {"return", "expr_stmt"} => len \in {0, 1}
         /\ kind \in {"arith", "cmp", "index", "range"} => len = 2
         /\ kind = "if" => len \in {2, 3}
         /\ kind = "call" => len \in Nat \ {0}
         /\ kind = "for" => len \in Nat \ {0, 1}
<1>1. kind \in {"int", "float", "bool", "id"} => len = 0
  BY DEF KidCount
<1>2. kind \in {"neg", "var", "func"} => len = 1
  BY DEF KidCount
<1>3. kind \in {"return", "expr_stmt"} => len \in {0, 1}
  BY DEF KidCount
<1>4. kind \in {"arith", "cmp", "index", "range"} => len = 2
  BY DEF KidCount
<1>5. kind = "if" => len \in {2, 3}
  BY DEF KidCount
<1>6. kind = "call" => len \in Nat \ {0}
  BY DEF KidCount
<1>7. kind = "for" => len \in Nat \ {0, 1}
  BY DEF KidCount
<1> QED
  BY <1>1, <1>2, <1>3, <1>4, <1>5, <1>6, <1>7

\* The kinds of the children of each kind.
LEMMA ChildKinds ==
  ASSUME prog \in Programs, NEW n \in N
  PROVE  /\ \A k \in DOMAIN Kids(n) :
              /\ Kind(n) \in {"tensor", "arith", "cmp", "neg", "index", "range", "call", "if", "for",
                              "var", "return", "yield", "expr_stmt"} /\ (k = 1 \/ Kind(n) # "if") /\
                 (k # 2 \/ Kind(n) # "for") => Kind(Kids(n)[k]) \in Expressions
              /\ Kind(n) = "block" => Kind(Kids(n)[k]) \in Statements
              /\ Kind(n) = "func" \/ (Kind(n) = "if" /\ k > 1) \/ (Kind(n) = "for" /\ k = 2) =>
                   Kind(Kids(n)[k]) = "block"
              /\ Kind(n) = "for" /\ k = 1 => Kind(Kids(n)[k]) = "range"
              /\ Kind(n) = "call" /\ k = 1 => Kind(Kids(n)[k]) = "id"
         /\ Kind(n) \in {"int", "float", "bool", "id"} => Kids(n) = << >>
         /\ Kind(n) \in {"neg", "var", "func"} => Len(Kids(n)) = 1
         /\ Kind(n) \in {"return", "expr_stmt"} => Len(Kids(n)) \in {0, 1}
         /\ Kind(n) \in {"arith", "cmp", "index", "range"} => Len(Kids(n)) = 2
         /\ Kind(n) = "if" => Len(Kids(n)) \in {2, 3}
         /\ Kind(n) = "call" => Len(Kids(n)) >= 1
         /\ Kind(n) = "for" => Len(Kids(n)) >= 2
<1>1. /\ Kids(n) \in Seq(N) /\ Len(Kids(n)) \in KidCount(Kind(n))
      /\ \A k \in DOMAIN Kids(n) : Kind(Kids(n)[k]) \in KidKinds(Kind(n), k)
  BY NodeFacts
<1>2. \A k \in DOMAIN Kids(n) :
        /\ Kind(n) \in {"tensor", "arith", "cmp", "neg", "index", "range", "call", "if", "for",
                        "var", "return", "yield", "expr_stmt"} /\ (k = 1 \/ Kind(n) # "if") /\
           (k # 2 \/ Kind(n) # "for") => Kind(Kids(n)[k]) \in Expressions
        /\ Kind(n) = "block" => Kind(Kids(n)[k]) \in Statements
        /\ Kind(n) = "func" \/ (Kind(n) = "if" /\ k > 1) \/ (Kind(n) = "for" /\ k = 2) =>
             Kind(Kids(n)[k]) = "block"
        /\ Kind(n) = "for" /\ k = 1 => Kind(Kids(n)[k]) = "range"
        /\ Kind(n) = "call" /\ k = 1 => Kind(Kids(n)[k]) = "id"
  BY <1>1 DEF KidKinds, Expressions
<1>3. /\ Kind(n) \in {"int", "float", "bool", "id"} => Len(Kids(n)) = 0
      /\ Kind(n) \in {"neg", "var", "func"} => Len(Kids(n)) = 1
      /\ Kind(n) \in {"return", "expr_stmt"} => Len(Kids(n)) \in {0, 1}
      /\ Kind(n) \in {"arith", "cmp", "index", "range"} => Len(Kids(n)) = 2
      /\ Kind(n) = "if" => Len(Kids(n)) \in {2, 3}
      /\ Kind(n) = "call" => Len(Kids(n)) \in Nat \ {0}
      /\ Kind(n) = "for" => Len(Kids(n)) \in Nat \ {0, 1}
  BY <1>1, KidCounts
<1>4. \A x \in Nat : (x \in Nat \ {0} => x >= 1) /\ (x \in Nat \ {0, 1} => x >= 2)
  OBVIOUS
<1>5. Len(Kids(n)) \in Nat
  BY <1>1
<1>6. /\ Kind(n) = "call" => Len(Kids(n)) >= 1
      /\ Kind(n) = "for" => Len(Kids(n)) >= 2
  BY <1>3, <1>4, <1>5
<1> QED
  BY <1>1, <1>2, <1>3, <1>6

-----------------------------------------------------------------------------
(* Sequences of entries. *)

\* One sequence of entries after the other.
LEMMA FramesConcat ==
  ASSUME NEW v, NEW w, Frames(v), Frames(w)
  PROVE  /\ Frames(v \o w) /\ Len(v) \in Nat /\ Len(w) \in Nat /\ Len(v \o w) = Len(v) + Len(w)
         /\ DOMAIN v = 1 .. Len(v) /\ DOMAIN w = 1 .. Len(w) /\ DOMAIN (v \o w) = 1 .. Len(v) + Len(w)
         /\ \A k \in 1 .. Len(v) : (v \o w)[k] = v[k]
         /\ \A k \in 1 .. Len(w) : (v \o w)[Len(v) + k] = w[k]
<1>1. PICK S : v \in Seq(S)
  BY DEF Frames, Sequence
<1>2. PICK T : w \in Seq(T)
  BY DEF Frames, Sequence
<1> DEFINE U == S \cup T
<1>3. v \in Seq(U) /\ w \in Seq(U)
  BY <1>1, <1>2
<1> HIDE DEF U
<1>4. /\ v \o w \in Seq(U) /\ Len(v) \in Nat /\ Len(w) \in Nat /\ Len(v \o w) = Len(v) + Len(w)
      /\ DOMAIN v = 1 .. Len(v) /\ DOMAIN w = 1 .. Len(w) /\ DOMAIN (v \o w) = 1 .. Len(v) + Len(w)
      /\ \A k \in 1 .. Len(v) : (v \o w)[k] = v[k]
      /\ \A k \in 1 .. Len(w) : (v \o w)[Len(v) + k] = w[k]
  BY <1>3
<1>5. ASSUME NEW k \in 1 .. Len(v) + Len(w)
      PROVE  Entry((v \o w)[k])
  <2>1. CASE k <= Len(v)
    BY <1>4, <2>1 DEF Frames
  <2>2. CASE k > Len(v)
    <3>1. k - Len(v) \in 1 .. Len(w) /\ Len(v) + (k - Len(v)) = k
      BY <1>4, <2>2
    <3>2. (v \o w)[k] = w[k - Len(v)]
      BY <1>4, <3>1
    <3> QED
      BY <1>4, <3>1, <3>2 DEF Frames
  <2> QED
    BY <1>4, <2>1, <2>2
<1> QED
  BY <1>4, <1>5 DEF Frames, Sequence

\* A sequence with as many elements as another.
LEMMA FramesOf ==
  ASSUME NEW n \in Nat, NEW work, work = [k \in 1 .. n |-> work[k]], \A k \in 1 .. n : Entry(work[k])
  PROVE  Frames(work) /\ Len(work) = n /\ DOMAIN work = 1 .. n
<1> DEFINE T == {work[k] : k \in 1 .. n}
<1>1. work \in [1 .. n -> T]
  OBVIOUS
<1> HIDE DEF T
<1>2. work \in Seq(T) /\ Len(work) = n /\ DOMAIN work = 1 .. n
  BY <1>1
<1> QED
  BY <1>2 DEF Frames, Sequence

\* One entry is a sequence of entries.
LEMMA FramesOne ==
  ASSUME NEW e, Entry(e)
  PROVE  Frames(<<e>>)
<1>1. <<e>> \in Seq({e}) /\ DOMAIN <<e>> = 1 .. 1 /\ <<e>>[1] = e
  OBVIOUS
<1>2. \A k \in 1 .. 1 : k = 1
  OBVIOUS
<1>3. \A k \in DOMAIN <<e>> : Entry(<<e>>[k])
  BY <1>1, <1>2, Zenon
<1> QED
  BY <1>1, <1>3 DEF Frames, Sequence

\* The first entry, and the others.
LEMMA FramesTail ==
  ASSUME NEW w, Frames(w), w # << >>
  PROVE  /\ Frames(Tail(w)) /\ Entry(Head(w)) /\ Head(w) = w[1] /\ Len(w) \in Nat /\ Len(w) >= 1
         /\ DOMAIN w = 1 .. Len(w) /\ 1 \in DOMAIN w
         /\ Len(Tail(w)) = Len(w) - 1 /\ DOMAIN Tail(w) = 1 .. Len(w) - 1
         /\ \A k \in 1 .. Len(w) - 1 : Tail(w)[k] = w[k + 1] /\ k + 1 \in DOMAIN w
<1>1. PICK T : w \in Seq(T)
  BY DEF Frames, Sequence
<1>2. /\ Tail(w) \in Seq(T) /\ Head(w) = w[1] /\ Len(w) \in Nat /\ Len(w) >= 1
      /\ DOMAIN w = 1 .. Len(w) /\ 1 \in DOMAIN w
      /\ Len(Tail(w)) = Len(w) - 1 /\ DOMAIN Tail(w) = 1 .. Len(w) - 1
      /\ \A k \in 1 .. Len(w) - 1 : Tail(w)[k] = w[k + 1] /\ k + 1 \in DOMAIN w
  BY <1>1
<1>3. \A k \in DOMAIN Tail(w) : Entry(Tail(w)[k])
  BY <1>2 DEF Frames
<1> QED
  BY <1>2, <1>3 DEF Frames, Sequence

-----------------------------------------------------------------------------
(* How many types and scopes the calls on the stack take and leave.        *)

\* What the rest of a procedure takes from rets, and what it puts there in the end.
Uses(e) ==
  CASE e.do \in {"tensor", "arith", "cmp", "neg", "index", "range", "var", "return", "yield", "expr_stmt"}
         -> Len(Kids(e.n))
    [] e.do \in {"intrinsic", "args"} -> Len(Args(e.n))
    [] e.do \in {"callee", "condition", "for", "init"} -> 1
    [] OTHER -> 0
Gives(e) ==
  IF e.do \in {"expr", "tensor", "arith", "cmp", "neg", "index", "range", "intrinsic", "callee", "args",
               "condition", "then", "else", "for", "for_end"} THEN 1 ELSE 0

\* The scopes that were open when it was called and that it closes.
Closes(e) == IF e.do \in {"pop_scope", "for_end", "func_end"} THEN 1 ELSE 0

RetSteps(work) == [k \in DOMAIN work |-> <<Uses(work[k]), Gives(work[k])>>]
ScopeSteps(work) == [k \in DOMAIN work |-> <<Closes(work[k]), 0>>]

\* From a types and b scopes, the calls of work lead to c types and d scopes.
Runs(work, a, b, c, d) ==
  /\ Frames(work)
  /\ Path(RetSteps(work), a, c) /\ Path(ScopeSteps(work), b, d)

Balanced == Runs(todo, Len(rets), Len(scopes), 0, 0)

\* What an entry takes and leaves is a number.
LEMMA EntrySteps ==
  ASSUME prog \in Programs, NEW e, Entry(e)
  PROVE  /\ Uses(e) \in Nat /\ Gives(e) \in {0, 1} /\ Closes(e) \in {0, 1}
         /\ <<Uses(e), Gives(e)>> \in Steps /\ <<Closes(e), 0>> \in Steps
<1>1. e.n \in N /\ Kind(e.n) \in Owners(e.do)
  BY DEF Entry
<1>2. Kids(e.n) \in Seq(N)
  BY <1>1, NodeFacts
<1>3. e.do \in {"intrinsic", "args"} => Kids(e.n) # << >>
  BY <1>1, <1>2, ChildKinds DEF Owners, Same
<1>4. e.do \in {"intrinsic", "args"} => Len(Args(e.n)) \in Nat
  BY <1>2, <1>3 DEF Args
<1>5. Uses(e) \in Nat
  BY <1>2, <1>4 DEF Uses
<1>6. Gives(e) \in {0, 1} /\ Closes(e) \in {0, 1}
  BY DEF Gives, Closes
<1> QED
  BY <1>5, <1>6 DEF Steps

\* The steps of entries are steps.
LEMMA StepsAreSteps ==
  ASSUME prog \in Programs, NEW work, Frames(work)
  PROVE  /\ RetSteps(work) \in Seq(Steps) /\ Len(RetSteps(work)) = Len(work)
         /\ ScopeSteps(work) \in Seq(Steps) /\ Len(ScopeSteps(work)) = Len(work)
<1>1. \A k \in DOMAIN work : <<Uses(work[k]), Gives(work[k])>> \in Steps /\ <<Closes(work[k]), 0>> \in Steps
  BY EntrySteps DEF Frames
<1>2. PICK T : work \in Seq(T)
  BY DEF Frames, Sequence
<1>3. Len(work) \in Nat /\ DOMAIN work = 1 .. Len(work)
  BY <1>2
<1>4. RetSteps(work) = [k \in 1 .. Len(work) |-> <<Uses(work[k]), Gives(work[k])>>]
      /\ ScopeSteps(work) = [k \in 1 .. Len(work) |-> <<Closes(work[k]), 0>>]
  BY <1>3 DEF RetSteps, ScopeSteps
<1>5. RetSteps(work) \in [1 .. Len(work) -> Steps] /\ ScopeSteps(work) \in [1 .. Len(work) -> Steps]
  BY <1>1, <1>3, <1>4
<1> QED
  BY <1>3, <1>5

\* No calls at all.
LEMMA RunsNone ==
  ASSUME NEW a \in Nat, NEW b \in Nat
  PROVE  Runs(<< >>, a, b, a, b)
<1>1. RetSteps(<< >>) = << >> /\ ScopeSteps(<< >>) = << >>
  BY DEF RetSteps, ScopeSteps
<1>2. << >> \in Seq({}) /\ DOMAIN << >> = {}
  OBVIOUS
<1>3. Frames(<< >>)
  BY <1>2 DEF Frames, Sequence
<1> QED
  BY <1>1, <1>3, PathEmpty DEF Runs

\* An entry that leads on from a and b.
LEMMA RunsOne ==
  ASSUME prog \in Programs, NEW e, Entry(e), NEW a \in Nat, NEW b \in Nat,
         Uses(e) <= a, Closes(e) <= b
  PROVE  Runs(<<e>>, a, b, a - Uses(e) + Gives(e), b - Closes(e))
<1>1. RetSteps(<<e>>) = << <<Uses(e), Gives(e)>> >> /\ ScopeSteps(<<e>>) = << <<Closes(e), 0>> >>
  BY DEF RetSteps, ScopeSteps
<1>2. Path(RetSteps(<<e>>), a, a - Uses(e) + Gives(e))
  BY <1>1, EntrySteps, PathOne
<1>3. Path(ScopeSteps(<<e>>), b, b - Closes(e) + 0)
  BY <1>1, EntrySteps, PathOne
<1>4. b - Closes(e) + 0 = b - Closes(e)
  <2>1. Closes(e) \in {0, 1}
    BY EntrySteps
  <2> QED
    BY <2>1
<1> QED
  BY <1>2, <1>3, <1>4, FramesOne DEF Runs

\* Calls after calls.
LEMMA RunsConcat ==
  ASSUME prog \in Programs, NEW v, NEW w, NEW a, NEW b, NEW c, NEW d, NEW e, NEW f,
         Runs(v, a, b, c, d), Runs(w, c, d, e, f)
  PROVE  Runs(v \o w, a, b, e, f)
<1>1. Frames(v) /\ Frames(w) /\ Frames(v \o w)
  BY FramesConcat DEF Runs
<1>2. /\ Len(v) \in Nat /\ Len(w) \in Nat /\ Len(v \o w) = Len(v) + Len(w)
      /\ \A k \in 1 .. Len(v) : k \in DOMAIN (v \o w) /\ (v \o w)[k] = v[k]
      /\ \A k \in 1 .. Len(w) : Len(v) + k \in DOMAIN (v \o w) /\ (v \o w)[Len(v) + k] = w[k]
      /\ DOMAIN v = 1 .. Len(v) /\ DOMAIN w = 1 .. Len(w)
  <2>1. \A m, l \in Nat : (\A k \in 1 .. m : k \in 1 .. m + l) /\ (\A k \in 1 .. l : m + k \in 1 .. m + l)
    OBVIOUS
  <2> QED
    BY <1>1, <2>1, FramesConcat
<1>3. RetSteps(v \o w) = RetSteps(v) \o RetSteps(w)
  <2>1. /\ RetSteps(v) \in Seq(Steps) /\ RetSteps(w) \in Seq(Steps) /\ RetSteps(v \o w) \in Seq(Steps)
        /\ Len(RetSteps(v)) = Len(v) /\ Len(RetSteps(w)) = Len(w) /\ Len(RetSteps(v \o w)) = Len(v \o w)
    BY <1>1, StepsAreSteps
  <2>2. \A k \in 1 .. Len(v) : RetSteps(v \o w)[k] = RetSteps(v)[k]
    <3>1. \A k \in 1 .. Len(v) : RetSteps(v \o w)[k] = <<Uses((v \o w)[k]), Gives((v \o w)[k])>> /\ RetSteps(v)[k] = <<Uses(v[k]), Gives(v[k])>>
      BY <1>1, <1>2 DEF RetSteps
    <3> QED
      BY <1>2, <3>1
  <2>3. \A k \in 1 .. Len(w) : RetSteps(v \o w)[Len(v) + k] = RetSteps(w)[k]
    <3>1. \A k \in 1 .. Len(w) : RetSteps(v \o w)[Len(v) + k] = <<Uses((v \o w)[Len(v) + k]), Gives((v \o w)[Len(v) + k])>> /\ RetSteps(w)[k] = <<Uses(w[k]), Gives(w[k])>>
      BY <1>1, <1>2 DEF RetSteps
    <3> QED
      BY <1>2, <3>1
  <2> DEFINE x == RetSteps(v)
             y == RetSteps(w)
             z == RetSteps(v \o w)
  <2>4. /\ x \in Seq(Steps) /\ y \in Seq(Steps) /\ z \in Seq(Steps) /\ Len(z) = Len(x) + Len(y)
        /\ \A k \in 1 .. Len(x) : z[k] = x[k]
        /\ \A k \in 1 .. Len(y) : z[Len(x) + k] = y[k]
    BY <1>2, <2>1, <2>2, <2>3
  <2> HIDE DEF x, y, z
  <2>5. z = x \o y
    BY <2>4, Concatenation
  <2> QED
    BY <2>5 DEF x, y, z
<1>4. ScopeSteps(v \o w) = ScopeSteps(v) \o ScopeSteps(w)
  <2>1. /\ ScopeSteps(v) \in Seq(Steps) /\ ScopeSteps(w) \in Seq(Steps) /\ ScopeSteps(v \o w) \in Seq(Steps)
        /\ Len(ScopeSteps(v)) = Len(v) /\ Len(ScopeSteps(w)) = Len(w) /\ Len(ScopeSteps(v \o w)) = Len(v \o w)
    BY <1>1, StepsAreSteps
  <2>2. \A k \in 1 .. Len(v) : ScopeSteps(v \o w)[k] = ScopeSteps(v)[k]
    <3>1. \A k \in 1 .. Len(v) : ScopeSteps(v \o w)[k] = <<Closes((v \o w)[k]), 0>> /\ ScopeSteps(v)[k] = <<Closes(v[k]), 0>>
      BY <1>1, <1>2 DEF ScopeSteps
    <3> QED
      BY <1>2, <3>1
  <2>3. \A k \in 1 .. Len(w) : ScopeSteps(v \o w)[Len(v) + k] = ScopeSteps(w)[k]
    <3>1. \A k \in 1 .. Len(w) : ScopeSteps(v \o w)[Len(v) + k] = <<Closes((v \o w)[Len(v) + k]), 0>> /\ ScopeSteps(w)[k] = <<Closes(w[k]), 0>>
      BY <1>1, <1>2 DEF ScopeSteps
    <3> QED
      BY <1>2, <3>1
  <2> DEFINE x == ScopeSteps(v)
             y == ScopeSteps(w)
             z == ScopeSteps(v \o w)
  <2>4. /\ x \in Seq(Steps) /\ y \in Seq(Steps) /\ z \in Seq(Steps) /\ Len(z) = Len(x) + Len(y)
        /\ \A k \in 1 .. Len(x) : z[k] = x[k]
        /\ \A k \in 1 .. Len(y) : z[Len(x) + k] = y[k]
    BY <1>2, <2>1, <2>2, <2>3
  <2> HIDE DEF x, y, z
  <2>5. z = x \o y
    BY <2>4, Concatenation
  <2> QED
    BY <2>5 DEF x, y, z
<1> QED
  BY <1>1, <1>3, <1>4, StepsAreSteps, PathConcat DEF Runs

\* Calls that return a type each.
LEMMA RunsExprs ==
  ASSUME prog \in Programs, NEW nodes \in Seq(N), \A k \in DOMAIN nodes : Kind(nodes[k]) \in Expressions,
         NEW a \in Nat, NEW b \in Nat
  PROVE  Runs(DoAll("expr", nodes, 0), a, b, a + Len(nodes), b)
<1> DEFINE work == DoAll("expr", nodes, 0)
<1>1. \A k \in DOMAIN nodes : Entry(work[k]) /\ Uses(work[k]) = 0 /\ Gives(work[k]) = 1 /\ Closes(work[k]) = 0
  <2> SUFFICES ASSUME NEW k \in DOMAIN nodes
               PROVE  Entry(work[k]) /\ Uses(work[k]) = 0 /\ Gives(work[k]) = 1 /\ Closes(work[k]) = 0
    OBVIOUS
  <2>1. work[k] = [do |-> "expr", n |-> nodes[k], i |-> 0]
    BY DEF DoAll, Do
  <2>2. nodes[k] \in N /\ Owners("expr") = Expressions
    BY DEF Owners, Same
  <2> HIDE DEF work
  <2>3. Entry(work[k])
    BY <2>1, <2>2 DEF Entry, Places
  <2> QED
    BY <2>1, <2>3 DEF Uses, Gives, Closes
<1>2. Frames(work) /\ Len(work) = Len(nodes) /\ Len(nodes) \in Nat /\ DOMAIN work = 1 .. Len(nodes)
  <2>1. Len(nodes) \in Nat /\ DOMAIN nodes = 1 .. Len(nodes)
    OBVIOUS
  <2>2. work = [k \in 1 .. Len(nodes) |-> work[k]]
    BY <2>1 DEF DoAll
  <2> HIDE DEF work
  <2> QED
    BY <1>1, <2>1, <2>2, FramesOf
<1> HIDE DEF work
<1>3. /\ \A k \in 1 .. Len(RetSteps(work)) : RetSteps(work)[k] = <<0, 1>>
      /\ \A k \in 1 .. Len(ScopeSteps(work)) : ScopeSteps(work)[k] = <<0, 0>>
  BY <1>1, <1>2, StepsAreSteps DEF RetSteps, ScopeSteps
<1>4. Path(RetSteps(work), a, a + Len(nodes))
  <2>1. Path(RetSteps(work), a, IF 1 = 0 THEN a ELSE a + Len(RetSteps(work)))
    BY <1>2, <1>3, StepsAreSteps, PathUp
  <2>2. Len(RetSteps(work)) = Len(nodes)
    BY <1>2, StepsAreSteps
  <2> QED
    BY <2>1, <2>2
<1>5. Path(ScopeSteps(work), b, b)
  BY <1>2, <1>3, StepsAreSteps, PathUp
<1> QED
  BY <1>2, <1>4, <1>5 DEF Runs, work

\* Statements leave nothing.
LEMMA RunsStmts ==
  ASSUME prog \in Programs, NEW nodes \in Seq(N), \A k \in DOMAIN nodes : Kind(nodes[k]) \in Statements,
         NEW a \in Nat, NEW b \in Nat, NEW i
  PROVE  Runs(DoAll("stmt", nodes, i), a, b, a, b)
<1> DEFINE work == DoAll("stmt", nodes, i)
<1>1. \A k \in DOMAIN nodes : Entry(work[k]) /\ Uses(work[k]) = 0 /\ Gives(work[k]) = 0 /\ Closes(work[k]) = 0
  <2> SUFFICES ASSUME NEW k \in DOMAIN nodes
               PROVE  Entry(work[k]) /\ Uses(work[k]) = 0 /\ Gives(work[k]) = 0 /\ Closes(work[k]) = 0
    OBVIOUS
  <2>1. work[k] = [do |-> "stmt", n |-> nodes[k], i |-> i]
    BY DEF DoAll, Do
  <2>2. nodes[k] \in N /\ Owners("stmt") = Statements
    BY DEF Owners, Same
  <2> HIDE DEF work
  <2>3. Entry(work[k])
    BY <2>1, <2>2 DEF Entry, Places
  <2> QED
    BY <2>1, <2>3 DEF Uses, Gives, Closes
<1>2. Frames(work) /\ Len(work) = Len(nodes) /\ Len(nodes) \in Nat /\ DOMAIN work = 1 .. Len(nodes)
  <2>1. Len(nodes) \in Nat /\ DOMAIN nodes = 1 .. Len(nodes)
    OBVIOUS
  <2>2. work = [k \in 1 .. Len(nodes) |-> work[k]]
    BY <2>1 DEF DoAll
  <2> HIDE DEF work
  <2> QED
    BY <1>1, <2>1, <2>2, FramesOf
<1> HIDE DEF work
<1>3. /\ \A k \in 1 .. Len(RetSteps(work)) : RetSteps(work)[k] = <<0, 0>>
      /\ \A k \in 1 .. Len(ScopeSteps(work)) : ScopeSteps(work)[k] = <<0, 0>>
  BY <1>1, <1>2, StepsAreSteps DEF RetSteps, ScopeSteps
<1>4. Path(RetSteps(work), a, a)
  BY <1>2, <1>3, StepsAreSteps, PathUp
<1>5. Path(ScopeSteps(work), b, b)
  BY <1>2, <1>3, StepsAreSteps, PathUp
<1> QED
  BY <1>2, <1>4, <1>5 DEF Runs, work

-----------------------------------------------------------------------------
(* Every step leaves a stack of calls that the types and the scopes fit.   *)

Control == Shape /\ Sequence(rets) /\ Sequence(scopes) /\ Balanced

Top == Head(todo)

\* What the program is does not change, and so neither does what entries take.
LEMMA SameProgram ==
  ASSUME prog' = prog
  PROVE  /\ N' = N /\ \A e : Entry(e)' = Entry(e)
         /\ \A work : Frames(work)' = Frames(work)
         /\ \A work, a, b, c, d : Runs(work, a, b, c, d)' = Runs(work, a, b, c, d)
<1>1. N' = N /\ \A n : Kind(n)' = Kind(n) /\ Kids(n)' = Kids(n) /\ Names(n)' = Names(n)
  BY DEF N, Kind, Kids, Names
<1>2. \A n : HasElse(n)' = HasElse(n) /\ Inits(n)' = Inits(n) /\ Args(n)' = Args(n)
  BY <1>1 DEF HasElse, Inits, Args
<1>3. \A e : Entry(e)' = Entry(e)
  BY <1>1, <1>2 DEF Entry, Places, Owners
<1>4. \A e : Uses(e)' = Uses(e) /\ Gives(e)' = Gives(e) /\ Closes(e)' = Closes(e)
  BY <1>1, <1>2 DEF Uses, Gives, Closes
<1>5. \A work : RetSteps(work)' = RetSteps(work) /\ ScopeSteps(work)' = ScopeSteps(work)
  BY <1>4 DEF RetSteps, ScopeSteps
<1>6. \A work : Frames(work)' = Frames(work)
  BY <1>3 DEF Frames, Sequence
<1> QED
  BY <1>1, <1>3, <1>5, <1>6 DEF Runs

\* The types and scopes that the entry on top needs are there.
LEMMA TopFits ==
  ASSUME Control, todo # << >>
  PROVE  /\ Entry(Top) /\ Top.n \in N /\ Kind(Top.n) \in Owners(Top.do)
         /\ Len(rets) \in Nat /\ Len(scopes) \in Nat
         /\ Uses(Top) <= Len(rets) /\ Closes(Top) <= Len(scopes)
         /\ Len(rets) - Uses(Top) + Gives(Top) \in Nat /\ Len(scopes) - Closes(Top) \in Nat
         /\ Runs(Tail(todo), Len(rets) - Uses(Top) + Gives(Top), Len(scopes) - Closes(Top), 0, 0)
<1>1. Frames(todo) /\ prog \in Programs
  BY DEF Control, Shape
<1>2. Entry(Top) /\ Top = todo[1] /\ 1 \in DOMAIN todo /\ Frames(Tail(todo)) /\ Len(todo) \in Nat /\ Len(todo) >= 1
  BY <1>1, FramesTail DEF Top
<1>3. Top.n \in N /\ Kind(Top.n) \in Owners(Top.do)
  BY <1>2 DEF Entry
<1>4. Len(rets) \in Nat /\ Len(scopes) \in Nat
  BY DEF Control, Sequence
<1>5. Uses(Top) \in Nat /\ Gives(Top) \in {0, 1} /\ Closes(Top) \in {0, 1}
  BY <1>1, <1>2, EntrySteps
<1>6. /\ RetSteps(todo) \in Seq(Steps) /\ RetSteps(todo) # << >> /\ Head(RetSteps(todo)) = <<Uses(Top), Gives(Top)>>
      /\ ScopeSteps(todo) \in Seq(Steps) /\ ScopeSteps(todo) # << >> /\ Head(ScopeSteps(todo)) = <<Closes(Top), 0>>
  <2>1. /\ RetSteps(todo) \in Seq(Steps) /\ Len(RetSteps(todo)) = Len(todo)
        /\ ScopeSteps(todo) \in Seq(Steps) /\ Len(ScopeSteps(todo)) = Len(todo)
    BY <1>1, StepsAreSteps
  <2>2. RetSteps(todo)[1] = <<Uses(Top), Gives(Top)>> /\ ScopeSteps(todo)[1] = <<Closes(Top), 0>>
    BY <1>2 DEF RetSteps, ScopeSteps
  <2> QED
    BY <1>2, <2>1, <2>2
<1>7. /\ RetSteps(Tail(todo)) = Tail(RetSteps(todo)) /\ ScopeSteps(Tail(todo)) = Tail(ScopeSteps(todo))
  <2>1. Len(Tail(todo)) = Len(todo) - 1 /\ \A k \in 1 .. Len(todo) - 1 : Tail(todo)[k] = todo[k + 1] /\ k + 1 \in DOMAIN todo /\ k \in DOMAIN Tail(todo)
    BY <1>1, <1>2, FramesTail
  <2>2. /\ RetSteps(todo) \in Seq(Steps) /\ Len(RetSteps(todo)) = Len(todo)
        /\ ScopeSteps(todo) \in Seq(Steps) /\ Len(ScopeSteps(todo)) = Len(todo)
        /\ RetSteps(Tail(todo)) \in Seq(Steps) /\ Len(RetSteps(Tail(todo))) = Len(todo) - 1
        /\ ScopeSteps(Tail(todo)) \in Seq(Steps) /\ Len(ScopeSteps(Tail(todo))) = Len(todo) - 1
    BY <1>1, <1>2, <2>1, StepsAreSteps
  <2>3. \A k \in 1 .. Len(todo) - 1 : /\ RetSteps(Tail(todo))[k] = RetSteps(todo)[k + 1]
                                      /\ ScopeSteps(Tail(todo))[k] = ScopeSteps(todo)[k + 1]
    BY <2>1 DEF RetSteps, ScopeSteps
  <2>4. \A s, t \in Seq(Steps) : Len(s) = Len(t) + 1 /\ (\A k \in 1 .. Len(t) : t[k] = s[k + 1]) => t = Tail(s)
    OBVIOUS
  <2>5. Len(todo) = (Len(todo) - 1) + 1
    BY <1>2
  <2>6. RetSteps(Tail(todo)) = Tail(RetSteps(todo))
    BY <2>2, <2>3, <2>4, <2>5
  <2>7. ScopeSteps(Tail(todo)) = Tail(ScopeSteps(todo))
    BY <2>2, <2>3, <2>4, <2>5
  <2> QED
    BY <2>6, <2>7
<1>8. Path(RetSteps(todo), Len(rets), 0) /\ Path(ScopeSteps(todo), Len(scopes), 0)
  BY DEF Control, Balanced, Runs
<1>9. /\ Uses(Top) <= Len(rets) /\ Len(rets) - Uses(Top) + Gives(Top) \in Nat
      /\ Path(RetSteps(Tail(todo)), Len(rets) - Uses(Top) + Gives(Top), 0)
  <2>1. <<Uses(Top), Gives(Top)>>[1] = Uses(Top) /\ <<Uses(Top), Gives(Top)>>[2] = Gives(Top)
    OBVIOUS
  <2> QED
    BY <1>4, <1>6, <1>7, <1>8, <2>1, PathHead
<1>10. /\ Closes(Top) <= Len(scopes) /\ Len(scopes) - Closes(Top) + 0 \in Nat
       /\ Path(ScopeSteps(Tail(todo)), Len(scopes) - Closes(Top) + 0, 0)
  <2>1. <<Closes(Top), 0>>[1] = Closes(Top) /\ <<Closes(Top), 0>>[2] = 0
    OBVIOUS
  <2> QED
    BY <1>4, <1>6, <1>7, <1>8, <2>1, PathHead
<1>11. Len(scopes) - Closes(Top) + 0 = Len(scopes) - Closes(Top)
  BY <1>4, <1>5
<1> QED
  BY <1>2, <1>3, <1>4, <1>9, <1>10, <1>11 DEF Runs

\* A step that replaces the entry on top by work that leads to where the entry led.
LEMMA Proceed ==
  ASSUME Control, todo # << >>, NEW work, prog' = prog, todo' = work \o Tail(todo),
         reported' \in BOOLEAN, crashed' \in BOOLEAN, Sequence(rets)', Sequence(scopes)',
         Runs(work, Len(rets'), Len(scopes'), Len(rets) - Uses(Top) + Gives(Top), Len(scopes) - Closes(Top))
  PROVE  Control'
<1>1. Runs(Tail(todo), Len(rets) - Uses(Top) + Gives(Top), Len(scopes) - Closes(Top), 0, 0)
  BY TopFits
<1>2. prog \in Programs
  BY DEF Control, Shape
<1>3. Runs(todo', Len(rets'), Len(scopes'), 0, 0)
  BY <1>1, <1>2, RunsConcat
<1>4. Balanced'
  BY <1>3, SameProgram DEF Balanced
<1>5. Shape'
  <2>1. Frames(todo')
    BY <1>3 DEF Runs
  <2>2. (Frames(todo))'
    BY <2>1, SameProgram
  <2> QED
    BY <1>2, <2>2 DEF Shape
<1> QED
  BY <1>4, <1>5 DEF Control

\* A procedure ends, with the number of types and scopes it must leave.
LEMMA Finish ==
  ASSUME Control, todo # << >>, prog' = prog, todo' = << >> \o Tail(todo),
         reported' \in BOOLEAN, crashed' \in BOOLEAN, Sequence(rets)', Sequence(scopes)',
         Len(rets') = Len(rets) - Uses(Top) + Gives(Top), Len(scopes') = Len(scopes) - Closes(Top)
  PROVE  Control'
<1>1. Runs(<< >>, Len(rets'), Len(scopes'), Len(rets) - Uses(Top) + Gives(Top), Len(scopes) - Closes(Top))
  BY TopFits, RunsNone
<1> QED
  BY <1>1, Proceed

\* A procedure returns a type.
LEMMA Returns ==
  ASSUME Control, todo # << >>, Gives(Top) = 1, prog' = prog, todo' = << >> \o Tail(todo),
         reported' \in BOOLEAN, crashed' \in BOOLEAN, NEW k, k = Uses(Top), \E t : rets' = <<t>> \o Drop(k),
         (scopes' = scopes /\ Closes(Top) = 0) \/ (scopes' = Tail(scopes) /\ Closes(Top) = 1)
  PROVE  Control'
<1>1. /\ k \in Nat /\ k <= Len(rets) /\ Closes(Top) <= Len(scopes) /\ Len(rets) \in Nat /\ Len(scopes) \in Nat
  <2>1. prog \in Programs
    BY DEF Control, Shape
  <2> QED
    BY <2>1, TopFits, EntrySteps
<1>2. PICK T : rets \in Seq(T)
  BY DEF Control, Sequence
<1>3. PICK t : rets' = <<t>> \o Drop(k)
  OBVIOUS
<1>4. Drop(k) \in Seq(T) /\ Len(Drop(k)) = Len(rets) - k
  BY <1>1, <1>2 DEF Drop
<1>5. Drop(k) \in Seq(T \cup {t}) /\ <<t>> \in Seq(T \cup {t})
  BY <1>4
<1>6. rets' \in Seq(T \cup {t}) /\ Len(rets') = 1 + Len(Drop(k))
  BY <1>3, <1>5
<1>7. Len(rets') = Len(rets) - k + 1
  BY <1>1, <1>4, <1>6
<1>8. PICK S : scopes \in Seq(S)
  BY DEF Control, Sequence
<1>9. scopes' \in Seq(S) /\ Len(scopes') = Len(scopes) - Closes(Top)
  <2>1. CASE scopes' = Tail(scopes) /\ Closes(Top) = 1
    BY <1>1, <1>8, <2>1
  <2>2. CASE scopes' = scopes /\ Closes(Top) = 0
    BY <1>1, <1>8, <2>2
  <2> QED
    BY <2>1, <2>2
<1> QED
  BY <1>6, <1>7, <1>9, Finish DEF Sequence

\* A statement ends, or a part of a procedure that returns nothing.
LEMMA Leaves ==
  ASSUME Control, todo # << >>, Gives(Top) = 0, prog' = prog, todo' = << >> \o Tail(todo),
         reported' \in BOOLEAN, crashed' \in BOOLEAN, NEW k, k = Uses(Top), rets' = Drop(k),
         \/ Sequence(scopes)' /\ Len(scopes') = Len(scopes) /\ Closes(Top) = 0
         \/ scopes' = Tail(scopes) /\ Closes(Top) = 1
  PROVE  Control'
<1>1. /\ k \in Nat /\ k <= Len(rets) /\ Closes(Top) <= Len(scopes) /\ Len(rets) \in Nat /\ Len(scopes) \in Nat
  <2>1. prog \in Programs
    BY DEF Control, Shape
  <2> QED
    BY <2>1, TopFits, EntrySteps
<1>2. PICK T : rets \in Seq(T)
  BY DEF Control, Sequence
<1>3. rets' \in Seq(T) /\ Len(rets') = Len(rets) - k
  BY <1>1, <1>2 DEF Drop
<1>4. Len(rets') = Len(rets) - k + 0
  BY <1>1, <1>3
<1>5. PICK S : scopes \in Seq(S)
  BY DEF Control, Sequence
<1>6. Sequence(scopes)' /\ Len(scopes') = Len(scopes) - Closes(Top)
  <2>1. CASE scopes' = Tail(scopes) /\ Closes(Top) = 1
    <3>1. Tail(scopes) \in Seq(S) /\ Len(Tail(scopes)) = Len(scopes) - 1
      BY <1>1, <1>5, <2>1
    <3> QED
      BY <2>1, <3>1 DEF Sequence
  <2>2. CASE Sequence(scopes)' /\ Len(scopes') = Len(scopes) /\ Closes(Top) = 0
    BY <1>1, <2>2
  <2> QED
    BY <2>1, <2>2
<1> QED
  BY <1>3, <1>4, <1>6, Finish DEF Sequence

\* A procedure calls others before it goes on.
LEMMA Calling ==
  ASSUME Control, todo # << >>, NEW work, Calls(work),
         Runs(work, Len(rets), Len(scopes), Len(rets) - Uses(Top) + Gives(Top), Len(scopes) - Closes(Top))
  PROVE  Control'
<1>1. Sequence(rets)' /\ Sequence(scopes)' /\ reported' \in BOOLEAN /\ crashed' \in BOOLEAN
  BY DEF Control, Shape, Calls, Sequence
<1>2. prog' = prog /\ todo' = work \o Tail(todo) /\ rets' = rets /\ scopes' = scopes
  BY DEF Calls, Go
<1>3. Runs(work, Len(rets'), Len(scopes'), Len(rets) - Uses(Top) + Gives(Top), Len(scopes) - Closes(Top))
  BY <1>2
<1> QED
  BY <1>1, <1>2, <1>3, Proceed

\* What an entry is made of.
LEMMA AnEntry ==
  ASSUME prog \in Programs, NEW what \in Places, NEW n \in N, NEW i, Kind(n) \in Owners(what),
         what \in {"return", "expr_stmt"} => Kids(n) # << >>, what = "else" => HasElse(n),
         what = "init" => i \in 1 .. Len(Inits(n))
  PROVE  /\ Entry(Do(what, n, i))
         /\ Do(what, n, i).do = what /\ Do(what, n, i).n = n /\ Do(what, n, i).i = i
<1> DEFINE e == Do(what, n, i)
<1>1. e.do = what /\ e.n = n /\ e.i = i
  BY DEF Do
<1> HIDE DEF e
<1>2. Entry(e)
  BY <1>1 DEF Entry
<1> QED
  BY <1>1, <1>2 DEF e

\* Two entries.
LEMMA RunsTwo ==
  ASSUME prog \in Programs, NEW x, Entry(x), NEW y, Entry(y), NEW a \in Nat, NEW b \in Nat,
         Uses(x) <= a, Closes(x) <= b,
         Uses(y) <= a - Uses(x) + Gives(x), Closes(y) <= b - Closes(x)
  PROVE  Runs(<<x, y>>, a, b, a - Uses(x) + Gives(x) - Uses(y) + Gives(y), b - Closes(x) - Closes(y))
<1> DEFINE there == a - Uses(x) + Gives(x)
           open == b - Closes(x)
<1>1. Runs(<<x>>, a, b, there, open)
  BY RunsOne
<1>2. there \in Nat /\ open \in Nat /\ Uses(y) <= there /\ Closes(y) <= open
  <2>1. Uses(x) \in Nat /\ Gives(x) \in {0, 1} /\ Closes(x) \in {0, 1}
    BY EntrySteps
  <2> QED
    BY <2>1
<1> HIDE DEF there, open
<1>3. Runs(<<y>>, there, open, there - Uses(y) + Gives(y), open - Closes(y))
  BY <1>2, RunsOne
<1>4. <<x, y>> = <<x>> \o <<y>>
  <2> DEFINE S == {x, y}
  <2>1. /\ <<x>> \in Seq(S) /\ <<y>> \in Seq(S) /\ <<x, y>> \in Seq(S)
        /\ Len(<<x>>) = 1 /\ Len(<<y>>) = 1 /\ Len(<<x, y>>) = 1 + 1
        /\ \A k \in 1 .. 1 : <<x, y>>[k] = <<x>>[k] /\ <<x, y>>[1 + k] = <<y>>[k]
    OBVIOUS
  <2> HIDE DEF S
  <2> QED
    BY <2>1, Concatenation
<1>5. Runs(<<x>> \o <<y>>, a, b, there - Uses(y) + Gives(y), open - Closes(y))
  BY <1>1, <1>3, RunsConcat
<1>6. /\ Uses(x) \in Nat /\ Gives(x) \in {0, 1} /\ Closes(x) \in {0, 1}
      /\ Uses(y) \in Nat /\ Gives(y) \in {0, 1} /\ Closes(y) \in {0, 1}
  BY EntrySteps
<1>7. there - Uses(y) + Gives(y) = a - Uses(x) + Gives(x) - Uses(y) + Gives(y) /\ open - Closes(y) = b - Closes(x) - Closes(y)
  BY <1>6 DEF there, open
<1> QED
  BY <1>4, <1>5, <1>7

\* Some expressions, and then the procedure that uses their types.
LEMMA RunsThen ==
  ASSUME prog \in Programs, NEW nodes \in Seq(N), \A k \in DOMAIN nodes : Kind(nodes[k]) \in Expressions,
         NEW a \in Nat, NEW b \in Nat, NEW e, Entry(e),
         Uses(e) <= a + Len(nodes), Closes(e) = 0
  PROVE  Runs(Append(DoAll("expr", nodes, 0), e), a, b, a + Len(nodes) - Uses(e) + Gives(e), b)
<1>1. Runs(DoAll("expr", nodes, 0), a, b, a + Len(nodes), b)
  BY RunsExprs
<1>2. a + Len(nodes) \in Nat /\ b - Closes(e) = b /\ Closes(e) <= b
  OBVIOUS
<1>3. Runs(<<e>>, a + Len(nodes), b, a + Len(nodes) - Uses(e) + Gives(e), b)
  <2> DEFINE there == a + Len(nodes)
  <2>1. there \in Nat /\ Uses(e) <= there
    BY <1>2
  <2> HIDE DEF there
  <2>2. Runs(<<e>>, there, b, there - Uses(e) + Gives(e), b - Closes(e))
    BY <1>2, <2>1, RunsOne
  <2>3. Uses(e) \in Nat /\ Gives(e) \in {0, 1}
    BY EntrySteps
  <2>4. there = a + Len(nodes) /\ there - Uses(e) + Gives(e) = a + Len(nodes) - Uses(e) + Gives(e)
    BY <2>3 DEF there
  <2> QED
    BY <1>2, <2>2, <2>4
<1>4. Sequence(DoAll("expr", nodes, 0))
  BY <1>1 DEF Runs, Frames
<1>5. Append(DoAll("expr", nodes, 0), e) = DoAll("expr", nodes, 0) \o <<e>>
  BY <1>4 DEF Sequence
<1> QED
  BY <1>1, <1>3, <1>5, RunsConcat

\* The statements of a block, and then its end.
LEMMA RunsBlock ==
  ASSUME prog \in Programs, NEW nodes \in Seq(N), \A k \in DOMAIN nodes : Kind(nodes[k]) \in Statements,
         NEW i, NEW a \in Nat, NEW b \in Nat, NEW e, Entry(e),
         Uses(e) = 0, Gives(e) = 0, Closes(e) = 1
  PROVE  Runs(Append(DoAll("stmt", nodes, i), e), a, b + 1, a, b)
<1>1. Runs(DoAll("stmt", nodes, i), a, b + 1, a, b + 1)
  BY RunsStmts
<1>2. Runs(<<e>>, a, b + 1, a - Uses(e) + Gives(e), b + 1 - Closes(e))
  BY RunsOne
<1>3. a - Uses(e) + Gives(e) = a /\ b + 1 - Closes(e) = b
  OBVIOUS
<1>4. Sequence(DoAll("stmt", nodes, i))
  BY <1>1 DEF Runs, Frames
<1>5. Append(DoAll("stmt", nodes, i), e) = DoAll("stmt", nodes, i) \o <<e>>
  BY <1>4 DEF Sequence
<1> QED
  BY <1>1, <1>2, <1>3, <1>5, RunsConcat

\* The kind of the node, and what the entry takes and leaves, at each place.
LEMMA TopFacts ==
  ASSUME Control, todo # << >>
  PROVE  /\ prog \in Programs /\ Entry(Top) /\ Node \in N /\ Node = Top.n /\ Kids(Node) \in Seq(N)
         /\ Top.do \in {"intrinsic", "callee", "args"} => Kind(Node) = "call"
         /\ Top.do \in {"condition", "then", "else"} => Kind(Node) = "if"
         /\ Top.do \in {"init", "for_end"} => Kind(Node) = "for"
         /\ Top.do \in {"declare", "func", "func_end"} => Kind(Node) = "func"
         /\ Top.do \in {"block", "pop_scope"} => Kind(Node) = "block"
         /\ Top.do \in Same => Kind(Node) = Top.do
         /\ Top.do = "expr" => Kind(Node) \in Expressions
         /\ Top.do = "stmt" => Kind(Node) \in Statements
         /\ Top.do = "else" => HasElse(Node)
         /\ Top.do = "init" => Top.i \in 1 .. Len(Inits(Node))
         /\ Top.do \in {"return", "expr_stmt"} => Kids(Node) # << >>
<1>1. Entry(Top) /\ Top.n \in N /\ Node = Top.n /\ prog \in Programs /\ Kind(Top.n) \in Owners(Top.do)
  BY TopFits DEF Top, Node, Control, Shape
<1>2. Kids(Node) \in Seq(N)
  BY <1>1, NodeFacts
<1>3. /\ Top.do \in {"return", "expr_stmt"} => Kids(Node) # << >>
      /\ Top.do = "else" => HasElse(Node)
      /\ Top.do = "init" => Top.i \in 1 .. Len(Inits(Node))
  BY <1>1 DEF Entry
<1>4. Top.do \in {"intrinsic", "callee", "args"} => Kind(Node) = "call"
  BY <1>1 DEF Owners, Same
<1>5. Top.do \in {"condition", "then", "else"} => Kind(Node) = "if"
  BY <1>1 DEF Owners, Same
<1>6. Top.do \in {"init", "for_end"} => Kind(Node) = "for"
  BY <1>1 DEF Owners, Same
<1>7. Top.do \in {"declare", "func", "func_end"} => Kind(Node) = "func"
  BY <1>1 DEF Owners, Same
<1>8. Top.do \in {"block", "pop_scope"} => Kind(Node) = "block"
  BY <1>1 DEF Owners, Same
<1>9. Top.do \in Same => Kind(Node) = Top.do
  BY <1>1 DEF Owners, Same
<1>10. Top.do = "expr" => Kind(Node) \in Expressions
  BY <1>1 DEF Owners, Same
<1>11. Top.do = "stmt" => Kind(Node) \in Statements
  BY <1>1 DEF Owners, Same
<1> QED
  BY <1>1, <1>2, <1>3, <1>4, <1>5, <1>6, <1>7, <1>8, <1>9, <1>10, <1>11

\* What the entries at each place take and leave.
LEMMA EntryCounts ==
  ASSUME NEW e
  PROVE  /\ e.do \in {"tensor", "arith", "cmp", "neg", "index", "range", "var", "return", "yield",
                      "expr_stmt"} => Uses(e) = Len(Kids(e.n))
         /\ e.do \in {"intrinsic", "args"} => Uses(e) = Len(Args(e.n))
         /\ e.do \in {"callee", "condition", "for", "init"} => Uses(e) = 1
         /\ e.do \in {"expr", "stmt", "then", "else", "for_end", "declare", "func", "func_end", "block",
                      "pop_scope"} => Uses(e) = 0
         /\ e.do \in {"expr", "tensor", "arith", "cmp", "neg", "index", "range", "intrinsic", "callee",
                      "args", "condition", "then", "else", "for", "for_end"} => Gives(e) = 1
         /\ e.do \in {"stmt", "var", "return", "yield", "expr_stmt", "init", "declare", "func",
                      "func_end", "block", "pop_scope"} => Gives(e) = 0
         /\ e.do \in {"pop_scope", "for_end", "func_end"} => Closes(e) = 1
         /\ e.do \in {"expr", "stmt", "tensor", "arith", "cmp", "neg", "index", "range", "var", "return",
                      "yield", "expr_stmt", "intrinsic", "callee", "args", "condition", "then", "else",
                      "for", "init", "declare", "func", "block"} => Closes(e) = 0
<1>1. e.do \in {"tensor", "arith", "cmp", "neg", "index", "range", "var", "return", "yield",
                "expr_stmt"} => Uses(e) = Len(Kids(e.n))
  BY DEF Uses
<1>2. e.do \in {"intrinsic", "args"} => Uses(e) = Len(Args(e.n))
  BY DEF Uses
<1>4. e.do \in {"callee", "condition", "for", "init"} => Uses(e) = 1
  BY DEF Uses
<1>5. e.do \in {"expr", "stmt", "then", "else", "for_end", "declare", "func", "func_end", "block",
                "pop_scope"} => Uses(e) = 0
  BY DEF Uses
<1>6. /\ e.do \in {"expr", "tensor", "arith", "cmp", "neg", "index", "range", "intrinsic", "callee",
                   "args", "condition", "then", "else", "for", "for_end"} => Gives(e) = 1
      /\ e.do \in {"stmt", "var", "return", "yield", "expr_stmt", "init", "declare", "func",
                   "func_end", "block", "pop_scope"} => Gives(e) = 0
  BY DEF Gives
<1>7. /\ e.do \in {"pop_scope", "for_end", "func_end"} => Closes(e) = 1
      /\ e.do \in {"expr", "stmt", "tensor", "arith", "cmp", "neg", "index", "range", "var", "return",
                   "yield", "expr_stmt", "intrinsic", "callee", "args", "condition", "then", "else",
                   "for", "init", "declare", "func", "block"} => Closes(e) = 0
  BY DEF Closes
<1> QED
  BY <1>1, <1>2, <1>4, <1>5, <1>6, <1>7

\* A place is taken only when there is one on top of the stack.
LEMMA AtTop ==
  ASSUME NEW what, At(what)
  PROVE  todo # << >> /\ Top.do = what /\ Node = Top.n
BY DEF At, Top, Node

\* Each action keeps the account: the visit of operands.
LEMMA OperandsControl ==
  ASSUME Control, ResolveOperands
  PROVE  Control'
<1>1. At("expr") /\ Kind(Node) \in {"tensor", "arith", "cmp", "neg", "index", "range"}
  BY DEF ResolveOperands, Visiting
<1>2. Calls(Append(DoAll("expr", Kids(Node), 0), Do(Kind(Node), Node, 0)))
  BY DEF ResolveOperands
<1> DEFINE e == Do(Kind(Node), Node, 0)
<1>3. todo # << >> /\ Top.do = "expr" /\ prog \in Programs /\ Node \in N /\ Kids(Node) \in Seq(N)
  BY <1>1, AtTop, TopFacts
<1>4. Kind(Node) \in Owners(Kind(Node)) /\ Kind(Node) \in Places
  BY <1>1 DEF Owners, Same, Places
<1>5. Entry(e) /\ e.do = Kind(Node) /\ e.n = Node
  <2>1. Kind(Node) \notin {"return", "expr_stmt", "else", "init"}
    BY <1>1
  <2> QED
    BY <1>3, <1>4, <2>1, AnEntry
<1> HIDE DEF e
<1>6. Uses(e) = Len(Kids(Node)) /\ Gives(e) = 1 /\ Closes(e) = 0
  BY <1>1, <1>5, EntryCounts
<1>7. Uses(Top) = 0 /\ Gives(Top) = 1 /\ Closes(Top) = 0
  BY <1>3, EntryCounts
<1>8. \A k \in DOMAIN Kids(Node) : Kind(Kids(Node)[k]) \in Expressions
  BY <1>1, <1>3, ChildKinds
<1>9. Len(rets) \in Nat /\ Len(scopes) \in Nat /\ Len(Kids(Node)) \in Nat
  BY <1>3, TopFits
<1>10. Runs(Append(DoAll("expr", Kids(Node), 0), e), Len(rets), Len(scopes),
            Len(rets) + Len(Kids(Node)) - Uses(e) + Gives(e), Len(scopes))
  BY <1>3, <1>5, <1>6, <1>8, <1>9, RunsThen
<1>11. /\ Len(rets) + Len(Kids(Node)) - Uses(e) + Gives(e) = Len(rets) - Uses(Top) + Gives(Top)
       /\ Len(scopes) - Closes(Top) = Len(scopes)
  BY <1>6, <1>7, <1>9
<1>12. Runs(Append(DoAll("expr", Kids(Node), 0), e), Len(rets), Len(scopes),
            Len(rets) - Uses(Top) + Gives(Top), Len(scopes) - Closes(Top))
  BY <1>10, <1>11
<1> QED
  BY <1>2, <1>3, <1>12, Calling DEF e

\* The last types returned, in the order of the calls.
LEMMA ReturnedTypes ==
  ASSUME NEW T, rets \in Seq(T), NEW k \in Nat, k <= Len(rets)
  PROVE  /\ Returned(k) \in Seq(T) /\ Len(Returned(k)) = k
         /\ \A j \in 1 .. k : Returned(k)[j] = rets[k - j + 1]
<1> DEFINE s == SubSeq(rets, 1, k)
<1>1. s \in Seq(T) /\ Len(s) = k /\ \A j \in 1 .. k : s[j] = rets[j]
  OBVIOUS
<1> HIDE DEF s
<1>2. \A j \in 1 .. k : (k - j) + 1 \in 1 .. k
  OBVIOUS
<1>3. Reverse(s) = [j \in 1 .. k |-> s[(k - j) + 1]]
  BY <1>1 DEF Reverse
<1>4. \A j \in 1 .. k : s[(k - j) + 1] \in T
  BY <1>1, <1>2
<1>5. Reverse(s) \in Seq(T) /\ Len(Reverse(s)) = k
  BY <1>3, <1>4
<1> QED
  BY <1>1, <1>2, <1>3, <1>5 DEF Returned, s

\* A literal.
LEMMA LiteralControl ==
  ASSUME Control, ResolveLiteral
  PROVE  Control'
<1>1. At("expr") /\ prog' = prog /\ todo' = << >> \o Tail(todo) /\ scopes' = scopes /\ crashed' = crashed
      /\ reported' \in BOOLEAN /\ \E t : rets' = <<t>> \o Drop(0)
  BY DEF ResolveLiteral, Visiting, Return, Go, Err
<1>2. todo # << >> /\ Uses(Top) = 0 /\ Gives(Top) = 1 /\ Closes(Top) = 0
  BY <1>1, AtTop, EntryCounts
<1> QED
  BY <1>1, <1>2, Returns DEF Control, Shape

\* A tensor.
LEMMA TensorControl ==
  ASSUME Control, ResolveTensor
  PROVE  Control'
<1>1. At("tensor")
  BY DEF ResolveTensor
<1>2. todo # << >> /\ Uses(Top) = Len(Kids(Node)) /\ Gives(Top) = 1 /\ Closes(Top) = 0
  BY <1>1, AtTop, EntryCounts
<1>3. Len(Returned(Len(Kids(Node)))) = Len(Kids(Node))
  <2>1. PICK T : rets \in Seq(T)
    BY DEF Control, Sequence
  <2>2. Len(Kids(Node)) \in Nat /\ Len(Kids(Node)) <= Len(rets)
    BY <1>2, TopFits, TopFacts
  <2> QED
    BY <2>1, <2>2, ReturnedTypes
<1>4. prog' = prog /\ todo' = << >> \o Tail(todo) /\ scopes' = scopes /\ crashed' \in BOOLEAN
      /\ reported' \in BOOLEAN /\ \E t : rets' = <<t>> \o Drop(Len(Kids(Node)))
  <2> DEFINE types == Returned(Len(Kids(Node)))
             good == types # << >> /\ \A k \in DOMAIN types : types[k] = types[1]
             t == TensorOf(ElementOf(types[1]), <<Len(types)>> \o types[1].shape)
  <2>1. /\ scopes' = scopes
        /\ good => Return(Len(types), t, FALSE) /\ Deref({types[1]})
        /\ ~good => Return(Len(types), Unknown, TRUE) /\ crashed' = crashed
    BY DEF ResolveTensor
  <2>2. Len(types) = Len(Kids(Node))
    BY <1>3
  <2> HIDE DEF types, good, t
  <2>3. CASE good
    BY <2>1, <2>2, <2>3 DEF Return, Go, Err, Deref
  <2>4. CASE ~good
    BY <2>1, <2>2, <2>4 DEF Return, Go, Err, Control, Shape
  <2> QED
    BY <2>3, <2>4
<1> QED
  BY <1>2, <1>4, Returns

\* An identifier.
LEMMA IdentifierControl ==
  ASSUME Control, ResolveIdentifier
  PROVE  Control'
<1>1. At("expr") /\ scopes' = scopes /\ crashed' = crashed
  BY DEF ResolveIdentifier, Visiting
<1>2. todo # << >> /\ Uses(Top) = 0 /\ Gives(Top) = 1 /\ Closes(Top) = 0
  BY <1>1, AtTop, EntryCounts
<1>3. prog' = prog /\ todo' = << >> \o Tail(todo) /\ reported' \in BOOLEAN /\ \E t : rets' = <<t>> \o Drop(0)
  <2>1. CASE Found(Names(Node)[1])
    BY <2>1 DEF ResolveIdentifier, Return, Go, Err
  <2>2. CASE ~Found(Names(Node)[1])
    BY <2>2 DEF ResolveIdentifier, Return, Go, Err
  <2> QED
    BY <2>1, <2>2
<1> QED
  BY <1>1, <1>2, <1>3, Returns DEF Control, Shape

\* The operations on two operands or one.
LEMMA OperationControl ==
  ASSUME Control, ResolveBinary \/ ResolveUnary \/ ResolveIndexAccess \/ ResolveRange
  PROVE  Control'
<1>1. CASE ResolveBinary
  <2>1. (At("arith") \/ At("cmp")) /\ scopes' = scopes /\ crashed' \in BOOLEAN
        /\ \E t, bad : Return(2, t, bad)
    BY <1>1 DEF ResolveBinary, Deref
  <2>2. todo # << >> /\ Uses(Top) = Len(Kids(Node)) /\ Gives(Top) = 1 /\ Closes(Top) = 0
    BY <2>1, AtTop, EntryCounts
  <2>3. Top.do \in {"arith", "cmp"} /\ Node \in N /\ prog \in Programs
    BY <2>1, AtTop, TopFacts
  <2>4. Kind(Node) \in {"arith", "cmp"}
    BY <2>2, <2>3, TopFacts DEF Same
  <2>5. Len(Kids(Node)) = 2
    BY <2>3, <2>4, ChildKinds
  <2> QED
    BY <2>1, <2>2, <2>5, Returns DEF Return, Go, Err
<1>2. CASE ResolveUnary
  <2>1. At("neg") /\ scopes' = scopes /\ crashed' = crashed /\ Return(1, rets[1], FALSE)
    BY <1>2 DEF ResolveUnary
  <2>2. todo # << >> /\ Uses(Top) = Len(Kids(Node)) /\ Gives(Top) = 1 /\ Closes(Top) = 0
    BY <2>1, AtTop, EntryCounts
  <2>3. Top.do = "neg" /\ Node \in N /\ prog \in Programs
    BY <2>1, AtTop, TopFacts
  <2>4. Kind(Node) = "neg"
    BY <2>2, <2>3, TopFacts DEF Same
  <2>5. Len(Kids(Node)) = 1
    BY <2>3, <2>4, ChildKinds
  <2> QED
    BY <2>1, <2>2, <2>5, Returns DEF Return, Go, Err, Control, Shape
<1>3. CASE ResolveIndexAccess
  <2>1. At("index") /\ scopes' = scopes /\ crashed' \in BOOLEAN
        /\ \E t, bad : Return(2, t, bad)
    BY <1>3 DEF ResolveIndexAccess, Deref
  <2>2. todo # << >> /\ Uses(Top) = Len(Kids(Node)) /\ Gives(Top) = 1 /\ Closes(Top) = 0
    BY <2>1, AtTop, EntryCounts
  <2>3. Top.do = "index" /\ Node \in N /\ prog \in Programs
    BY <2>1, AtTop, TopFacts
  <2>4. Kind(Node) = "index"
    BY <2>2, <2>3, TopFacts DEF Same
  <2>5. Len(Kids(Node)) = 2
    BY <2>3, <2>4, ChildKinds
  <2> QED
    BY <2>1, <2>2, <2>5, Returns DEF Return, Go, Err
<1>4. CASE ResolveRange
  <2>1. At("range") /\ scopes' = scopes /\ crashed' \in BOOLEAN
        /\ \E t, bad : Return(2, t, bad)
    BY <1>4 DEF ResolveRange, Deref
  <2>2. todo # << >> /\ Uses(Top) = Len(Kids(Node)) /\ Gives(Top) = 1 /\ Closes(Top) = 0
    BY <2>1, AtTop, EntryCounts
  <2>3. Top.do = "range" /\ Node \in N /\ prog \in Programs
    BY <2>1, AtTop, TopFacts
  <2>4. Kind(Node) = "range"
    BY <2>2, <2>3, TopFacts DEF Same
  <2>5. Len(Kids(Node)) = 2
    BY <2>3, <2>4, ChildKinds
  <2> QED
    BY <2>1, <2>2, <2>5, Returns DEF Return, Go, Err
<1> QED
  BY <1>1, <1>2, <1>3, <1>4

\* The callee and the arguments of a call.
LEMMA CallFacts ==
  ASSUME prog \in Programs, NEW n \in N, Kind(n) = "call"
  PROVE  /\ Callee(n) \in N /\ Kind(Callee(n)) = "id" /\ Kind(Callee(n)) \in Expressions
         /\ Args(n) \in Seq(N) /\ Len(Args(n)) = Len(Kids(n)) - 1
         /\ \A k \in DOMAIN Args(n) : Args(n)[k] = Kids(n)[k + 1] /\ k + 1 \in DOMAIN Kids(n)
                                      /\ Kind(Args(n)[k]) \in Expressions
<1>1. Kids(n) \in Seq(N) /\ Len(Kids(n)) >= 1
  BY NodeFacts, ChildKinds
<1>2. Callee(n) \in N /\ Args(n) \in Seq(N) /\ Len(Args(n)) = Len(Kids(n)) - 1 /\ 1 \in DOMAIN Kids(n)
      /\ \A k \in DOMAIN Args(n) : Args(n)[k] = Kids(n)[k + 1] /\ k + 1 \in DOMAIN Kids(n)
  BY <1>1 DEF Callee, Args
<1>3. Kind(Callee(n)) = "id"
  BY <1>2, ChildKinds DEF Callee
<1>4. \A k \in DOMAIN Kids(n) : Kind(Kids(n)[k]) \in Expressions
  BY ChildKinds
<1> QED
  BY <1>2, <1>3, <1>4 DEF Expressions

\* All but the last types returned.
LEMMA DropTypes ==
  ASSUME NEW T, rets \in Seq(T), NEW k \in Nat, k <= Len(rets)
  PROVE  /\ Drop(k) \in Seq(T) /\ Len(Drop(k)) = Len(rets) - k
         /\ \A j \in 1 .. Len(rets) - k : Drop(k)[j] = rets[k + j]
BY DEF Drop

\* One type is used, and one fewer is there.
LEMMA DropOne ==
  ASSUME Control, todo # << >>, Uses(Top) = 1, rets' = Drop(1)
  PROVE  Sequence(rets)' /\ Len(rets) \in Nat /\ Len(rets) >= 1 /\ Len(rets') = Len(rets) - 1
<1>1. Len(rets) \in Nat /\ 1 <= Len(rets)
  BY TopFits
<1>2. PICK T : rets \in Seq(T)
  BY DEF Control, Sequence
<1>3. rets' \in Seq(T) /\ Len(rets') = Len(rets) - 1
  BY <1>1, <1>2, DropTypes
<1> QED
  BY <1>1, <1>3 DEF Sequence

\* A call.
LEMMA CallControl ==
  ASSUME Control, ResolveCall
  PROVE  Control'
<1>0. prog \in Programs
  BY DEF Control, Shape
<1> DEFINE intrinsic == Do("intrinsic", Node, 0)
           callee == Do("callee", Node, 0)
           args == Do("args", Node, rets[1])
           call == Do("expr", Callee(Node), 0)
<1>1. CASE Visiting({"call"}) /\ IsIntrinsic
           /\ Calls(Append(DoAll("expr", Args(Node), 0), intrinsic))
  <2>1. At("expr") /\ Kind(Node) = "call" /\ Calls(Append(DoAll("expr", Args(Node), 0), intrinsic))
    BY <1>1 DEF Visiting
  <2>2. todo # << >> /\ Uses(Top) = 0 /\ Gives(Top) = 1 /\ Closes(Top) = 0
    BY <2>1, AtTop, EntryCounts
  <2>3. Node \in N
    BY <2>2, TopFacts
  <2>4. Entry(intrinsic) /\ intrinsic.do = "intrinsic" /\ intrinsic.n = Node
    BY <1>0, <2>1, <2>3, AnEntry DEF Owners, Same, Places
  <2> HIDE DEF intrinsic
  <2>5. Uses(intrinsic) = Len(Args(Node)) /\ Gives(intrinsic) = 1 /\ Closes(intrinsic) = 0
    BY <2>4, EntryCounts
  <2>6. Args(Node) \in Seq(N) /\ \A k \in DOMAIN Args(Node) : Kind(Args(Node)[k]) \in Expressions
    BY <1>0, <2>1, <2>3, CallFacts
  <2>7. Len(rets) \in Nat /\ Len(scopes) \in Nat /\ Len(Args(Node)) \in Nat
    BY <2>2, <2>6, TopFits
  <2>8. Runs(Append(DoAll("expr", Args(Node), 0), intrinsic), Len(rets), Len(scopes),
             Len(rets) + Len(Args(Node)) - Uses(intrinsic) + Gives(intrinsic), Len(scopes))
    BY <1>0, <2>4, <2>5, <2>6, <2>7, RunsThen
  <2>9. /\ Len(rets) + Len(Args(Node)) - Uses(intrinsic) + Gives(intrinsic) = Len(rets) - Uses(Top) + Gives(Top)
        /\ Len(scopes) - Closes(Top) = Len(scopes)
    BY <2>2, <2>5, <2>7
  <2>10. Runs(Append(DoAll("expr", Args(Node), 0), intrinsic), Len(rets), Len(scopes),
              Len(rets) - Uses(Top) + Gives(Top), Len(scopes) - Closes(Top))
    BY <2>8, <2>9
  <2> QED
    BY <2>1, <2>2, <2>10, Calling
<1>2. CASE /\ At("intrinsic")
           /\ Return(Len(Args(Node)), Infer.type, Infer.bad) /\ Deref(Infer.reads)
           /\ UNCHANGED scopes
  <2>1. todo # << >> /\ Uses(Top) = Len(Args(Node)) /\ Gives(Top) = 1 /\ Closes(Top) = 0
    BY <1>2, AtTop, EntryCounts
  <2>2. prog' = prog /\ todo' = << >> \o Tail(todo) /\ reported' \in BOOLEAN /\ crashed' \in BOOLEAN
        /\ rets' = <<Infer.type>> \o Drop(Len(Args(Node)))
    BY <1>2 DEF Return, Go, Err, Deref
  <2> QED
    BY <1>2, <2>1, <2>2, Returns
<1>3. CASE Visiting({"call"}) /\ ~IsIntrinsic /\ Calls(<<call, callee>>)
  <2>1. At("expr") /\ Kind(Node) = "call" /\ Calls(<<call, callee>>)
    BY <1>3 DEF Visiting
  <2>2. todo # << >> /\ Uses(Top) = 0 /\ Gives(Top) = 1 /\ Closes(Top) = 0
    BY <2>1, AtTop, EntryCounts
  <2>3. Node \in N /\ Callee(Node) \in N /\ Kind(Callee(Node)) \in Expressions
    BY <1>0, <2>1, <2>2, TopFacts, CallFacts
  <2>4. Entry(call) /\ call.do = "expr"
    BY <1>0, <2>3, AnEntry DEF Owners, Same, Places
  <2>5. Entry(callee) /\ callee.do = "callee"
    BY <1>0, <2>1, <2>3, AnEntry DEF Owners, Same, Places
  <2> HIDE DEF call, callee
  <2>6. /\ Uses(call) = 0 /\ Gives(call) = 1 /\ Closes(call) = 0
        /\ Uses(callee) = 1 /\ Gives(callee) = 1 /\ Closes(callee) = 0
    BY <2>4, <2>5, EntryCounts
  <2>7. Len(rets) \in Nat /\ Len(scopes) \in Nat
    BY <2>2, TopFits
  <2>8. Runs(<<call, callee>>, Len(rets), Len(scopes),
             Len(rets) - Uses(call) + Gives(call) - Uses(callee) + Gives(callee),
             Len(scopes) - Closes(call) - Closes(callee))
    BY <1>0, <2>4, <2>5, <2>6, <2>7, RunsTwo
  <2>9. /\ Len(rets) - Uses(call) + Gives(call) - Uses(callee) + Gives(callee) = Len(rets) - Uses(Top) + Gives(Top)
        /\ Len(scopes) - Closes(call) - Closes(callee) = Len(scopes) - Closes(Top)
    BY <2>2, <2>6, <2>7
  <2>10. Runs(<<call, callee>>, Len(rets), Len(scopes),
              Len(rets) - Uses(Top) + Gives(Top), Len(scopes) - Closes(Top))
    BY <2>8, <2>9
  <2> QED
    BY <2>1, <2>2, <2>10, Calling
<1>4. CASE /\ At("callee") /\ UNCHANGED scopes
           /\ \/ Return(1, Unknown, TRUE) /\ Deref({rets[1]})
              \/ Return(1, Result(rets[1]), TRUE) /\ UNCHANGED crashed
  <2>1. todo # << >> /\ Uses(Top) = 1 /\ Gives(Top) = 1 /\ Closes(Top) = 0
    BY <1>4, AtTop, EntryCounts
  <2>2. prog' = prog /\ todo' = << >> \o Tail(todo) /\ reported' \in BOOLEAN /\ crashed' \in BOOLEAN
        /\ \E t : rets' = <<t>> \o Drop(1)
    BY <1>4 DEF Return, Go, Err, Deref, Control, Shape
  <2> QED
    BY <1>4, <2>1, <2>2, Returns
<1>5. CASE /\ At("callee") /\ Go(Append(DoAll("expr", Args(Node), 0), args)) /\ rets' = Drop(1)
           /\ UNCHANGED <<prog, resolved, scopes, functions, funcRet, reported, crashed>>
  <2> DEFINE work == Append(DoAll("expr", Args(Node), 0), args)
  <2>1. todo # << >> /\ Uses(Top) = 1 /\ Gives(Top) = 1 /\ Closes(Top) = 0 /\ Top.do = "callee"
    BY <1>5, AtTop, EntryCounts
  <2>2. Node \in N /\ Kind(Node) = "call"
    BY <2>1, TopFacts
  <2>3. Entry(args) /\ args.do = "args" /\ args.n = Node
    BY <1>0, <2>2, AnEntry DEF Owners, Same, Places
  <2> HIDE DEF args
  <2>4. Uses(args) = Len(Args(Node)) /\ Gives(args) = 1 /\ Closes(args) = 0
    BY <2>3, EntryCounts
  <2>5. Args(Node) \in Seq(N) /\ \A k \in DOMAIN Args(Node) : Kind(Args(Node)[k]) \in Expressions
    BY <1>0, <2>2, CallFacts
  <2>6. Sequence(rets)' /\ Len(rets) \in Nat /\ Len(rets) >= 1 /\ Len(rets') = Len(rets) - 1
    BY <1>5, <2>1, DropOne
  <2>7. Len(scopes) \in Nat /\ Len(rets') \in Nat /\ Len(Args(Node)) \in Nat
    BY <2>1, <2>5, <2>6, TopFits
  <2>8. Runs(work, Len(rets'), Len(scopes),
             Len(rets') + Len(Args(Node)) - Uses(args) + Gives(args), Len(scopes))
    BY <1>0, <2>3, <2>4, <2>5, <2>7, RunsThen
  <2>9. /\ Len(rets') + Len(Args(Node)) - Uses(args) + Gives(args) = Len(rets) - Uses(Top) + Gives(Top)
        /\ Len(scopes) - Closes(Top) = Len(scopes)
    BY <2>1, <2>4, <2>6, <2>7
  <2>10. /\ todo' = work \o Tail(todo) /\ prog' = prog /\ scopes' = scopes
         /\ reported' \in BOOLEAN /\ crashed' \in BOOLEAN /\ Sequence(scopes)'
    BY <1>5 DEF Go, Control, Shape, Sequence
  <2> HIDE DEF work
  <2>11. Runs(work, Len(rets'), Len(scopes'), Len(rets) - Uses(Top) + Gives(Top), Len(scopes) - Closes(Top))
    BY <2>8, <2>9, <2>10
  <2> QED
    BY <2>1, <2>6, <2>10, <2>11, Proceed
<1>6. CASE /\ At("args") /\ UNCHANGED <<scopes, crashed>>
           /\ \E t, bad : Return(Len(Returned(Len(Args(Node)))), t, bad)
  <2>1. todo # << >> /\ Uses(Top) = Len(Args(Node)) /\ Gives(Top) = 1 /\ Closes(Top) = 0
        /\ Top.do = "args"
    BY <1>6, AtTop, EntryCounts
  <2>2. Node \in N /\ Kind(Node) = "call"
    BY <2>1, TopFacts
  <2>3. Len(Args(Node)) \in Nat /\ Len(Args(Node)) <= Len(rets)
    BY <1>0, <2>1, <2>2, CallFacts, TopFits
  <2>4. Len(Returned(Len(Args(Node)))) = Len(Args(Node))
    <3>1. PICK T : rets \in Seq(T)
      BY DEF Control, Sequence
    <3> QED
      BY <2>3, <3>1, ReturnedTypes
  <2>5. \E t, bad : Return(Len(Args(Node)), t, bad)
    BY <1>6, <2>4
  <2>6. prog' = prog /\ todo' = << >> \o Tail(todo) /\ reported' \in BOOLEAN /\ crashed' \in BOOLEAN
        /\ \E t : rets' = <<t>> \o Drop(Len(Args(Node)))
    BY <1>6, <2>5 DEF Return, Go, Err, Control, Shape
  <2> QED
    BY <1>6, <2>1, <2>6, Returns
<1> HIDE DEF intrinsic, callee, args, call
<1> QED
  BY <1>1, <1>2, <1>3, <1>4, <1>5, <1>6 DEF ResolveCall, intrinsic, callee, args, call

\* The children of an if, a for and a function.
LEMMA BranchFacts ==
  ASSUME prog \in Programs, NEW n \in N
  PROVE  /\ Kind(n) = "if" => /\ Cond(n) \in N /\ Kind(Cond(n)) \in Expressions
                              /\ HasElse(n) => Else(n) \in N /\ Kind(Else(n)) = "block"
         /\ Kind(n) = "for" => /\ Bounds(n) \in N /\ Kind(Bounds(n)) \in Expressions
                               /\ Inits(n) \in Seq(N) /\ Len(Inits(n)) = Len(Kids(n)) - 2
                               /\ \A k \in DOMAIN Inits(n) : Inits(n)[k] = Kids(n)[k + 2] /\ k + 2 \in DOMAIN Kids(n)
                                                             /\ Kind(Inits(n)[k]) \in Expressions
         /\ Kind(n) \in {"if", "for", "func"} => Body(n) \in N /\ Kind(Body(n)) = "block"
<1>1. Kids(n) \in Seq(N) /\ Len(Kids(n)) \in Nat
  BY NodeFacts
<1>2. CASE Kind(n) = "if"
  <2>1. Len(Kids(n)) \in {2, 3}
    BY <1>2, ChildKinds
  <2>2. 1 \in DOMAIN Kids(n) /\ 2 \in DOMAIN Kids(n) /\ (HasElse(n) => 3 \in DOMAIN Kids(n))
    BY <1>1, <2>1 DEF HasElse
  <2>3. Kind(Kids(n)[1]) \in Expressions /\ Kind(Kids(n)[2]) = "block" /\ (HasElse(n) => Kind(Kids(n)[3]) = "block")
    BY <1>2, <2>2, ChildKinds
  <2> QED
    BY <1>1, <1>2, <2>2, <2>3 DEF Cond, Body, Else
<1>3. CASE Kind(n) = "for"
  <2>1. Len(Kids(n)) >= 2
    BY <1>3, ChildKinds
  <2>2. 1 \in DOMAIN Kids(n) /\ 2 \in DOMAIN Kids(n)
    BY <1>1, <2>1
  <2>3. Kind(Kids(n)[1]) \in Expressions /\ Kind(Kids(n)[2]) = "block"
    BY <1>3, <2>2, ChildKinds
  <2>4. Inits(n) \in Seq(N) /\ Len(Inits(n)) = Len(Kids(n)) - 2
        /\ \A k \in DOMAIN Inits(n) : Inits(n)[k] = Kids(n)[k + 2] /\ k + 2 \in DOMAIN Kids(n) /\ k + 2 # 2
    <3> DEFINE s == Kids(n)
               i == SubSeq(s, 3, Len(s))
    <3>1. s \in Seq(N) /\ Len(s) \in Nat /\ Len(s) >= 2
      BY <1>1, <2>1
    <3> HIDE DEF s
    <3>2. i \in Seq(N)
      BY <3>1
    <3>3. Len(i) = Len(s) - 2
      <4>1. \A q \in Seq(N), m, l \in Nat : m = 3 /\ l <= Len(q) => Len(SubSeq(q, m, l)) = IF m <= l THEN l - m + 1 ELSE 0
        OBVIOUS
      <4>2. Len(i) = IF 3 <= Len(s) THEN Len(s) - 3 + 1 ELSE 0
        BY <3>1, <4>1
      <4> HIDE DEF i
      <4>3. \A l \in Nat : l >= 2 => (IF 3 <= l THEN l - 3 + 1 ELSE 0) = l - 2
        OBVIOUS
      <4> QED
        BY <3>1, <4>2, <4>3
    <3>4. \A k \in 1 .. Len(s) - 2 : i[k] = s[k + 2] /\ k + 2 \in DOMAIN s /\ k + 2 # 2
      BY <3>1
    <3>5. Inits(n) = i
      BY DEF Inits, s
    <3> HIDE DEF i
    <3> QED
      BY <3>2, <3>3, <3>4, <3>5 DEF s
  <2>5. \A k \in DOMAIN Inits(n) : Kind(Inits(n)[k]) \in Expressions
    BY <1>3, <2>4, ChildKinds
  <2> QED
    BY <1>1, <1>3, <2>2, <2>3, <2>4, <2>5 DEF Bounds, Body
<1>4. CASE Kind(n) = "func"
  <2>1. Len(Kids(n)) = 1
    BY <1>4, ChildKinds
  <2>2. 1 \in DOMAIN Kids(n)
    BY <1>1, <2>1
  <2>3. Kind(Kids(n)[1]) = "block"
    BY <1>4, <2>2, ChildKinds
  <2> QED
    BY <1>1, <1>4, <2>2, <2>3 DEF Body
<1> QED
  BY <1>2, <1>3, <1>4

\* A block and what comes after it.
LEMMA RunsBody ==
  ASSUME prog \in Programs, NEW n \in N, Kind(n) = "block", NEW e, Entry(e),
         NEW a \in Nat, NEW b \in Nat, Uses(e) = 0, Gives(e) = 1, Closes(e) <= b
  PROVE  Runs(<<Do("block", n, 0), e>>, a, b, a + 1, b - Closes(e))
<1> DEFINE block == Do("block", n, 0)
<1>1. Entry(block) /\ block.do = "block"
  BY AnEntry DEF Owners, Same, Places
<1> HIDE DEF block
<1>2. Uses(block) = 0 /\ Gives(block) = 0 /\ Closes(block) = 0
  BY <1>1, EntryCounts
<1>3. Closes(e) \in {0, 1}
  BY EntrySteps
<1>4. Runs(<<block, e>>, a, b, a - Uses(block) + Gives(block) - Uses(e) + Gives(e), b - Closes(block) - Closes(e))
  BY <1>1, <1>2, <1>3, RunsTwo
<1>5. a - Uses(block) + Gives(block) - Uses(e) + Gives(e) = a + 1 /\ b - Closes(block) - Closes(e) = b - Closes(e)
  BY <1>2, <1>3
<1> QED
  BY <1>4, <1>5 DEF block

\* An expression and what uses its type.
LEMMA RunsUse ==
  ASSUME prog \in Programs, NEW n \in N, Kind(n) \in Expressions, NEW e, Entry(e),
         NEW a \in Nat, NEW b \in Nat, Uses(e) = 1, Gives(e) = 1, Closes(e) = 0
  PROVE  Runs(<<Do("expr", n, 0), e>>, a, b, a + 1, b)
<1> DEFINE expr == Do("expr", n, 0)
<1>1. Entry(expr) /\ expr.do = "expr"
  BY AnEntry DEF Owners, Same, Places
<1> HIDE DEF expr
<1>2. Uses(expr) = 0 /\ Gives(expr) = 1 /\ Closes(expr) = 0
  BY <1>1, EntryCounts
<1>3. Runs(<<expr, e>>, a, b, a - Uses(expr) + Gives(expr) - Uses(e) + Gives(e), b - Closes(expr) - Closes(e))
  BY <1>1, <1>2, RunsTwo
<1>4. a - Uses(expr) + Gives(expr) - Uses(e) + Gives(e) = a + 1 /\ b - Closes(expr) - Closes(e) = b
  BY <1>2
<1> QED
  BY <1>3, <1>4 DEF expr

\* An if.
LEMMA IfControl ==
  ASSUME Control, ResolveIf
  PROVE  Control'
<1>0. prog \in Programs
  BY DEF Control, Shape
<1>1. CASE Visiting({"if"}) /\ Calls(<<Do("expr", Cond(Node), 0), Do("condition", Node, 0)>>)
  <2> DEFINE e == Do("condition", Node, 0)
  <2>1. At("expr") /\ Kind(Node) = "if" /\ Calls(<<Do("expr", Cond(Node), 0), e>>)
    BY <1>1 DEF Visiting
  <2>2. todo # << >> /\ Uses(Top) = 0 /\ Gives(Top) = 1 /\ Closes(Top) = 0
    BY <2>1, AtTop, EntryCounts
  <2>3. Node \in N /\ Cond(Node) \in N /\ Kind(Cond(Node)) \in Expressions
    BY <1>0, <2>1, <2>2, TopFacts, BranchFacts
  <2>4. Entry(e) /\ e.do = "condition"
    BY <1>0, <2>1, <2>3, AnEntry DEF Owners, Same, Places
  <2> HIDE DEF e
  <2>5. Uses(e) = 1 /\ Gives(e) = 1 /\ Closes(e) = 0
    BY <2>4, EntryCounts
  <2>6. Len(rets) \in Nat /\ Len(scopes) \in Nat
    BY <2>2, TopFits
  <2>7. Runs(<<Do("expr", Cond(Node), 0), e>>, Len(rets), Len(scopes), Len(rets) + 1, Len(scopes))
    BY <1>0, <2>3, <2>4, <2>5, <2>6, RunsUse
  <2>8. Len(rets) + 1 = Len(rets) - Uses(Top) + Gives(Top) /\ Len(scopes) = Len(scopes) - Closes(Top)
    BY <2>2, <2>6
  <2>9. Runs(<<Do("expr", Cond(Node), 0), e>>, Len(rets), Len(scopes),
             Len(rets) - Uses(Top) + Gives(Top), Len(scopes) - Closes(Top))
    BY <2>7, <2>8
  <2> QED
    BY <2>1, <2>2, <2>9, Calling
<1>2. CASE /\ At("condition")
           /\ Go(<<Do("block", Body(Node), 0), Do("then", Node, 0)>>)
           /\ rets' = Drop(1) /\ Err(rets[1] # Bool)
           /\ UNCHANGED <<prog, resolved, scopes, functions, funcRet, crashed>>
  <2> DEFINE e == Do("then", Node, 0)
  <2>1. todo # << >> /\ Uses(Top) = 1 /\ Gives(Top) = 1 /\ Closes(Top) = 0 /\ Top.do = "condition"
    BY <1>2, AtTop, EntryCounts
  <2>2. Node \in N /\ Kind(Node) = "if" /\ Body(Node) \in N /\ Kind(Body(Node)) = "block"
    BY <1>0, <2>1, TopFacts, BranchFacts
  <2>3. Entry(e) /\ e.do = "then"
    BY <1>0, <2>2, AnEntry DEF Owners, Same, Places
  <2>4. todo' = <<Do("block", Body(Node), 0), e>> \o Tail(todo) /\ prog' = prog /\ scopes' = scopes
        /\ reported' \in BOOLEAN /\ crashed' \in BOOLEAN /\ Sequence(scopes)'
    BY <1>2 DEF Go, Err, Control, Shape, Sequence
  <2> HIDE DEF e
  <2>5. Uses(e) = 0 /\ Gives(e) = 1 /\ Closes(e) = 0
    BY <2>3, EntryCounts
  <2>6. Sequence(rets)' /\ Len(rets) \in Nat /\ Len(rets) >= 1 /\ Len(rets') = Len(rets) - 1
    BY <1>2, <2>1, DropOne
  <2>7. Len(scopes) \in Nat /\ Len(rets') \in Nat
    BY <2>1, <2>6, TopFits
  <2>8. Runs(<<Do("block", Body(Node), 0), e>>, Len(rets'), Len(scopes), Len(rets') + 1, Len(scopes) - Closes(e))
    BY <1>0, <2>2, <2>3, <2>5, <2>7, RunsBody
  <2>9. Len(rets') + 1 = Len(rets) - Uses(Top) + Gives(Top) /\ Len(scopes) - Closes(e) = Len(scopes) - Closes(Top)
    BY <2>1, <2>5, <2>6, <2>7
  <2>10. Runs(<<Do("block", Body(Node), 0), e>>, Len(rets'), Len(scopes'),
              Len(rets) - Uses(Top) + Gives(Top), Len(scopes) - Closes(Top))
    BY <2>4, <2>8, <2>9
  <2> QED
    BY <2>1, <2>4, <2>6, <2>10, Proceed
<1>3. CASE /\ At("then") /\ HasElse(Node)
           /\ Go(<<Do("block", Else(Node), 0), Do("else", Node, 0)>>)
           /\ Err(ContainsReturn(Body(Node))) /\ UNCHANGED <<prog, rets, functions, funcRet>>
           /\ UNCHANGED <<scopes, crashed>>
  <2> DEFINE e == Do("else", Node, 0)
  <2>1. todo # << >> /\ Uses(Top) = 0 /\ Gives(Top) = 1 /\ Closes(Top) = 0 /\ Top.do = "then"
    BY <1>3, AtTop, EntryCounts
  <2>2. Node \in N /\ Kind(Node) = "if" /\ Else(Node) \in N /\ Kind(Else(Node)) = "block"
    BY <1>0, <1>3, <2>1, TopFacts, BranchFacts
  <2>3. Entry(e) /\ e.do = "else"
    BY <1>0, <1>3, <2>2, AnEntry DEF Owners, Same, Places
  <2>4. todo' = <<Do("block", Else(Node), 0), e>> \o Tail(todo) /\ prog' = prog /\ scopes' = scopes /\ rets' = rets
        /\ reported' \in BOOLEAN /\ crashed' \in BOOLEAN /\ Sequence(scopes)' /\ Sequence(rets)'
    BY <1>3 DEF Go, Err, Control, Shape, Sequence
  <2> HIDE DEF e
  <2>5. Uses(e) = 0 /\ Gives(e) = 1 /\ Closes(e) = 0
    BY <2>3, EntryCounts
  <2>7. Len(scopes) \in Nat /\ Len(rets) \in Nat
    BY <2>1, TopFits
  <2>8. Runs(<<Do("block", Else(Node), 0), e>>, Len(rets), Len(scopes), Len(rets) + 1, Len(scopes) - Closes(e))
    BY <1>0, <2>2, <2>3, <2>5, <2>7, RunsBody
  <2>9. Len(rets) + 1 = Len(rets) - Uses(Top) + Gives(Top) /\ Len(scopes) - Closes(e) = Len(scopes) - Closes(Top)
    BY <2>1, <2>5, <2>7
  <2>10. Runs(<<Do("block", Else(Node), 0), e>>, Len(rets'), Len(scopes'),
              Len(rets) - Uses(Top) + Gives(Top), Len(scopes) - Closes(Top))
    BY <2>4, <2>8, <2>9
  <2> QED
    BY <2>1, <2>4, <2>10, Proceed
<1>4. CASE /\ At("then") \/ At("else")
           /\ \E t, bad : Return(0, t, bad)
           /\ UNCHANGED <<scopes, crashed>>
  <2>1. todo # << >> /\ Uses(Top) = 0 /\ Gives(Top) = 1 /\ Closes(Top) = 0
    BY <1>4, AtTop, EntryCounts
  <2>2. prog' = prog /\ todo' = << >> \o Tail(todo) /\ reported' \in BOOLEAN /\ crashed' \in BOOLEAN
        /\ \E t : rets' = <<t>> \o Drop(0)
    BY <1>4 DEF Return, Go, Err, Control, Shape
  <2> QED
    BY <1>4, <2>1, <2>2, Returns
<1>5. CASE At("then") /\ HasElse(Node)
  <2>1. \/ At("else")
        \/ /\ Go(<<Do("block", Else(Node), 0), Do("else", Node, 0)>>)
           /\ Err(ContainsReturn(Body(Node))) /\ UNCHANGED <<prog, rets, functions, funcRet>>
           /\ UNCHANGED <<scopes, crashed>>
    BY <1>5 DEF ResolveIf, At, Visiting
  <2>2. ~At("else")
    BY <1>5 DEF At
  <2> QED
    BY <1>3, <1>5, <2>1, <2>2
<1>6. CASE At("then") /\ ~HasElse(Node)
  <2>1. UNCHANGED <<scopes, crashed>> /\ \E t, bad : Return(0, t, bad)
    BY <1>6 DEF ResolveIf, At, Visiting
  <2> QED
    BY <1>4, <1>6, <2>1
<1>7. CASE At("else")
  <2>1. UNCHANGED <<scopes, crashed>> /\ \E t, bad : Return(0, t, bad)
    BY <1>7 DEF ResolveIf, At, Visiting
  <2> QED
    BY <1>4, <1>7, <2>1
<1> QED
  BY <1>1, <1>2, <1>5, <1>6, <1>7 DEF ResolveIf

\* The initial values of a loop: each is resolved, and declared right after.
LEMMA RunsInits ==
  ASSUME prog \in Programs, Node \in N, Kind(Node) = "for", NEW a \in Nat, NEW b \in Nat
  PROVE  Runs(DoInits, a, b, a, b)
<1> DEFINE work == DoInits
           inits == Inits(Node)
<1>1. inits \in Seq(N) /\ Len(inits) \in Nat /\ \A k \in DOMAIN inits : Kind(inits[k]) \in Expressions
  BY BranchFacts
<1>2. ASSUME NEW j \in 1 .. 2 * Len(inits), j % 2 = 1
      PROVE  Entry(work[j]) /\ Uses(work[j]) = 0 /\ Gives(work[j]) = 1 /\ Closes(work[j]) = 0
  <2>1. (j + 1) \div 2 \in 1 .. Len(inits)
    BY <1>1, <1>2
  <2>2. inits[(j + 1) \div 2] \in N /\ Kind(inits[(j + 1) \div 2]) \in Expressions
    BY <1>1, <2>1
  <2>3. work[j] = Do("expr", inits[(j + 1) \div 2], 0)
    BY <1>2 DEF DoInits
  <2>4. "expr" \in Places /\ Owners("expr") = Expressions /\ "expr" \notin {"return", "expr_stmt", "else", "init"} /\ 0 \in Nat
    BY DEF Owners, Same, Places
  <2> HIDE DEF inits, work
  <2>5. Entry(work[j]) /\ work[j].do = "expr"
    BY <2>2, <2>3, <2>4, AnEntry
  <2> QED
    BY <2>5, EntryCounts
<1>3. ASSUME NEW j \in 1 .. 2 * Len(inits), j % 2 # 1
      PROVE  Entry(work[j]) /\ Uses(work[j]) = 1 /\ Gives(work[j]) = 0 /\ Closes(work[j]) = 0
  <2>1. j \div 2 \in 1 .. Len(inits) /\ j \div 2 \in Nat
    BY <1>1, <1>3
  <2>2. work[j] = Do("init", Node, j \div 2)
    BY <1>3 DEF DoInits
  <2>3. "init" \in Places /\ Kind(Node) \in Owners("init") /\ "init" \notin {"return", "expr_stmt"} /\ "init" # "else"
    BY DEF Owners, Same, Places
  <2>4. Entry(work[j]) /\ work[j].do = "init"
    BY <2>1, <2>2, <2>3, AnEntry
  <2> HIDE DEF work
  <2> QED
    BY <2>4, EntryCounts
<1>4. DOMAIN work = 1 .. 2 * Len(inits) /\ 2 * Len(inits) \in Nat
  BY <1>1 DEF DoInits
<1>5. work = [j \in 1 .. 2 * Len(inits) |-> work[j]]
  BY DEF DoInits
<1> HIDE DEF work, inits
<1>6. \A j \in 1 .. 2 * Len(inits) : Entry(work[j])
  BY <1>2, <1>3
<1>7. Frames(work) /\ Len(work) = 2 * Len(inits)
  BY <1>4, <1>5, <1>6, FramesOf
<1>8. \A j \in 1 .. Len(RetSteps(work)) : RetSteps(work)[j] = IF j % 2 = 1 THEN <<0, 1>> ELSE <<1, 0>>
  BY <1>2, <1>3, <1>7, StepsAreSteps DEF RetSteps
<1>9. \A j \in 1 .. Len(ScopeSteps(work)) : ScopeSteps(work)[j] = <<0, 0>>
  BY <1>2, <1>3, <1>7, StepsAreSteps DEF ScopeSteps
<1>10. Path(RetSteps(work), a, a)
  <2>1. Len(RetSteps(work)) = 2 * Len(inits) /\ RetSteps(work) \in Seq(Steps)
    BY <1>7, StepsAreSteps
  <2> QED
    BY <1>1, <1>8, <2>1, PathPairs
<1>11. Path(ScopeSteps(work), b, b)
  BY <1>7, <1>9, StepsAreSteps, PathUp
<1> QED
  BY <1>7, <1>10, <1>11 DEF Runs, work

\* A sequence with another first element.
LEMMA Replaced ==
  ASSUME NEW S, NEW s \in Seq(S), NEW v
  PROVE  /\ [s EXCEPT ![1] = v] = [k \in 1 .. Len(s) |-> IF k = 1 THEN v ELSE s[k]]
         /\ [s EXCEPT ![1] = v] \in Seq(S \cup {v}) /\ Len([s EXCEPT ![1] = v]) = Len(s)
<1> DEFINE r == [s EXCEPT ![1] = v]
<1>1. r = [k \in 1 .. Len(s) |-> IF k = 1 THEN v ELSE s[k]] /\ Len(s) \in Nat
  OBVIOUS
<1>2. \A k \in 1 .. Len(s) : r[k] \in S \cup {v}
  BY <1>1
<1> HIDE DEF r
<1>3. r \in Seq(S \cup {v}) /\ Len(r) = Len(s)
  BY <1>1, <1>2
<1> QED
  BY <1>1, <1>3 DEF r

\* Declaring names opens and closes no scope.
LEMMA RegistLen ==
  ASSUME Control, NEW names, NEW types, Regist(names, types)
  PROVE  Sequence(scopes)' /\ Len(scopes') = Len(scopes)
<1>1. PICK S : scopes \in Seq(S)
  BY DEF Control, Sequence
<1> DEFINE scope == Emplace(scopes[1], names, types)
<1>2. scopes' = [scopes EXCEPT ![1] = scope]
  BY DEF Regist
<1> HIDE DEF scope
<1>4. scopes' \in Seq(S \cup {scope}) /\ Len(scopes') = Len(scopes)
  BY <1>1, <1>2, Replaced
<1> QED
  BY <1>4 DEF Sequence

\* The head of a for loop.
LEMMA ForHeadControl ==
  ASSUME Control, ResolveForHead
  PROVE  Control'
<1>0. prog \in Programs
  BY DEF Control, Shape
<1>1. CASE Visiting({"for"}) /\ Calls(<<Do("expr", Bounds(Node), 0), Do("for", Node, 0)>>)
  <2> DEFINE e == Do("for", Node, 0)
  <2>1. At("expr") /\ Kind(Node) = "for" /\ Calls(<<Do("expr", Bounds(Node), 0), e>>)
    BY <1>1 DEF Visiting
  <2>2. todo # << >> /\ Uses(Top) = 0 /\ Gives(Top) = 1 /\ Closes(Top) = 0
    BY <2>1, AtTop, EntryCounts
  <2>3. Node \in N /\ Bounds(Node) \in N /\ Kind(Bounds(Node)) \in Expressions
    BY <1>0, <2>1, <2>2, TopFacts, BranchFacts
  <2>4. Entry(e) /\ e.do = "for"
    BY <1>0, <2>1, <2>3, AnEntry DEF Owners, Same, Places
  <2> HIDE DEF e
  <2>5. Uses(e) = 1 /\ Gives(e) = 1 /\ Closes(e) = 0
    BY <2>4, EntryCounts
  <2>6. Len(rets) \in Nat /\ Len(scopes) \in Nat
    BY <2>2, TopFits
  <2>7. Runs(<<Do("expr", Bounds(Node), 0), e>>, Len(rets), Len(scopes), Len(rets) + 1, Len(scopes))
    BY <1>0, <2>3, <2>4, <2>5, <2>6, RunsUse
  <2>8. Len(rets) + 1 = Len(rets) - Uses(Top) + Gives(Top) /\ Len(scopes) = Len(scopes) - Closes(Top)
    BY <2>2, <2>6
  <2>9. Runs(<<Do("expr", Bounds(Node), 0), e>>, Len(rets), Len(scopes),
             Len(rets) - Uses(Top) + Gives(Top), Len(scopes) - Closes(Top))
    BY <2>7, <2>8
  <2> QED
    BY <2>1, <2>2, <2>9, Calling
<1>2. CASE /\ At("for")
           /\ Go(DoInits \o <<Do("block", Body(Node), 0), Do("for_end", Node, 0)>>)
           /\ scopes' = <<[name \in {Names(Node)[1]} |-> rets[1]]>> \o scopes
           /\ rets' = Drop(1)
           /\ Err(rets[1] \notin Ints) /\ Deref({rets[1]} \ Ints)
           /\ UNCHANGED <<prog, functions, funcRet>>
  <2> DEFINE e == Do("for_end", Node, 0)
             work == DoInits \o <<Do("block", Body(Node), 0), e>>
             scope == [name \in {Names(Node)[1]} |-> rets[1]]
  <2>1. todo # << >> /\ Uses(Top) = 1 /\ Gives(Top) = 1 /\ Closes(Top) = 0 /\ Top.do = "for"
    BY <1>2, AtTop, EntryCounts
  <2>2. Node \in N /\ Kind(Node) = "for" /\ Body(Node) \in N /\ Kind(Body(Node)) = "block"
    BY <1>0, <2>1, TopFacts, BranchFacts DEF Same
  <2>3. Entry(e) /\ e.do = "for_end"
    BY <1>0, <2>2, AnEntry DEF Owners, Same, Places
  <2>4. todo' = work \o Tail(todo) /\ prog' = prog /\ scopes' = <<scope>> \o scopes
        /\ reported' \in BOOLEAN /\ crashed' \in BOOLEAN
    BY <1>2 DEF Go, Err, Deref
  <2> HIDE DEF e, scope
  <2>5. Uses(e) = 0 /\ Gives(e) = 1 /\ Closes(e) = 1
    BY <2>3, EntryCounts
  <2>6. Sequence(rets)' /\ Len(rets) \in Nat /\ Len(rets) >= 1 /\ Len(rets') = Len(rets) - 1
    BY <1>2, <2>1, DropOne
  <2>7. Len(scopes) \in Nat /\ Len(rets') \in Nat
    BY <2>1, <2>6, TopFits
  <2>8. Sequence(scopes)' /\ Len(scopes') = Len(scopes) + 1
    <3>1. PICK S : scopes \in Seq(S)
      BY DEF Control, Sequence
    <3>2. scopes \in Seq(S \cup {scope}) /\ <<scope>> \in Seq(S \cup {scope}) /\ Len(<<scope>>) = 1
      BY <3>1
    <3>3. scopes' \in Seq(S \cup {scope}) /\ Len(scopes') = 1 + Len(scopes)
      BY <2>4, <3>2
    <3> QED
      BY <2>7, <3>3 DEF Sequence
  <2>9. Len(scopes') \in Nat /\ Closes(e) <= Len(scopes')
    BY <2>5, <2>7, <2>8
  <2>10. Runs(<<Do("block", Body(Node), 0), e>>, Len(rets'), Len(scopes'), Len(rets') + 1, Len(scopes') - Closes(e))
    BY <1>0, <2>2, <2>3, <2>5, <2>7, <2>9, RunsBody
  <2>11. Runs(DoInits, Len(rets'), Len(scopes'), Len(rets'), Len(scopes'))
    BY <1>0, <2>2, <2>7, <2>9, RunsInits
  <2>12. Runs(work, Len(rets'), Len(scopes'), Len(rets') + 1, Len(scopes') - Closes(e))
    BY <1>0, <2>10, <2>11, RunsConcat
  <2>13. Len(rets') + 1 = Len(rets) - Uses(Top) + Gives(Top) /\ Len(scopes') - Closes(e) = Len(scopes) - Closes(Top)
    BY <2>1, <2>5, <2>6, <2>7, <2>8
  <2> HIDE DEF work
  <2>14. Runs(work, Len(rets'), Len(scopes'), Len(rets) - Uses(Top) + Gives(Top), Len(scopes) - Closes(Top))
    BY <2>12, <2>13
  <2> QED
    BY <2>1, <2>4, <2>6, <2>8, <2>14, Proceed
<1>3. CASE /\ At("init") /\ Go(<< >>) /\ rets' = Drop(1)
           /\ Regist(<<Names(Node)[1 + Head(todo).i]>>, <<rets[1]>>)
           /\ UNCHANGED <<prog, resolved, functions, funcRet, reported, crashed>>
  <2>1. todo # << >> /\ Uses(Top) = 1 /\ Gives(Top) = 0 /\ Closes(Top) = 0
    BY <1>3, AtTop, EntryCounts
  <2>2. Sequence(scopes)' /\ Len(scopes') = Len(scopes)
    BY <1>3, RegistLen
  <2>3. prog' = prog /\ todo' = << >> \o Tail(todo) /\ reported' \in BOOLEAN /\ crashed' \in BOOLEAN /\ rets' = Drop(1)
    BY <1>3 DEF Go, Control, Shape
  <2> QED
    BY <2>1, <2>2, <2>3, Leaves
<1> QED
  BY <1>1, <1>2, <1>3 DEF ResolveForHead

\* Its end.
LEMMA ForEndControl ==
  ASSUME Control, ResolveForEnd
  PROVE  Control'
<1>1. At("for_end") /\ scopes' = Tail(scopes) /\ crashed' \in BOOLEAN /\ \E t, bad : Return(0, t, bad)
  BY DEF ResolveForEnd, Deref, PopScope
<1>2. todo # << >> /\ Uses(Top) = 0 /\ Gives(Top) = 1 /\ Closes(Top) = 1
  BY <1>1, AtTop, EntryCounts
<1>3. prog' = prog /\ todo' = << >> \o Tail(todo) /\ reported' \in BOOLEAN /\ \E t : rets' = <<t>> \o Drop(0)
  BY <1>1 DEF Return, Go, Err
<1> QED
  BY <1>1, <1>2, <1>3, Returns

\* The values of a statement.
LEMMA ValuesControl ==
  ASSUME Control, ResolveValues
  PROVE  Control'
<1> DEFINE e == Do(Kind(Node), Node, 0)
<1>1. At("stmt") /\ Kind(Node) \in {"var", "yield", "expr_stmt", "return"} /\ Kids(Node) # << >>
      /\ Calls(Append(DoAll("expr", Kids(Node), 0), e))
  BY DEF ResolveValues
<1>2. todo # << >> /\ Uses(Top) = 0 /\ Gives(Top) = 0 /\ Closes(Top) = 0
  BY <1>1, AtTop, EntryCounts
<1>3. prog \in Programs /\ Node \in N /\ Kids(Node) \in Seq(N)
  BY <1>2, TopFacts
<1>4. Kind(Node) \in Owners(Kind(Node)) /\ Kind(Node) \in Places /\ Kind(Node) \notin {"else", "init"}
  BY <1>1 DEF Owners, Same, Places
<1>5. Entry(e) /\ e.do = Kind(Node) /\ e.n = Node
  BY <1>1, <1>3, <1>4, AnEntry
<1> HIDE DEF e
<1>6. Uses(e) = Len(Kids(Node)) /\ Gives(e) = 0 /\ Closes(e) = 0
  BY <1>1, <1>5, EntryCounts
<1>7. \A k \in DOMAIN Kids(Node) : Kind(Kids(Node)[k]) \in Expressions
  BY <1>1, <1>3, ChildKinds
<1>8. Len(rets) \in Nat /\ Len(scopes) \in Nat /\ Len(Kids(Node)) \in Nat
  BY <1>2, <1>3, TopFits
<1>9. Runs(Append(DoAll("expr", Kids(Node), 0), e), Len(rets), Len(scopes),
           Len(rets) + Len(Kids(Node)) - Uses(e) + Gives(e), Len(scopes))
  BY <1>3, <1>5, <1>6, <1>7, <1>8, RunsThen
<1>10. /\ Len(rets) + Len(Kids(Node)) - Uses(e) + Gives(e) = Len(rets) - Uses(Top) + Gives(Top)
       /\ Len(scopes) - Closes(Top) = Len(scopes)
  BY <1>2, <1>6, <1>8
<1>11. Runs(Append(DoAll("expr", Kids(Node), 0), e), Len(rets), Len(scopes),
            Len(rets) - Uses(Top) + Gives(Top), Len(scopes) - Closes(Top))
  BY <1>9, <1>10
<1> QED
  BY <1>1, <1>2, <1>11, Calling

\* A declaration of variables.
LEMMA VarControl ==
  ASSUME Control, ResolveVarDecl
  PROVE  Control'
<1>1. At("var") /\ crashed' \in BOOLEAN /\ (\E bad : Ends(1, bad))
      /\ (scopes' = scopes \/ \E names, types : Regist(names, types))
  BY DEF ResolveVarDecl, Deref
<1>2. todo # << >> /\ Uses(Top) = Len(Kids(Node)) /\ Gives(Top) = 0 /\ Closes(Top) = 0 /\ Top.do = "var"
  BY <1>1, AtTop, EntryCounts
<1>3. prog \in Programs /\ Node \in N /\ Kind(Node) = "var"
  BY <1>2, TopFacts DEF Same
<1>4. Len(Kids(Node)) = 1
  BY <1>3, ChildKinds
<1>5. Sequence(scopes)' /\ Len(scopes') = Len(scopes)
  <2>1. CASE scopes' = scopes
    BY <2>1 DEF Control, Sequence
  <2>2. CASE \E names, types : Regist(names, types)
    BY <2>2, RegistLen
  <2> QED
    BY <1>1, <2>1, <2>2
<1> QED
  BY <1>1, <1>2, <1>4, <1>5, Leaves DEF Ends, Go, Err

\* The statements that only use their values.
LEMMA StatementControl ==
  ASSUME Control, ResolveReturn \/ ResolveYield \/ ResolveExprStmt
  PROVE  Control'
<1>1. \/ At("stmt") /\ scopes' = scopes /\ crashed' = crashed /\ \E bad : Ends(0, bad)
      \/ At("stmt") /\ scopes' = scopes /\ crashed' \in BOOLEAN /\ Kids(Node) = << >> /\ \E bad : Ends(Len(Kids(Node)), bad)
      \/ At("return") /\ scopes' = scopes /\ crashed' \in BOOLEAN /\ \E bad : Ends(Len(Kids(Node)), bad)
      \/ At("yield") /\ scopes' = scopes /\ crashed' = crashed /\ \E bad : Ends(Len(Kids(Node)), bad)
      \/ At("expr_stmt") /\ scopes' = scopes /\ crashed' = crashed /\ \E bad : Ends(1, bad)
  BY DEF ResolveReturn, ResolveYield, ResolveExprStmt, Stating, Deref
<1>2. crashed \in BOOLEAN /\ Sequence(scopes)
  BY DEF Control, Shape
<1>3. scopes' = scopes => Sequence(scopes)' /\ Len(scopes') = Len(scopes)
  BY <1>2 DEF Sequence
<1>4. CASE At("stmt") /\ scopes' = scopes /\ crashed' \in BOOLEAN /\ \E bad : Ends(0, bad)
  <2>1. todo # << >> /\ Uses(Top) = 0 /\ Gives(Top) = 0 /\ Closes(Top) = 0
    BY <1>4, AtTop, EntryCounts
  <2> QED
    BY <1>3, <1>4, <2>1, Leaves DEF Ends, Go, Err
<1>5. CASE (At("return") \/ At("yield") \/ At("expr_stmt")) /\ scopes' = scopes /\ crashed' \in BOOLEAN
           /\ \E bad : Ends(Len(Kids(Node)), bad)
  <2>1. todo # << >> /\ Uses(Top) = Len(Kids(Node)) /\ Gives(Top) = 0 /\ Closes(Top) = 0
    BY <1>5, AtTop, EntryCounts
  <2> QED
    BY <1>3, <1>5, <2>1, Leaves DEF Ends, Go, Err
<1>6. At("expr_stmt") => Len(Kids(Node)) = 1
  <2> SUFFICES ASSUME At("expr_stmt") PROVE Len(Kids(Node)) = 1
    OBVIOUS
  <2>1. todo # << >> /\ Top.do = "expr_stmt"
    BY AtTop
  <2>2. prog \in Programs /\ Node \in N /\ Kind(Node) = "expr_stmt" /\ Kids(Node) # << >> /\ Kids(Node) \in Seq(N)
    BY <2>1, TopFacts DEF Same
  <2>3. Len(Kids(Node)) \in {0, 1}
    BY <2>2, ChildKinds
  <2> QED
    BY <2>2, <2>3
<1>7. Kids(Node) = << >> => Len(Kids(Node)) = 0
  OBVIOUS
<1> QED
  BY <1>1, <1>2, <1>4, <1>5, <1>6, <1>7

\* A new innermost scope.
LEMMA PushLen ==
  ASSUME Sequence(scopes), NEW scope, scopes' = <<scope>> \o scopes
  PROVE  Sequence(scopes)' /\ Len(scopes') \in Nat /\ Len(scopes') = Len(scopes) + 1
<1>1. PICK S : scopes \in Seq(S)
  BY DEF Sequence
<1>2. scopes \in Seq(S \cup {scope}) /\ <<scope>> \in Seq(S \cup {scope}) /\ Len(<<scope>>) = 1
  BY <1>1
<1>3. scopes' \in Seq(S \cup {scope}) /\ Len(scopes') = 1 + Len(scopes) /\ Len(scopes) \in Nat
  BY <1>2
<1> QED
  BY <1>3 DEF Sequence

\* A block.
LEMMA BlockControl ==
  ASSUME Control, ResolveBlock
  PROVE  Control'
<1>0. prog \in Programs
  BY DEF Control, Shape
<1> DEFINE e == Do("pop_scope", Node, 0)
<1>1. CASE /\ At("block") \/ Stating("block")
           /\ Go(Append(DoAll("stmt", Kids(Node), 0), e))
           /\ scopes' = <<<< >>>> \o scopes
           /\ UNCHANGED <<prog, resolved, rets, functions, funcRet, reported, crashed>>
  <2>1. todo # << >> /\ Uses(Top) = 0 /\ Gives(Top) = 0 /\ Closes(Top) = 0 /\ (Top.do = "block" \/ Kind(Node) = "block")
    BY <1>1, AtTop, EntryCounts DEF Stating
  <2>2. Node \in N /\ Kind(Node) = "block" /\ Kids(Node) \in Seq(N)
    BY <2>1, TopFacts
  <2>3. Entry(e) /\ e.do = "pop_scope"
    BY <1>0, <2>2, AnEntry DEF Owners, Same, Places
  <2>4. \A k \in DOMAIN Kids(Node) : Kind(Kids(Node)[k]) \in Statements
    BY <1>0, <2>2, ChildKinds
  <2>5. todo' = Append(DoAll("stmt", Kids(Node), 0), e) \o Tail(todo) /\ prog' = prog /\ rets' = rets
        /\ reported' \in BOOLEAN /\ crashed' \in BOOLEAN /\ Sequence(rets)' /\ scopes' = <<<< >>>> \o scopes
    BY <1>1 DEF Go, Control, Shape, Sequence
  <2> HIDE DEF e
  <2>6. Uses(e) = 0 /\ Gives(e) = 0 /\ Closes(e) = 1
    BY <2>3, EntryCounts
  <2>7. Len(rets) \in Nat /\ Len(scopes) \in Nat
    BY <2>1, TopFits
  <2>8. Sequence(scopes)' /\ Len(scopes') = Len(scopes) + 1
    BY <2>5, PushLen DEF Control
  <2>9. Runs(Append(DoAll("stmt", Kids(Node), 0), e), Len(rets), Len(scopes) + 1, Len(rets), Len(scopes))
    BY <1>0, <2>2, <2>3, <2>4, <2>6, <2>7, RunsBlock
  <2>10. Len(rets) = Len(rets) - Uses(Top) + Gives(Top) /\ Len(scopes) = Len(scopes) - Closes(Top)
    BY <2>1, <2>7
  <2>11. Runs(Append(DoAll("stmt", Kids(Node), 0), e), Len(rets'), Len(scopes'),
              Len(rets) - Uses(Top) + Gives(Top), Len(scopes) - Closes(Top))
    BY <2>5, <2>8, <2>9, <2>10
  <2> QED
    BY <2>1, <2>5, <2>8, <2>11, Proceed
<1>2. CASE At("pop_scope") /\ Ends(0, FALSE) /\ scopes' = Tail(scopes) /\ UNCHANGED <<resolved, crashed>>
  <2>1. todo # << >> /\ Uses(Top) = 0 /\ Gives(Top) = 0 /\ Closes(Top) = 1
    BY <1>2, AtTop, EntryCounts
  <2> QED
    BY <1>2, <2>1, Leaves DEF Ends, Go, Err, Control, Shape
<1> QED
  BY <1>1, <1>2 DEF ResolveBlock, PopScope

\* A function: its declaration, its body and its end.
LEMMA FuncControl ==
  ASSUME Control, ResolveFuncDecl \/ ResolveFuncBlock
  PROVE  Control'
<1>0. prog \in Programs
  BY DEF Control, Shape
<1> DEFINE e == Do("func_end", Node, 0)
           scope == FirstOf(functions[Name(Node)].args, Arguments(functions[Name(Node)].type))
<1>1. CASE /\ At("declare") /\ Go(<< >>) /\ (\E bad : Err(bad))
           /\ UNCHANGED <<prog, rets, scopes, funcRet, crashed>>
  <2>1. todo # << >> /\ Uses(Top) = 0 /\ Gives(Top) = 0 /\ Closes(Top) = 0
    BY <1>1, AtTop, EntryCounts
  <2>2. prog' = prog /\ todo' = << >> \o Tail(todo) /\ reported' \in BOOLEAN /\ crashed' \in BOOLEAN
        /\ rets' = rets /\ scopes' = scopes
    BY <1>1 DEF Go, Err, Control, Shape
  <2>3. Sequence(rets)' /\ Sequence(scopes)'
    BY <2>2 DEF Control, Sequence
  <2>4. Len(rets') = Len(rets) - Uses(Top) + Gives(Top) /\ Len(scopes') = Len(scopes) - Closes(Top)
    BY <2>1, <2>2, TopFits
  <2> QED
    BY <2>1, <2>2, <2>3, <2>4, Finish
<1>2. CASE /\ At("func")
           /\ scopes' = <<scope>> \o scopes
           /\ Go(Append(DoAll("stmt", Kids(Body(Node)), 1), e))
           /\ UNCHANGED <<prog, resolved, rets, functions, reported, crashed>>
  <2>1. todo # << >> /\ Uses(Top) = 0 /\ Gives(Top) = 0 /\ Closes(Top) = 0 /\ Top.do = "func"
    BY <1>2, AtTop, EntryCounts
  <2>2. Node \in N /\ Kind(Node) = "func"
    BY <2>1, TopFacts
  <2>3. Body(Node) \in N /\ Kind(Body(Node)) = "block" /\ Kids(Body(Node)) \in Seq(N)
    BY <1>0, <2>2, BranchFacts, NodeFacts
  <2>4. Entry(e) /\ e.do = "func_end"
    BY <1>0, <2>2, AnEntry DEF Owners, Same, Places
  <2>5. \A k \in DOMAIN Kids(Body(Node)) : Kind(Kids(Body(Node))[k]) \in Statements
    BY <1>0, <2>3, ChildKinds
  <2>6. todo' = Append(DoAll("stmt", Kids(Body(Node)), 1), e) \o Tail(todo) /\ prog' = prog /\ rets' = rets
        /\ reported' \in BOOLEAN /\ crashed' \in BOOLEAN /\ Sequence(rets)' /\ scopes' = <<scope>> \o scopes
    BY <1>2 DEF Go, Control, Shape, Sequence
  <2> HIDE DEF e, scope
  <2>7. Uses(e) = 0 /\ Gives(e) = 0 /\ Closes(e) = 1
    BY <2>4, EntryCounts
  <2>8. Len(rets) \in Nat /\ Len(scopes) \in Nat
    BY <2>1, TopFits
  <2>9. Sequence(scopes)' /\ Len(scopes') = Len(scopes) + 1
    BY <2>6, PushLen DEF Control
  <2>10. Runs(Append(DoAll("stmt", Kids(Body(Node)), 1), e), Len(rets), Len(scopes) + 1, Len(rets), Len(scopes))
    BY <1>0, <2>3, <2>4, <2>5, <2>7, <2>8, RunsBlock
  <2>11. Len(rets) = Len(rets) - Uses(Top) + Gives(Top) /\ Len(scopes) = Len(scopes) - Closes(Top)
    BY <2>1, <2>8
  <2>12. Runs(Append(DoAll("stmt", Kids(Body(Node)), 1), e), Len(rets'), Len(scopes'),
              Len(rets) - Uses(Top) + Gives(Top), Len(scopes) - Closes(Top))
    BY <2>6, <2>9, <2>10, <2>11
  <2> QED
    BY <2>1, <2>6, <2>9, <2>12, Proceed
<1>3. CASE At("func_end") /\ (\E bad : Ends(0, bad)) /\ scopes' = Tail(scopes) /\ UNCHANGED <<resolved, crashed>>
  <2>1. todo # << >> /\ Uses(Top) = 0 /\ Gives(Top) = 0 /\ Closes(Top) = 1
    BY <1>3, AtTop, EntryCounts
  <2> QED
    BY <1>3, <2>1, Leaves DEF Ends, Go, Err, Control, Shape
<1>4. CASE ResolveFuncDecl
  BY <1>1, <1>4 DEF ResolveFuncDecl
<1>5. CASE ResolveFuncBlock
  BY <1>2, <1>3, <1>5 DEF ResolveFuncBlock, PopScope
<1> QED
  BY <1>4, <1>5

-----------------------------------------------------------------------------
(* The scopes, and the types returned.                                     *)

\* The functions are declared, and then their bodies resolved.
LEMMA ControlInit ==
  ASSUME Init
  PROVE  Control
<1>1. prog \in Programs /\ rets = << >> /\ scopes = << >> /\ reported = FALSE /\ crashed = FALSE
      /\ todo = DoAll("declare", Funcs, 0) \o DoAll("func", Funcs, 0)
  BY DEF Init
<1>2. Funcs \in Seq(N) /\ \A k \in DOMAIN Funcs : Kind(Funcs[k]) = "func"
  <2>1. prog.funcs \in Seq(N) /\ \A n \in N : prog.node[n].kind = "func" <=> n \in Range(prog.funcs)
    BY <1>1, ProgramsAssumption DEF N
  <2>2. \A k \in DOMAIN prog.funcs : prog.funcs[k] \in N /\ prog.funcs[k] \in Range(prog.funcs)
    BY <2>1 DEF Range
  <2> QED
    BY <2>1, <2>2 DEF Funcs, Kind
<1>3. ASSUME NEW what \in {"declare", "func"}
      PROVE  Runs(DoAll(what, Funcs, 0), 0, 0, 0, 0)
  <2> DEFINE work == DoAll(what, Funcs, 0)
  <2>1. \A k \in DOMAIN Funcs : Entry(work[k]) /\ Uses(work[k]) = 0 /\ Gives(work[k]) = 0 /\ Closes(work[k]) = 0
    <3> SUFFICES ASSUME NEW k \in DOMAIN Funcs
                 PROVE  Entry(work[k]) /\ Uses(work[k]) = 0 /\ Gives(work[k]) = 0 /\ Closes(work[k]) = 0
      OBVIOUS
    <3>1. work[k] = Do(what, Funcs[k], 0) /\ Funcs[k] \in N /\ Kind(Funcs[k]) = "func"
      BY <1>2 DEF DoAll
    <3>2. what \in Places /\ Owners(what) = {"func"} /\ what \notin {"return", "expr_stmt", "else", "init"}
      BY <1>3 DEF Owners, Same, Places
    <3> HIDE DEF work
    <3>3. Entry(work[k]) /\ work[k].do = what
      BY <1>1, <3>1, <3>2, AnEntry
    <3> QED
      BY <3>3, EntryCounts
  <2>2. Frames(work) /\ Len(work) = Len(Funcs) /\ Len(Funcs) \in Nat /\ DOMAIN work = 1 .. Len(Funcs)
    <3>1. Len(Funcs) \in Nat /\ DOMAIN Funcs = 1 .. Len(Funcs)
      BY <1>2
    <3>2. work = [k \in 1 .. Len(Funcs) |-> work[k]]
      BY <3>1 DEF DoAll
    <3> HIDE DEF work
    <3> QED
      BY <2>1, <3>1, <3>2, FramesOf
  <2> HIDE DEF work
  <2>3. /\ \A k \in 1 .. Len(RetSteps(work)) : RetSteps(work)[k] = <<0, 0>>
        /\ \A k \in 1 .. Len(ScopeSteps(work)) : ScopeSteps(work)[k] = <<0, 0>>
    <3>1. Len(RetSteps(work)) = Len(work) /\ Len(ScopeSteps(work)) = Len(work)
      BY <1>1, <2>2, StepsAreSteps
    <3>2. DOMAIN Funcs = 1 .. Len(Funcs)
      BY <1>2
    <3>3. \A k \in DOMAIN work : Uses(work[k]) = 0 /\ Gives(work[k]) = 0 /\ Closes(work[k]) = 0
      BY <2>1, <2>2, <3>2
    <3> QED
      BY <2>2, <3>1, <3>3 DEF RetSteps, ScopeSteps
  <2>4. Path(RetSteps(work), 0, 0) /\ Path(ScopeSteps(work), 0, 0)
    BY <1>1, <2>2, <2>3, StepsAreSteps, PathUp
  <2> QED
    BY <2>2, <2>4 DEF Runs, work
<1>4. Runs(DoAll("declare", Funcs, 0) \o DoAll("func", Funcs, 0), 0, 0, 0, 0)
  BY <1>1, <1>3, RunsConcat
<1>5. Balanced /\ Frames(todo)
  BY <1>1, <1>4 DEF Balanced, Runs
<1>6. Sequence(rets) /\ Sequence(scopes)
  BY <1>1 DEF Sequence
<1> QED
  BY <1>1, <1>5, <1>6 DEF Control, Shape

\* Every step keeps the account.
LEMMA ControlNext ==
  ASSUME Control, [Next]_vars
  PROVE  Control'
<1>1. CASE Next
  BY <1>1, OperandsControl, LiteralControl, TensorControl, IdentifierControl, OperationControl, CallControl,
     IfControl, ForHeadControl, ForEndControl, ValuesControl, VarControl, StatementControl, BlockControl,
     FuncControl DEF Next
<1>2. CASE UNCHANGED vars
  <2>1. prog' = prog /\ todo' = todo /\ rets' = rets /\ scopes' = scopes /\ reported' = reported /\ crashed' = crashed
    BY <1>2 DEF vars
  <2>2. Runs(todo', Len(rets'), Len(scopes'), 0, 0) /\ Frames(todo')
    BY <2>1 DEF Control, Balanced, Shape
  <2>3. Balanced'
    BY <2>1, <2>2, SameProgram DEF Balanced
  <2>4. (Frames(todo))'
    BY <2>1, <2>2, SameProgram
  <2> QED
    BY <2>1, <2>3, <2>4 DEF Control, Shape, Sequence
<1> QED
  BY <1>1, <1>2

\* In every state, the calls on the stack fit the types and the scopes.
LEMMA Controlled == Spec => []Control
<1>1. Init => Control
  BY ControlInit
<1>2. Control /\ [Next]_vars => Control'
  BY ControlNext
<1> QED
  BY <1>1, <1>2, PTL DEF Spec

\* Semantic analysis closes every scope it opens, and uses every type returned.
THEOREM Scopes == Spec => []Closed
<1>1. Control => Closed
  <2> SUFFICES ASSUME Control, Done, ~crashed
               PROVE  scopes = << >> /\ rets = << >>
    BY DEF Closed
  <2>1. todo = << >> /\ Len(rets) \in Nat /\ Len(scopes) \in Nat
    BY DEF Done, Control, Sequence
  <2>2. RetSteps(todo) = << >> /\ ScopeSteps(todo) = << >>
    BY <2>1 DEF RetSteps, ScopeSteps
  <2>3. Path(<< >>, Len(rets), 0) /\ Path(<< >>, Len(scopes), 0)
    BY <2>2 DEF Control, Balanced, Runs
  <2>4. Len(rets) = 0 /\ Len(scopes) = 0
    BY <2>1, <2>3, PathEmpty
  <2> QED
    BY <2>4 DEF Control, Sequence
<1> QED
  BY <1>1, Controlled, PTL

\* A scope that a name is declared in keeps what it has.
LEMMA EmplaceKeeps ==
  ASSUME NEW scope, NEW names, NEW types, NEW name \in DOMAIN scope
  PROVE  /\ name \in DOMAIN Emplace(scope, names, types)
         /\ Emplace(scope, names, types)[name] = scope[name]
BY DEF Emplace

\* What a step does to the scopes: nothing, it opens one, closes the innermost, or declares names in it.
LEMMA ScopeChanges ==
  ASSUME Control, Next
  PROVE  \/ scopes' = scopes
         \/ \E scope : scopes' = <<scope>> \o scopes
         \/ scopes' = Tail(scopes) /\ Len(scopes) >= 1
         \/ \E names, types : scopes' = [scopes EXCEPT ![1] = Emplace(@, names, types)]
<1>1. CASE ResolveOperands \/ ResolveLiteral \/ ResolveTensor \/ ResolveIdentifier \/ ResolveBinary
           \/ ResolveUnary \/ ResolveIndexAccess \/ ResolveRange
  BY <1>1 DEF ResolveOperands, ResolveLiteral, ResolveTensor, ResolveIdentifier, ResolveBinary, ResolveUnary,
              ResolveIndexAccess, ResolveRange, Calls
<1>2. CASE ResolveCall \/ ResolveIf
  BY <1>2 DEF ResolveCall, ResolveIf, Calls
<1>3. CASE ResolveForHead
  BY <1>3 DEF ResolveForHead, Calls, Regist
<1>4. CASE ResolveForEnd
  <2>1. At("for_end") /\ scopes' = Tail(scopes)
    BY <1>4 DEF ResolveForEnd, PopScope
  <2>2. todo # << >> /\ Closes(Top) = 1
    BY <2>1, AtTop, EntryCounts
  <2> QED
    BY <2>1, <2>2, TopFits
<1>5. CASE ResolveValues \/ ResolveVarDecl \/ ResolveReturn \/ ResolveYield \/ ResolveExprStmt
  BY <1>5 DEF ResolveValues, ResolveVarDecl, ResolveReturn, ResolveYield, ResolveExprStmt, Calls, Regist
<1>6. CASE ResolveBlock
  <2>1. CASE At("pop_scope") /\ scopes' = Tail(scopes)
    <3>1. todo # << >> /\ Closes(Top) = 1
      BY <2>1, AtTop, EntryCounts
    <3> QED
      BY <2>1, <3>1, TopFits
  <2> QED
    BY <1>6, <2>1 DEF ResolveBlock, PopScope
<1>7. CASE ResolveFuncDecl
  BY <1>7 DEF ResolveFuncDecl
<1>8. CASE ResolveFuncBlock
  <2>1. CASE At("func_end") /\ scopes' = Tail(scopes)
    <3>1. todo # << >> /\ Closes(Top) = 1
      BY <2>1, AtTop, EntryCounts
    <3> QED
      BY <2>1, <3>1, TopFits
  <2> QED
    BY <1>8, <2>1 DEF ResolveFuncBlock, PopScope
<1> QED
  BY <1>1, <1>2, <1>3, <1>4, <1>5, <1>6, <1>7, <1>8 DEF Next

\* A sequence from its end.
LEMMA Backwards ==
  ASSUME NEW S, NEW s \in Seq(S), NEW d \in 1 .. Len(s)
  PROVE  Reverse(s)[d] = s[Len(s) - d + 1] /\ Len(s) - d + 1 \in 1 .. Len(s)
<1>1. Len(s) \in Nat /\ (Len(s) - d) + 1 = Len(s) - d + 1 /\ Len(s) - d + 1 \in 1 .. Len(s)
  OBVIOUS
<1> QED
  BY <1>1 DEF Reverse

\* The scopes that a step leaves open, counted from the outermost, keep what they had.
LEMMA Keeping ==
  ASSUME Control, [Next]_vars, NEW d \in 1 .. Len(scopes), d <= Len(scopes')
  PROVE  \A name \in DOMAIN (Reverse(scopes)[d]) :
           name \in DOMAIN (Reverse(scopes')[d]) /\ Reverse(scopes')[d][name] = Reverse(scopes)[d][name]
<1> DEFINE l == Len(scopes)
<1>1. PICK S : scopes \in Seq(S)
  BY DEF Control, Sequence
<1>2. l \in Nat /\ Reverse(scopes)[d] = scopes[l - d + 1] /\ l - d + 1 \in 1 .. l
  BY <1>1, Backwards
<1>3. CASE scopes' = scopes
  BY <1>3
<1>4. CASE \E scope : scopes' = <<scope>> \o scopes
  <2>1. PICK scope : scopes' = <<scope>> \o scopes
    BY <1>4
  <2>2. scopes \in Seq(S \cup {scope}) /\ <<scope>> \in Seq(S \cup {scope}) /\ Len(<<scope>>) = 1
    BY <1>1
  <2>3. scopes' \in Seq(S \cup {scope}) /\ Len(scopes') = 1 + l /\ \A k \in 1 .. l : scopes'[1 + k] = scopes[k]
    BY <2>1, <2>2
  <2>4. Reverse(scopes')[d] = scopes'[1 + l - d + 1]
    <3>1. d \in 1 .. Len(scopes')
      BY <1>2, <2>3
    <3>2. Reverse(scopes')[d] = scopes'[Len(scopes') - d + 1]
      BY <2>3, <3>1, Backwards
    <3> QED
      BY <2>3, <3>2
  <2>5. 1 + l - d + 1 = 1 + (l - d + 1)
    BY <1>2
  <2>6. Reverse(scopes')[d] = scopes[l - d + 1]
    BY <1>2, <2>3, <2>4, <2>5
  <2> QED
    BY <1>2, <2>6
<1>5. CASE scopes' = Tail(scopes) /\ l >= 1
  <2>1. scopes' \in Seq(S) /\ Len(scopes') = l - 1 /\ \A k \in 1 .. l - 1 : scopes'[k] = scopes[k + 1]
    BY <1>1, <1>2, <1>5
  <2>2. d \in 1 .. Len(scopes')
    BY <1>2, <2>1
  <2>3. Reverse(scopes')[d] = scopes'[Len(scopes') - d + 1] /\ Len(scopes') - d + 1 \in 1 .. Len(scopes')
    BY <2>1, <2>2, Backwards
  <2>4. Len(scopes') - d + 1 = l - d /\ (l - d) + 1 = l - d + 1
    BY <1>2, <2>1
  <2>5. l - d \in 1 .. l - 1
    BY <2>1, <2>3, <2>4
  <2>6. Reverse(scopes')[d] = scopes[(l - d) + 1]
    BY <2>1, <2>3, <2>4, <2>5
  <2> QED
    BY <1>2, <2>4, <2>6
<1>6. CASE \E names, types : scopes' = [scopes EXCEPT ![1] = Emplace(@, names, types)]
  <2>1. PICK names, types : scopes' = [scopes EXCEPT ![1] = Emplace(@, names, types)]
    BY <1>6
  <2> DEFINE scope == Emplace(scopes[1], names, types)
  <2>1a. scopes' = [scopes EXCEPT ![1] = scope]
    BY <2>1
  <2> HIDE DEF scope
  <2>2. scopes' = [k \in 1 .. l |-> IF k = 1 THEN scope ELSE scopes[k]]
    BY <1>1, <2>1a, Replaced
  <2>3. \A k \in 1 .. l : (IF k = 1 THEN scope ELSE scopes[k]) \in S \cup {scope}
    BY <1>1
  <2>4. scopes' \in Seq(S \cup {scope}) /\ Len(scopes') = l
    BY <1>2, <2>2, <2>3
  <2>5. Reverse(scopes')[d] = scopes'[l - d + 1]
    <3>1. d \in 1 .. Len(scopes')
      BY <2>4
    <3> QED
      BY <2>4, <3>1, Backwards
  <2>6. CASE l - d + 1 = 1
    <3>1. Reverse(scopes')[d] = scope /\ Reverse(scopes)[d] = scopes[1]
      BY <1>2, <2>2, <2>5, <2>6
    <3> QED
      BY <3>1, EmplaceKeeps DEF scope
  <2>7. CASE l - d + 1 # 1
    <3>1. Reverse(scopes')[d] = scopes[l - d + 1]
      BY <1>2, <2>2, <2>5, <2>7
    <3> QED
      BY <1>2, <3>1
  <2> QED
    BY <2>6, <2>7
<1> QED
  BY <1>3, <1>4, <1>5, <1>6, ScopeChanges DEF vars

\* Semantic analysis never changes what a name in an open scope means.
THEOREM Bindings == Spec => BindingsStay
<1>1. Control /\ [Next]_vars =>
        \A d \in 1 .. Len(scopes) :
          d <= Len(scopes') =>
            LET old == Reverse(scopes)[d]  new == Reverse(scopes')[d] IN
            \A name \in DOMAIN old : name \in DOMAIN new /\ new[name] = old[name]
  BY Keeping
<1> QED
  BY <1>1, Controlled, PTL DEF Spec, BindingsStay

-----------------------------------------------------------------------------
(* What the calls on the stack have still to give a type.                  *)

\* The nodes at or below n: those in every set that holds n and is closed
\* under children.
Below(n) ==
  {m \in N : \A C \in SUBSET N : n \in C /\ (\A c \in C : Range(Kids(c)) \subseteq C) => m \in C}

Valued == {n \in N : Kind(n) \in Expressions \cup {"var", "return", "yield"}}

\* The children that the rest of a procedure will visit, and the nodes that it
\* will itself give a type.
Pending(e) ==
  CASE e.do \in {"expr", "stmt", "block", "func"} -> DOMAIN Kids(e.n)
    [] e.do \in {"callee", "condition", "for"} -> DOMAIN Kids(e.n) \ {1}
    [] e.do = "then" -> DOMAIN Kids(e.n) \ {1, 2}
    [] OTHER -> {}
Sets(e) ==
  CASE e.do = "intrinsic" -> {e.n, Callee(e.n)}
    [] e.do \in {"init", "else", "pop_scope", "func_end", "declare", "func", "block"} -> {}
    [] OTHER -> {e.n}
Left(e) == Sets(e) \cup UNION {Below(Kids(e.n)[k]) : k \in Pending(e)}

\* The nodes whose types it reads.
Needs(e) ==
  CASE e.do = "then" -> IF FindYields(Body(e.n)) = {} THEN {} ELSE {FirstYield(Body(e.n))}
    [] e.do = "else" -> {e.n}
    [] e.do = "for_end" -> Range(Inits(e.n))
    [] OTHER -> {}

\* Node m has a type before the call at place p of s goes on.
Given(s, p, m) == resolved[m] # Null \/ \E q \in 1 .. p - 1 : m \in Left(s[q])

\* As long as there is no error, no call will read a type that is not there, and
\* in the end every type is there.
Ordered ==
  ~reported =>
    /\ \A p \in DOMAIN todo : \A m \in Needs(todo[p]) : Given(todo, p, m)
    /\ \A m \in Valued : Given(todo, Len(todo) + 1, m)

\* A node is below itself.
LEMMA BelowSelf ==
  ASSUME NEW n \in N
  PROVE  n \in Below(n)
BY DEF Below

\* Only nodes are below a node.
LEMMA BelowIsNodes ==
  ASSUME NEW n
  PROVE  Below(n) \subseteq N
BY DEF Below

\* The children of what is below n are below n.
LEMMA BelowClosed ==
  ASSUME prog \in Programs, NEW n, NEW m \in Below(n), NEW k \in DOMAIN Kids(m)
  PROVE  Kids(m)[k] \in Below(n)
<1>1. m \in N
  BY DEF Below
<1>2. Kids(m)[k] \in N
  BY <1>1, NodeFacts
<1>3. Kids(m)[k] \in Range(Kids(m))
  BY DEF Range
<1> QED
  BY <1>2, <1>3 DEF Below

\* What is below a node below n is below n.
LEMMA BelowIn ==
  ASSUME prog \in Programs, NEW n, NEW m \in Below(n)
  PROVE  Below(m) \subseteq Below(n)
<1> DEFINE C == Below(n)
<1>1. C \in SUBSET N
  BY DEF Below
<1>2. \A c \in C : Range(Kids(c)) \subseteq C
  BY BelowClosed DEF Range
<1> QED
  BY <1>1, <1>2 DEF Below

\* A node below n is n, or below a child of n.
LEMMA BelowSplit ==
  ASSUME prog \in Programs, NEW n \in N, NEW m \in Below(n), m # n
  PROVE  \E k \in DOMAIN Kids(n) : m \in Below(Kids(n)[k])
<1> DEFINE C == {n} \cup UNION {Below(Kids(n)[k]) : k \in DOMAIN Kids(n)}
<1>1. C \in SUBSET N /\ n \in C
  BY BelowIsNodes
<1>2. ASSUME NEW c \in C, NEW d \in Range(Kids(c))
      PROVE  d \in C
  <2>1. PICK j \in DOMAIN Kids(c) : d = Kids(c)[j]
    BY DEF Range
  <2>2. CASE c = n
    <3>1. Kids(n)[j] \in N
      BY <2>1, <2>2, NodeFacts
    <3>2. d \in Below(Kids(n)[j])
      BY <2>1, <2>2, <3>1, BelowSelf
    <3> QED
      BY <2>1, <2>2, <3>2
  <2>3. CASE c # n
    <3>1. PICK k \in DOMAIN Kids(n) : c \in Below(Kids(n)[k])
      BY <2>3
    <3>2. d \in Below(Kids(n)[k])
      BY <2>1, <3>1, BelowClosed
    <3> QED
      BY <3>2
  <2> QED
    BY <2>2, <2>3
<1>3. m \in C
  <2> HIDE DEF C
  <2> QED
    BY <1>1, <1>2 DEF Below
<1> QED
  BY <1>3

\* Every node is below a function.
LEMMA BelowFunc ==
  ASSUME prog \in Programs, NEW m \in N
  PROVE  \E f \in N : Kind(f) = "func" /\ m \in Below(f)
<1> DEFINE Lost == {n \in N : \A f \in N : Kind(f) = "func" => n \notin Below(f)}
<1> SUFFICES ASSUME Lost # {} PROVE FALSE
  OBVIOUS
<1>1. N = 1 .. Len(prog.node) /\ Len(prog.node) \in Nat
  BY ProgramsAssumption DEF N
<1>2. Lost \in SUBSET (0 .. Len(prog.node))
  BY <1>1
<1> HIDE DEF Lost
<1>3. PICK n \in Lost : \A l \in Lost : l <= n
  BY <1>1, <1>2, Greatest
<1>4. n \in N /\ \A f \in N : Kind(f) = "func" => n \notin Below(f)
  BY DEF Lost
<1>5. Kind(n) # "func"
  BY <1>4, BelowSelf
<1>6. PICK p \in N : n \in Range(Kids(p))
  BY <1>4, <1>5, ProgramsAssumption DEF N, Kind, Kids
<1>7. PICK k \in DOMAIN Kids(p) : n = Kids(p)[k]
  BY <1>6 DEF Range
<1>8. n \in 1 .. p - 1 /\ p \in Nat
  BY <1>6, <1>7, NodeFacts
<1>9. p \notin Lost
  BY <1>3, <1>8
<1>10. PICK f \in N : Kind(f) = "func" /\ p \in Below(f)
  BY <1>9 DEF Lost
<1>11. n \in Below(f)
  BY <1>7, <1>10, BelowClosed
<1> QED
  BY <1>4, <1>10, <1>11
\* What the program is does not change, and so neither does what calls visit.
LEMMA SameTree ==
  ASSUME prog' = prog
  PROVE  /\ Valued' = Valued
         /\ \A e : Left(e)' = Left(e) /\ Needs(e)' = Needs(e)
<1>1. N' = N /\ \A n : Kind(n)' = Kind(n) /\ Kids(n)' = Kids(n)
  BY DEF N, Kind, Kids
<1>2. Valued' = Valued
  BY <1>1 DEF Valued
<1>3. \A n : Below(n)' = Below(n)
  BY <1>1 DEF Below
<1>4. \A n : Callee(n)' = Callee(n) /\ Inits(n)' = Inits(n) /\ Body(n)' = Body(n)
  BY <1>1 DEF Callee, Inits, Body
<1>5. \A b : FindYields(b)' = FindYields(b) /\ FirstYield(b)' = FirstYield(b)
  BY <1>1 DEF FindYields, FirstYield
<1>6. \A e : Pending(e)' = Pending(e) /\ Sets(e)' = Sets(e)
  BY <1>1, <1>4 DEF Pending, Sets
<1>7. \A e : Left(e)' = Left(e)
  BY <1>1, <1>3, <1>6 DEF Left
<1>8. \A e : Needs(e)' = Needs(e)
  BY <1>4, <1>5 DEF Needs
<1> QED
  BY <1>2, <1>7, <1>8

\* No type is lost; work visits what the procedure on top had still to visit, and
\* reads only what is there.
Kept == \A m \in Valued : resolved[m] # Null => resolved'[m] # Null
Covers(work) ==
  \A m \in Valued \cap Left(Top) : resolved'[m] # Null \/ \E k \in DOMAIN work : m \in Left(work[k])
Meets(work) ==
  \A k \in DOMAIN work : \A m \in Needs(work[k]) :
    resolved'[m] # Null \/ \E q \in 1 .. k - 1 : m \in Left(work[q])

\* What is read has a type in a program without errors.
LEMMA NeedsValued ==
  ASSUME prog \in Programs, NEW e, Entry(e)
  PROVE  Needs(e) \subseteq Valued
<1>1. e.n \in N /\ Kind(e.n) \in Owners(e.do)
  BY DEF Entry
<1>2. CASE e.do = "then"
  <2>1. Kind(e.n) = "if"
    BY <1>1, <1>2 DEF Owners, Same
  <2>2. Body(e.n) \in N
    BY <1>1, <2>1, BranchFacts
  <2>3. CASE FindYields(Body(e.n)) # {}
    <3> DEFINE b == Body(e.n)
    <3>1. Kids(b) \in Seq(N) /\ FindYields(b) \in SUBSET Nat
      BY <2>2, NodeFacts DEF FindYields
    <3> HIDE DEF b
    <3>2. Min(FindYields(b)) \in FindYields(b)
      <4>1. PICK m \in FindYields(b) : \A n \in FindYields(b) : m <= n
        BY <2>3, <3>1, Least DEF b
      <4> QED
        BY <3>1, <4>1 DEF Min
    <3>3. FirstYield(b) \in N /\ Kind(FirstYield(b)) = "yield"
      BY <3>1, <3>2 DEF FirstYield, FindYields
    <3> QED
      BY <1>2, <2>3, <3>3 DEF Needs, Valued, b
  <2>4. CASE FindYields(Body(e.n)) = {}
    BY <1>2, <2>4 DEF Needs
  <2> QED
    BY <2>3, <2>4
<1>3. CASE e.do = "else"
  <2>1. Kind(e.n) = "if"
    BY <1>1, <1>3 DEF Owners, Same
  <2> QED
    BY <1>1, <1>3, <2>1 DEF Needs, Valued, Expressions
<1>4. CASE e.do = "for_end"
  <2>1. Kind(e.n) = "for"
    BY <1>1, <1>4 DEF Owners, Same
  <2>2. \A k \in DOMAIN Inits(e.n) : Inits(e.n)[k] \in N /\ Kind(Inits(e.n)[k]) \in Expressions
    BY <1>1, <2>1, BranchFacts
  <2> QED
    BY <1>4, <2>2 DEF Needs, Valued, Range
<1>5. CASE e.do \notin {"then", "else", "for_end"}
  BY <1>5 DEF Needs
<1> QED
  BY <1>2, <1>3, <1>4, <1>5

\* Such a step leaves every call what it needs.
LEMMA Onward ==
  ASSUME Control, Ordered, todo # << >>, NEW work, Frames(work), todo' = work \o Tail(todo), prog' = prog,
         reported => reported', ~reported' => Kept /\ Covers(work) /\ Meets(work)
  PROVE  Ordered'
<1> SUFFICES ASSUME ~reported'
             PROVE  /\ \A p \in DOMAIN todo' : \A m \in Needs(todo'[p]) : Given(todo, p, m)'
                    /\ \A m \in Valued : Given(todo, Len(todo) + 1, m)'
  BY SameTree DEF Ordered
<1> DEFINE w == Len(work)
           l == Len(todo)
<1>1. prog \in Programs /\ Frames(todo)
  BY DEF Control, Shape
<1>2. /\ Frames(Tail(todo)) /\ Entry(Top) /\ Top = todo[1] /\ l \in Nat /\ l >= 1 /\ DOMAIN todo = 1 .. l
      /\ Len(Tail(todo)) = l - 1
      /\ \A k \in 1 .. l - 1 : Tail(todo)[k] = todo[k + 1]
  BY <1>1, FramesTail DEF Top
<1>3. /\ w \in Nat /\ Len(todo') = w + (l - 1) /\ DOMAIN work = 1 .. w /\ DOMAIN todo' = 1 .. w + (l - 1)
      /\ \A k \in 1 .. w : todo'[k] = work[k]
      /\ \A k \in 1 .. l - 1 : todo'[w + k] = todo[k + 1]
  BY <1>2, FramesConcat
<1>4. \A p, m : Given(todo, p, m)' <=> resolved'[m] # Null \/ \E q \in 1 .. p - 1 : m \in Left(todo'[q])
  BY SameTree DEF Given
<1> HIDE DEF w, l
\* What was given before place p is given before the place it has moved to.
<1>5. ASSUME NEW p \in 2 .. l + 1, NEW m \in Valued, Given(todo, p, m)
      PROVE  resolved'[m] # Null \/ \E q \in 1 .. (w + p - 1) - 1 : m \in Left(todo'[q])
  <2>1. CASE resolved[m] # Null
    BY <2>1 DEF Kept
  <2>2. CASE \E q \in 1 .. p - 1 : m \in Left(todo[q])
    <3>1. PICK q \in 1 .. p - 1 : m \in Left(todo[q])
      BY <2>2
    <3>2. CASE q = 1
      <4>1. resolved'[m] # Null \/ \E k \in 1 .. w : m \in Left(work[k])
        BY <1>2, <1>3, <3>1, <3>2 DEF Covers
      <4>2. \A k \in 1 .. w : k \in 1 .. (w + p - 1) - 1
        BY <1>2, <1>3
      <4> QED
        BY <1>3, <4>1, <4>2
    <3>3. CASE q # 1
      <4>1. q - 1 \in 1 .. l - 1 /\ (q - 1) + 1 = q /\ w + (q - 1) \in 1 .. (w + p - 1) - 1
        BY <1>2, <1>3, <3>3
      <4>2. todo'[w + (q - 1)] = todo[q]
        BY <1>3, <4>1
      <4> QED
        BY <3>1, <4>1, <4>2
    <3> QED
      BY <3>2, <3>3
  <2>3. resolved[m] # Null \/ \E q \in 1 .. p - 1 : m \in Left(todo[q])
    BY <1>5 DEF Given
  <2> QED
    BY <2>1, <2>2, <2>3
<1>6. ASSUME NEW p \in DOMAIN todo', NEW m \in Needs(todo'[p])
      PROVE  Given(todo, p, m)'
  <2>1. CASE p \in 1 .. w
    <3>1. resolved'[m] # Null \/ \E q \in 1 .. p - 1 : m \in Left(work[q])
      BY <1>3, <1>6, <2>1 DEF Meets
    <3>2. \A q \in 1 .. p - 1 : todo'[q] = work[q]
      BY <1>3, <2>1
    <3> QED
      BY <1>4, <3>1, <3>2
  <2>2. CASE p \notin 1 .. w
    <3>1. p - w \in 1 .. l - 1 /\ w + (p - w) = p /\ p - w + 1 \in 2 .. l + 1 /\ w + (p - w + 1) - 1 = p
          /\ p - w + 1 \in 1 .. l
      BY <1>2, <1>3, <2>2
    <3>2. todo'[p] = todo[p - w + 1]
      BY <1>3, <3>1
    <3>3. Given(todo, p - w + 1, m)
      BY <1>2, <1>6, <3>1, <3>2 DEF Ordered
    <3>4. m \in Valued
      <4>1. Entry(todo[p - w + 1])
        BY <1>1, <1>2, <3>1 DEF Frames
      <4> QED
        BY <1>1, <1>6, <3>2, <4>1, NeedsValued
    <3>5. resolved'[m] # Null \/ \E q \in 1 .. (w + (p - w + 1) - 1) - 1 : m \in Left(todo'[q])
      BY <1>5, <3>1, <3>3, <3>4
    <3> QED
      BY <1>4, <3>1, <3>5
  <2> QED
    BY <2>1, <2>2
<1>7. ASSUME NEW m \in Valued
      PROVE  Given(todo, Len(todo) + 1, m)'
  <2>1. Given(todo, l + 1, m)
    BY DEF Ordered, l
  <2>2. l + 1 \in 2 .. l + 1 /\ w + (l + 1) - 1 = (w + (l - 1)) + 1
    BY <1>2, <1>3
  <2>3. resolved'[m] # Null \/ \E q \in 1 .. (w + (l + 1) - 1) - 1 : m \in Left(todo'[q])
    BY <1>5, <2>1, <2>2
  <2>4. (w + (l + 1) - 1) - 1 = (Len(todo') + 1) - 1
    BY <1>2, <1>3
  <2> QED
    BY <1>4, <2>3, <2>4
<1> QED
  BY <1>6, <1>7
\* What the calls of work have still to give a type.
In(work, m) == \E k \in DOMAIN work : m \in Left(work[k])

\* What calls have left, sequence by sequence.
LEMMA InConcat ==
  ASSUME NEW v, NEW w, Frames(v), Frames(w), NEW m
  PROVE  In(v \o w, m) <=> In(v, m) \/ In(w, m)
<1> DEFINE a == Len(v)
           b == Len(w)
<1>1. /\ a \in Nat /\ b \in Nat /\ DOMAIN v = 1 .. a /\ DOMAIN w = 1 .. b /\ DOMAIN (v \o w) = 1 .. a + b
      /\ \A k \in 1 .. a : (v \o w)[k] = v[k]
      /\ \A k \in 1 .. b : (v \o w)[a + k] = w[k]
  BY FramesConcat
<1> HIDE DEF a, b
<1>2. ASSUME In(v \o w, m)
      PROVE  In(v, m) \/ In(w, m)
  <2>1. PICK k \in 1 .. a + b : m \in Left((v \o w)[k])
    BY <1>1, <1>2 DEF In
  <2>2. CASE k <= a
    <3>1. k \in 1 .. a
      BY <1>1, <2>2
    <3> QED
      BY <1>1, <2>1, <3>1 DEF In
  <2>3. CASE k > a
    <3>1. k - a \in 1 .. b /\ a + (k - a) = k
      BY <1>1, <2>3
    <3>2. (v \o w)[k] = w[k - a]
      BY <1>1, <3>1
    <3> QED
      BY <1>1, <2>1, <3>1, <3>2 DEF In
  <2> QED
    BY <1>1, <2>2, <2>3
<1>3. ASSUME In(v, m)
      PROVE  In(v \o w, m)
  <2>1. PICK k \in 1 .. a : m \in Left(v[k])
    BY <1>1, <1>3 DEF In
  <2>2. k \in 1 .. a + b
    BY <1>1
  <2> QED
    BY <1>1, <2>1, <2>2 DEF In
<1>4. ASSUME In(w, m)
      PROVE  In(v \o w, m)
  <2>1. PICK k \in 1 .. b : m \in Left(w[k])
    BY <1>1, <1>4 DEF In
  <2>2. a + k \in 1 .. a + b
    BY <1>1
  <2> QED
    BY <1>1, <2>1, <2>2 DEF In
<1> QED
  BY <1>2, <1>3, <1>4

\* One call.
LEMMA InOne ==
  ASSUME NEW e, NEW m
  PROVE  In(<<e>>, m) <=> m \in Left(e)
<1>1. DOMAIN <<e>> = 1 .. 1 /\ <<e>>[1] = e /\ 1 \in 1 .. 1 /\ \A k \in 1 .. 1 : k = 1
  OBVIOUS
<1> QED
  BY <1>1 DEF In

\* A call for each node.
LEMMA InAll ==
  ASSUME NEW what, NEW nodes, NEW i, NEW m
  PROVE  In(DoAll(what, nodes, i), m) <=> \E k \in DOMAIN nodes : m \in Left(Do(what, nodes[k], i))
BY DEF In, DoAll

\* Calls that read no types, and then one that reads what they give, or what is there.
LEMMA MeetsLast ==
  ASSUME NEW v, Frames(v), NEW e, Entry(e), \A k \in DOMAIN v : Needs(v[k]) = {},
         \A m \in Needs(e) : resolved'[m] # Null \/ In(v, m)
  PROVE  /\ Frames(v \o <<e>>) /\ Meets(v \o <<e>>)
         /\ \A m : In(v \o <<e>>, m) <=> In(v, m) \/ m \in Left(e)
<1> DEFINE a == Len(v)
           w == <<e>>
<1>1. Frames(w) /\ Len(w) = 1 /\ w[1] = e
  BY FramesOne
<1>2. /\ a \in Nat /\ DOMAIN v = 1 .. a /\ DOMAIN (v \o w) = 1 .. a + Len(w) /\ Frames(v \o w)
      /\ \A k \in 1 .. a : (v \o w)[k] = v[k]
      /\ \A k \in 1 .. Len(w) : (v \o w)[a + k] = w[k]
  BY <1>1, FramesConcat
<1> HIDE DEF a, w
<1>3. DOMAIN (v \o w) = 1 .. a + 1 /\ (v \o w)[a + 1] = e
  BY <1>1, <1>2
<1>4. Meets(v \o w)
  <2> SUFFICES ASSUME NEW k \in 1 .. a + 1, NEW m \in Needs((v \o w)[k])
               PROVE  resolved'[m] # Null \/ \E q \in 1 .. k - 1 : m \in Left((v \o w)[q])
    BY <1>3 DEF Meets
  <2>1. k = a + 1
    <3>1. k \in 1 .. a \/ k = a + 1
      BY <1>2
    <3>2. k \notin 1 .. a
      BY <1>2
    <3> QED
      BY <3>1, <3>2
  <2>2. resolved'[m] # Null \/ In(v, m)
    BY <1>3, <2>1
  <2>3. k - 1 = a
    BY <1>2, <2>1
  <2> QED
    BY <1>2, <2>2, <2>3 DEF In
<1>5. \A m : In(v \o w, m) <=> In(v, m) \/ In(w, m)
  BY <1>1, InConcat
<1>6. \A m : In(w, m) <=> m \in Left(e)
  BY InOne DEF w
<1> QED
  BY <1>2, <1>4, <1>5, <1>6 DEF w

\* A procedure that goes on after other calls.
LEMMA OnwardThen ==
  ASSUME Control, Ordered, todo # << >>, NEW v, Frames(v), NEW e, Entry(e), todo' = (v \o <<e>>) \o Tail(todo),
         prog' = prog, reported => reported', \A k \in DOMAIN v : Needs(v[k]) = {},
         ~reported' => /\ Kept
                       /\ \A m \in Needs(e) : resolved'[m] # Null \/ In(v, m)
                       /\ \A m \in Valued \cap Left(Top) : resolved'[m] # Null \/ In(v, m) \/ m \in Left(e)
  PROVE  Ordered'
<1> DEFINE work == v \o <<e>>
<1>1. Frames(work)
  BY FramesOne, FramesConcat
<1>2. ASSUME ~reported'
      PROVE  Kept /\ Covers(work) /\ Meets(work)
  <2>1. Meets(work) /\ \A m : In(work, m) <=> In(v, m) \/ m \in Left(e)
    BY <1>2, MeetsLast
  <2> HIDE DEF work
  <2>2. Covers(work)
    BY <1>2, <2>1 DEF Covers, In
  <2> QED
    BY <1>2, <2>1, <2>2
<1> QED
  BY <1>1, <1>2, Onward

\* A procedure that ends.
LEMMA OnwardEnd ==
  ASSUME Control, Ordered, todo # << >>, todo' = << >> \o Tail(todo), prog' = prog, reported => reported',
         ~reported' => Kept /\ \A m \in Valued \cap Left(Top) : resolved'[m] # Null
  PROVE  Ordered'
<1>1. Frames(<< >>) /\ DOMAIN << >> = {}
  BY RunsNone DEF Runs
<1>2. ASSUME ~reported'
      PROVE  Kept /\ Covers(<< >>) /\ Meets(<< >>)
  BY <1>1, <1>2 DEF Covers, Meets
<1> QED
  BY <1>1, <1>2, Onward

\* What is left at each place.
LEMMA LeftFacts ==
  ASSUME prog \in Programs, NEW e, Entry(e)
  PROVE  /\ e.do \in {"expr", "stmt", "block", "func"} =>
              /\ \A m \in Valued : m \in Left(e) <=> m \in Below(e.n)
              /\ \A m \in Valued : m \in Left(e) <=> m = e.n \/ \E k \in DOMAIN Kids(e.n) : m \in Below(Kids(e.n)[k])
         /\ e.do \in {"tensor", "arith", "cmp", "neg", "index", "range", "args", "for_end", "var", "return", "yield",
                      "expr_stmt"} => Left(e) = {e.n}
         /\ e.do = "intrinsic" => Left(e) = {e.n, Callee(e.n)}
         /\ e.do \in {"init", "else", "pop_scope", "func_end", "declare"} => Left(e) = {}
         /\ e.do \in {"callee", "condition", "for"} =>
              Left(e) = {e.n} \cup UNION {Below(Kids(e.n)[k]) : k \in DOMAIN Kids(e.n) \ {1}}
         /\ e.do = "then" => Left(e) = {e.n} \cup UNION {Below(Kids(e.n)[k]) : k \in DOMAIN Kids(e.n) \ {1, 2}}
         /\ e.do \notin {"then", "else", "for_end"} => Needs(e) = {}
<1>1. e.n \in N /\ e.do \in Places /\ Kind(e.n) \in Owners(e.do)
  BY DEF Entry
<1>2. ASSUME e.do \in {"expr", "stmt", "block", "func"}
      PROVE  /\ \A m \in Valued : m \in Left(e) <=> m \in Below(e.n)
             /\ \A m \in Valued : m \in Left(e) <=> m = e.n \/ \E k \in DOMAIN Kids(e.n) : m \in Below(Kids(e.n)[k])
  <2>1. Pending(e) = DOMAIN Kids(e.n)
    BY <1>2 DEF Pending
  <2>2. e.do \in {"expr", "stmt"} => Sets(e) = {e.n}
    BY DEF Sets
  <2>3. e.do \in {"block", "func"} => Sets(e) = {} /\ e.n \notin Valued
    BY <1>1 DEF Sets, Owners, Same, Valued, Expressions
  <2>4. \A m \in Valued : m \in Left(e) <=> m = e.n \/ \E k \in DOMAIN Kids(e.n) : m \in Below(Kids(e.n)[k])
    BY <1>2, <2>1, <2>2, <2>3 DEF Left
  <2>5. \A m \in Below(e.n) : m # e.n => \E k \in DOMAIN Kids(e.n) : m \in Below(Kids(e.n)[k])
    BY <1>1, BelowSplit
  <2>6. \A k \in DOMAIN Kids(e.n) : Below(Kids(e.n)[k]) \subseteq Below(e.n)
    BY <1>1, BelowSelf, BelowClosed, BelowIn
  <2>7. e.n \in Below(e.n)
    BY <1>1, BelowSelf
  <2> QED
    BY <2>4, <2>5, <2>6, <2>7
<1>3. e.do \in {"tensor", "arith", "cmp", "neg", "index", "range", "args", "for_end", "var", "return", "yield",
                "expr_stmt"} => Left(e) = {e.n}
  BY DEF Left, Sets, Pending
<1>4. e.do = "intrinsic" => Left(e) = {e.n, Callee(e.n)}
  BY DEF Left, Sets, Pending
<1>5. e.do \in {"init", "else", "pop_scope", "func_end", "declare"} => Left(e) = {}
  BY DEF Left, Sets, Pending
<1>6. e.do \in {"callee", "condition", "for"} =>
        Left(e) = {e.n} \cup UNION {Below(Kids(e.n)[k]) : k \in DOMAIN Kids(e.n) \ {1}}
  BY DEF Left, Sets, Pending
<1>7. e.do = "then" => Left(e) = {e.n} \cup UNION {Below(Kids(e.n)[k]) : k \in DOMAIN Kids(e.n) \ {1, 2}}
  BY DEF Left, Sets, Pending
<1>8. e.do \notin {"then", "else", "for_end"} => Needs(e) = {}
  BY DEF Needs
<1> QED
  BY <1>2, <1>3, <1>4, <1>5, <1>6, <1>7, <1>8
-----------------------------------------------------------------------------
(* The types that semantic analysis holds.                                 *)

\* A set of types, of the constructors cons, that holds the parts of its members.
Kit(K, cons) ==
  \A t \in K : t.con \in cons /\ t.parts \in Seq(K) /\ (t.con = "function" => t.parts # << >>)

\* A type without an object is around only after an error.
Here == IF reported THEN Constructors ELSE Constructors \ {"null"}

\* What functions has of a function.
Signature(f, K) ==
  f.type \in K /\ f.type.con = "function" /\ Sequence(f.args) /\ Len(f.args) = Len(Arguments(f.type))

\* The types of K can be held now.
Suits(K) == Kit(K, Here) /\ {Void, Unknown} \subseteq K /\ (reported => Null \in K)

Typing(K) ==
  /\ Suits(K)
  /\ rets \in Seq(K) /\ funcRet \in K /\ resolved \in [N -> K \cup {Null}]
  /\ \A s \in DOMAIN scopes : \A name \in DOMAIN scopes[s] : scopes[s][name] \in K
  /\ \A name \in DOMAIN functions : Signature(functions[name], K)
  /\ \A k \in DOMAIN todo : todo[k].do = "args" => todo[k].i \in K /\ todo[k].i.con = "function"

Typed == \E K : Typing(K)

\* A type that can join those of K after a step.
Fits(t, K) ==
  \/ t \in K
  \/ /\ t.con \in Constructors /\ (t.con = "null" => reported')
     /\ t.parts \in Seq(K) /\ (t.con = "function" => t.parts # << >>)

\* A type with more members is still of its constructors and has its parts.
LEMMA Widen ==
  ASSUME reported \in BOOLEAN, reported' \in BOOLEAN, reported => reported', NEW K, Suits(K),
         NEW T, \A t \in T : Fits(t, K)
  PROVE  \E L : K \subseteq L /\ T \subseteq L /\ Suits(L)'
<1>0. Here' = IF reported' THEN Constructors ELSE Constructors \ {"null"}
  BY DEF Here
<1>1. Here \subseteq Here' /\ Kit(K, Here)
  BY <1>0 DEF Here, Suits
<1>2. ASSUME NEW U, \A t \in U : Fits(t, K)
      PROVE  Kit(K \cup U, Here')
  <2> DEFINE L == K \cup U
  <2> SUFFICES ASSUME NEW t \in L
               PROVE  t.con \in Here' /\ t.parts \in Seq(L) /\ (t.con = "function" => t.parts # << >>)
    BY DEF Kit
  <2>1. \A s \in Seq(K) : s \in Seq(L)
    OBVIOUS
  <2> HIDE DEF L
  <2>2. CASE t \in K
    BY <1>1, <2>1, <2>2 DEF Kit
  <2>3. CASE t \notin K
    <3>1. t \in U
      BY <2>3 DEF L
    <3>2. /\ t.con \in Constructors /\ (t.con = "null" => reported')
          /\ t.parts \in Seq(K) /\ (t.con = "function" => t.parts # << >>)
      BY <1>2, <2>3, <3>1 DEF Fits
    <3> QED
      BY <1>0, <2>1, <3>2
  <2> QED
    BY <2>2, <2>3
<1>3. CASE reported'
  <2> DEFINE L == K \cup (T \cup {Null})
  <2>1. Fits(Null, K)
    <3>1. << >> \in Seq(K)
      OBVIOUS
    <3> QED
      BY <1>3, <3>1 DEF Fits, Null, Type, Constructors
  <2>2. Kit(L, Here')
    BY <1>2, <2>1
  <2>3. {Void, Unknown} \subseteq L /\ Null \in L
    BY DEF Suits
  <2>4. Suits(L)'
    BY <1>0, <2>2, <2>3 DEF Suits, Here, Kit
  <2> QED
    BY <2>4
<1>4. CASE ~reported'
  <2> DEFINE L == K \cup T
  <2>1. Kit(L, Here')
    BY <1>2
  <2>2. {Void, Unknown} \subseteq L
    BY DEF Suits
  <2>3. Suits(L)'
    BY <1>0, <1>4, <2>1, <2>2 DEF Suits, Here, Kit
  <2> QED
    BY <2>3
<1> QED
  BY <1>3, <1>4
-----------------------------------------------------------------------------
(* Steps that keep the types and the order.                                *)

Orderly == Ordered /\ Typed /\ (crashed => reported)

\* The types held after a step, part by part.
LEMMA Retype ==
  ASSUME Control, todo # << >>, NEW K, Typing(K), NEW L, K \subseteq L, Suits(L)', prog' = prog,
         rets' \in Seq(L), funcRet' \in L, resolved' \in [N -> L \cup {Null}],
         \A s \in DOMAIN scopes' : \A name \in DOMAIN scopes'[s] : scopes'[s][name] \in L,
         \A name \in DOMAIN functions' : Signature(functions'[name], L),
         NEW work, Frames(work), todo' = work \o Tail(todo),
         \A k \in DOMAIN work : work[k].do = "args" => work[k].i \in L /\ work[k].i.con = "function"
  PROVE  Typed'
<1>1. N' = N
  BY DEF N
<1>2. \A k \in DOMAIN todo' : todo'[k].do = "args" => todo'[k].i \in L /\ todo'[k].i.con = "function"
  <2> DEFINE a == Len(work)
             b == Len(Tail(todo))
  <2>1. Frames(todo) /\ Frames(Tail(todo))
    BY FramesTail DEF Control, Shape
  <2>2. /\ a \in Nat /\ b \in Nat /\ DOMAIN todo' = 1 .. a + b /\ DOMAIN work = 1 .. a
        /\ \A k \in 1 .. a : todo'[k] = work[k]
        /\ \A k \in 1 .. b : todo'[a + k] = Tail(todo)[k]
    BY <2>1, FramesConcat
  <2>3. \A k \in 1 .. b : Tail(todo)[k] = todo[k + 1] /\ k + 1 \in DOMAIN todo
    BY <2>1, FramesTail
  <2> HIDE DEF a, b
  <2>4. \A k \in 1 .. b : todo'[a + k].do = "args" => todo'[a + k].i \in L /\ todo'[a + k].i.con = "function"
    BY <2>2, <2>3 DEF Typing
  <2> SUFFICES ASSUME NEW k \in 1 .. a + b
               PROVE  todo'[k].do = "args" => todo'[k].i \in L /\ todo'[k].i.con = "function"
    BY <2>2
  <2>5. CASE k <= a
    BY <2>2, <2>5
  <2>6. CASE k > a
    <3>1. k - a \in 1 .. b /\ a + (k - a) = k
      BY <2>2, <2>6
    <3>2. todo'[a + (k - a)].do = "args" => todo'[a + (k - a)].i \in L /\ todo'[a + (k - a)].i.con = "function"
      BY <2>4, <3>1
    <3> QED
      BY <3>1, <3>2
  <2> QED
    BY <2>2, <2>5, <2>6
<1>3. \A f : Signature(f, L)' <=> Signature(f, L)
  BY DEF Signature, Sequence, Arguments
<1> QED
  BY <1>1, <1>2, <1>3 DEF Typed, Typing

\* More types are held.
LEMMA Larger ==
  ASSUME NEW K, NEW L, K \subseteq L, Typing(K)
  PROVE  /\ rets \in Seq(L) /\ funcRet \in L /\ resolved \in [N -> L \cup {Null}]
         /\ \A s \in DOMAIN scopes : \A name \in DOMAIN scopes[s] : scopes[s][name] \in L
         /\ \A name \in DOMAIN functions : Signature(functions[name], L)
<1>1. rets \in Seq(L)
  BY DEF Typing
<1>2. resolved \in [N -> L \cup {Null}]
  BY DEF Typing
<1>3. \A name \in DOMAIN functions : Signature(functions[name], L)
  BY DEF Typing, Signature
<1> QED
  BY <1>1, <1>2, <1>3 DEF Typing

\* The innermost scope is closed.
LEMMA Fewer ==
  ASSUME Sequence(scopes), NEW L, \A s \in DOMAIN scopes : \A name \in DOMAIN scopes[s] : scopes[s][name] \in L,
         Len(scopes) >= 1
  PROVE  \A s \in DOMAIN Tail(scopes) : \A name \in DOMAIN Tail(scopes)[s] : Tail(scopes)[s][name] \in L
<1>1. PICK S : scopes \in Seq(S)
  BY DEF Sequence
<1>2. \A s \in DOMAIN Tail(scopes) : Tail(scopes)[s] = scopes[s + 1] /\ s + 1 \in DOMAIN scopes
  BY <1>1
<1> QED
  BY <1>2

\* A type is returned.
LEMMA Answering ==
  ASSUME Control, todo # << >>, NEW K, Typing(K), NEW k, NEW t, NEW bad, Return(k, t, bad),
         k \in Nat, k <= Len(rets), Fits(t, K),
         scopes' = scopes \/ (scopes' = Tail(scopes) /\ Len(scopes) >= 1),
         resolved' \in [N -> K \cup {t, Null}]
  PROVE  Typed'
<1>1. /\ prog' = prog /\ todo' = << >> \o Tail(todo) /\ rets' = <<t>> \o Drop(k) /\ functions' = functions
      /\ funcRet' = funcRet /\ reported \in BOOLEAN /\ reported' \in BOOLEAN /\ (reported => reported')
  BY DEF Return, Go, Err, Control, Shape
<1>2. PICK L : K \subseteq L /\ {t} \subseteq L /\ Suits(L)'
  <2> DEFINE T == {t}
  <2>1. \A u \in T : Fits(u, K)
    OBVIOUS
  <2>2. Suits(K)
    BY DEF Typing
  <2> HIDE DEF T
  <2>3. \E L : K \subseteq L /\ T \subseteq L /\ Suits(L)'
    BY <1>1, <2>1, <2>2, Widen
  <2> QED
    BY <2>3 DEF T
<1>3. /\ rets \in Seq(L) /\ funcRet \in L
      /\ \A s \in DOMAIN scopes : \A name \in DOMAIN scopes[s] : scopes[s][name] \in L
      /\ \A name \in DOMAIN functions : Signature(functions[name], L)
  BY <1>2, Larger
<1>4. rets' \in Seq(L)
  <2>1. Drop(k) \in Seq(L) /\ <<t>> \in Seq(L)
    BY <1>2, <1>3, DropTypes
  <2> QED
    BY <1>1, <2>1
<1>5. \A s \in DOMAIN scopes' : \A name \in DOMAIN scopes'[s] : scopes'[s][name] \in L
  <2>1. CASE scopes' = scopes
    BY <1>3, <2>1
  <2>2. CASE scopes' = Tail(scopes) /\ Len(scopes) >= 1
    BY <1>3, <2>2, Fewer DEF Control
  <2> QED
    BY <2>1, <2>2
<1>6. resolved' \in [N -> L \cup {Null}]
  <2>1. K \cup {t, Null} \subseteq L \cup {Null}
    BY <1>2
  <2> QED
    BY <2>1
<1>7. Frames(<< >>) /\ DOMAIN << >> = {}
  BY RunsNone DEF Runs
<1> QED
  BY <1>1, <1>2, <1>3, <1>4, <1>5, <1>6, <1>7, Retype

\* One type is set.
LEMMA SetOne ==
  ASSUME NEW S, resolved \in [N -> S], NEW n \in N, NEW t, Set(n, t)
  PROVE  /\ resolved' \in [N -> S \cup {t}] /\ resolved'[n] = t
         /\ \A m \in N : m # n => resolved'[m] = resolved[m]
<1>1. resolved' = [resolved EXCEPT ![n] = t]
  BY DEF Set
<1> QED
  BY <1>1

\* The types that were there stay there.
LEMMA SetKept ==
  ASSUME NEW S, resolved \in [N -> S], NEW n \in N, NEW t, Set(n, t), t # Null
  PROVE  Kept
<1>1. resolved'[n] = t /\ \A m \in N : m # n => resolved'[m] = resolved[m]
  BY DEF Set
<1> QED
  BY <1>1 DEF Kept, Valued

\* What fits has an object, as long as there is no error.
LEMMA FitsObject ==
  ASSUME Control, NEW K, Typing(K), NEW t, Fits(t, K), reported => reported', ~reported'
  PROVE  t # Null
<1>1. t \in K => t.con # "null"
  BY DEF Typing, Suits, Kit, Here
<1>2. Null.con = "null"
  BY DEF Null, Type
<1> QED
  BY <1>1, <1>2 DEF Fits

\* A procedure returns the type of its node, or an error.
LEMMA Settles ==
  ASSUME Control, Orderly, todo # << >>, Valued \cap Left(Top) \subseteq {Node},
         NEW K, Typing(K), NEW k, NEW t, NEW bad, Return(k, t, bad), k \in Nat, k <= Len(rets), Fits(t, K),
         scopes' = scopes, crashed' => reported', Set(Node, t) \/ (reported' /\ resolved' = resolved)
  PROVE  Orderly'
<1>1. /\ prog' = prog /\ todo' = << >> \o Tail(todo) /\ (reported => reported')
  BY DEF Return, Go, Err, Control, Shape
<1>2. Node \in N
  BY TopFacts
<1>3. resolved \in [N -> K \cup {Null}]
  BY DEF Typing
<1>4. resolved' \in [N -> K \cup {t, Null}]
  <2>1. Set(Node, t) => resolved' \in [N -> (K \cup {Null}) \cup {t}]
    BY <1>2, <1>3, SetOne
  <2>2. (K \cup {Null}) \cup {t} = K \cup {t, Null} /\ K \cup {Null} \subseteq K \cup {t, Null}
    OBVIOUS
  <2> QED
    BY <1>3, <2>1, <2>2
<1>5. Typed'
  BY <1>4, Answering
<1>6. Ordered'
  <2>1. ASSUME ~reported'
        PROVE  Kept /\ \A m \in Valued \cap Left(Top) : resolved'[m] # Null
    <3>1. t # Null
      BY <1>1, <2>1, FitsObject
    <3>2. Set(Node, t)
      BY <2>1
    <3>3. Kept /\ resolved'[Node] = t
      BY <1>2, <1>3, <3>1, <3>2, SetOne, SetKept
    <3> QED
      BY <3>1, <3>3
  <2> QED
    BY <1>1, <2>1, OnwardEnd DEF Orderly
<1> QED
  BY <1>5, <1>6 DEF Orderly
\* Types without parts.
LEMMA Fitting ==
  ASSUME NEW K
  PROVE  /\ \A elem, shape : Fits(TensorOf(elem, shape), K)
         /\ \A elem : Fits(Scalar(elem), K)
         /\ Fits(Bool, K) /\ Fits(Void, K) /\ Fits(Unknown, K)
<1>1. << >> \in Seq(K)
  OBVIOUS
<1>2. \A elem, shape : Fits(TensorOf(elem, shape), K)
  BY <1>1 DEF Fits, TensorOf, Type, Constructors
<1>3. Fits(Void, K) /\ Fits(Unknown, K)
  BY <1>1 DEF Fits, Void, Unknown, Type, Constructors
<1> QED
  BY <1>2, <1>3 DEF Scalar, Bool

\* A type without an object is held only after an error.
LEMMA NullReported ==
  ASSUME NEW K, Typing(K), Null \in K
  PROVE  reported
BY DEF Typing, Suits, Kit, Here, Null, Type

\* Each action keeps the types in order: a literal.
LEMMA LiteralOrderly ==
  ASSUME Control, Orderly, ResolveLiteral
  PROVE  Orderly'
<1> DEFINE t == Literals[Kind(Node)]
<1>1. At("expr") /\ Kind(Node) \in {"int", "float", "bool"} /\ Return(0, t, FALSE) /\ Set(Node, t)
      /\ scopes' = scopes /\ crashed' = crashed
  BY DEF ResolveLiteral, Visiting, Literals
<1>2. todo # << >> /\ Top.do = "expr"
  BY <1>1, AtTop
<1>3. prog \in Programs /\ Entry(Top) /\ Node \in N /\ Node = Top.n
  BY <1>2, TopFacts
<1>4. Kids(Node) = << >>
  BY <1>1, <1>3, ChildKinds
<1>5. Valued \cap Left(Top) \subseteq {Node}
  <2>1. DOMAIN Kids(Node) = {}
    BY <1>4
  <2> QED
    BY <1>2, <1>3, <2>1, LeftFacts
<1>6. PICK K : Typing(K)
  BY DEF Orderly, Typed
<1>7. Fits(t, K)
  BY <1>1, Fitting DEF Literals
<1>8. 0 <= Len(rets)
  BY <1>2, TopFits
<1>9. reported => reported'
  BY <1>1 DEF Return, Err
<1>10. crashed' => reported'
  BY <1>1, <1>9 DEF Orderly
<1> HIDE DEF t
<1> QED
  BY <1>1, <1>2, <1>5, <1>6, <1>7, <1>8, <1>10, Settles

\* The types that calls have returned.
LEMMA TypesReturned ==
  ASSUME Control, todo # << >>, NEW K, Typing(K)
  PROVE  /\ \A j \in 1 .. Uses(Top) : rets[j] \in K
         /\ Uses(Top) \in Nat /\ Uses(Top) <= Len(rets)
         /\ Returned(Uses(Top)) \in Seq(K) /\ Len(Returned(Uses(Top))) = Uses(Top)
<1>1. Uses(Top) \in Nat /\ Uses(Top) <= Len(rets) /\ rets \in Seq(K)
  BY TopFits, EntrySteps DEF Typing, Control, Shape
<1>2. \A j \in 1 .. Uses(Top) : rets[j] \in K
  BY <1>1
<1> QED
  BY <1>1, <1>2, ReturnedTypes

\* A tensor.
LEMMA TensorOrderly ==
  ASSUME Control, Orderly, ResolveTensor
  PROVE  Orderly'
<1> DEFINE types == Returned(Len(Kids(Node)))
           good == types # << >> /\ \A k \in DOMAIN types : types[k] = types[1]
           t == TensorOf(ElementOf(types[1]), <<Len(types)>> \o types[1].shape)
<1>1. /\ At("tensor") /\ scopes' = scopes
      /\ good => Return(Len(types), t, FALSE) /\ Set(Node, t) /\ Deref({types[1]})
      /\ ~good => Return(Len(types), Unknown, TRUE) /\ resolved' = resolved /\ crashed' = crashed
  BY DEF ResolveTensor
<1>2. todo # << >> /\ Top.do = "tensor" /\ Node = Top.n
  BY <1>1, AtTop
<1>3. prog \in Programs /\ Entry(Top)
  BY <1>2, TopFacts
<1>4. Valued \cap Left(Top) \subseteq {Node}
  BY <1>2, <1>3, LeftFacts
<1>5. PICK K : Typing(K)
  BY DEF Orderly, Typed
<1>6. Uses(Top) = Len(Kids(Node))
  BY <1>2, EntryCounts
<1>7. types \in Seq(K) /\ Len(types) \in Nat /\ Len(types) <= Len(rets)
  BY <1>2, <1>5, <1>6, TypesReturned
<1>8. Fits(t, K) /\ Fits(Unknown, K)
  BY Fitting
<1>9. types # << >> => types[1] \in K
  BY <1>7
<1> HIDE DEF types, t
<1>10. CASE good
  <2>1. Return(Len(types), t, FALSE) /\ Set(Node, t) /\ Deref({types[1]})
    BY <1>1, <1>10
  <2>2. reported => reported'
    BY <2>1 DEF Return, Err
  <2>3. crashed' => reported'
    <3>1. crashed' => types[1] = Null
      BY <2>1 DEF Deref
    <3> QED
      BY <1>5, <1>9, <1>10, <2>2, <3>1, NullReported
  <2> QED
    BY <1>1, <1>2, <1>4, <1>5, <1>7, <1>8, <2>1, <2>3, Settles
<1>11. CASE ~good
  <2>1. Return(Len(types), Unknown, TRUE) /\ resolved' = resolved
    BY <1>1, <1>11
  <2>2. reported'
    BY <2>1 DEF Return, Err
  <2> QED
    BY <1>1, <1>2, <1>4, <1>5, <1>7, <1>8, <2>1, <2>2, Settles
<1> QED
  BY <1>10, <1>11

\* The innermost declaration of a name.
LEMMA FindType ==
  ASSUME Control, NEW K, Typing(K), NEW name, Found(name)
  PROVE  Find(name) \in K
<1> DEFINE in == {s \in DOMAIN scopes : name \in DOMAIN scopes[s]}
<1>1. CASE in # {}
  <2>1. PICK S : scopes \in Seq(S)
    BY DEF Control, Sequence
  <2>2. in \in SUBSET Nat
    BY <2>1
  <2>3. PICK m \in in : \A r \in in : m <= r
    BY <1>1, <2>2, Least
  <2> DEFINE c == CHOOSE s \in in : \A r \in in : s <= r
  <2>4. c \in in
    BY <2>3
  <2> HIDE DEF c
  <2>5. scopes[c][name] \in K
    BY <2>4 DEF Typing
  <2> QED
    BY <1>1, <2>5 DEF Find, c
<1>2. CASE in = {}
  <2>1. name \in DOMAIN functions
    BY <1>2 DEF Found
  <2>2. functions[name].type \in K
    BY <2>1 DEF Typing, Signature
  <2> QED
    BY <1>2, <2>2 DEF Find
<1> QED
  BY <1>1, <1>2

\* An identifier.
LEMMA IdentifierOrderly ==
  ASSUME Control, Orderly, ResolveIdentifier
  PROVE  Orderly'
<1> DEFINE name == Names(Node)[1]
<1>1. /\ At("expr") /\ Kind(Node) = "id" /\ scopes' = scopes /\ crashed' = crashed
      /\ Found(name) => Return(0, Find(name), FALSE) /\ Set(Node, Find(name))
      /\ ~Found(name) => Return(0, Unknown, TRUE) /\ resolved' = resolved
  BY DEF ResolveIdentifier, Visiting
<1>2. todo # << >> /\ Top.do = "expr"
  BY <1>1, AtTop
<1>3. prog \in Programs /\ Entry(Top) /\ Node \in N /\ Node = Top.n
  BY <1>2, TopFacts
<1>4. Kids(Node) = << >>
  BY <1>1, <1>3, ChildKinds
<1>5. Valued \cap Left(Top) \subseteq {Node}
  <2>1. DOMAIN Kids(Node) = {}
    BY <1>4
  <2> QED
    BY <1>2, <1>3, <2>1, LeftFacts
<1>6. PICK K : Typing(K)
  BY DEF Orderly, Typed
<1>7. 0 <= Len(rets)
  BY <1>2, TopFits
<1> HIDE DEF name
<1>8. CASE Found(name)
  <2> DEFINE t == Find(name)
  <2>1. Return(0, t, FALSE) /\ Set(Node, t) /\ Fits(t, K)
    BY <1>1, <1>6, <1>8, FindType DEF Fits
  <2> HIDE DEF t
  <2>2. crashed' => reported'
    BY <1>1, <2>1 DEF Orderly, Return, Err
  <2> QED
    BY <1>1, <1>2, <1>5, <1>6, <1>7, <2>1, <2>2, Settles
<1>9. CASE ~Found(name)
  <2>1. Return(0, Unknown, TRUE) /\ resolved' = resolved /\ Fits(Unknown, K)
    BY <1>1, <1>9, Fitting
  <2>2. reported'
    BY <2>1 DEF Return, Err
  <2> QED
    BY <1>1, <1>2, <1>5, <1>6, <1>7, <2>1, <2>2, Settles
<1> QED
  BY <1>8, <1>9

\* The types of two operands.
LEMMA TwoTypes ==
  ASSUME Control, todo # << >>, Uses(Top) = 2, NEW K, Typing(K)
  PROVE  rets[1] \in K /\ rets[2] \in K /\ 2 <= Len(rets)
<1>1. 1 \in 1 .. 2 /\ 2 \in 1 .. 2
  OBVIOUS
<1> QED
  BY <1>1, TypesReturned

\* Reading one of the types held fails only after an error.
LEMMA ReadsHeld ==
  ASSUME NEW K, Typing(K), NEW types, types \subseteq K, Deref(types), reported => reported'
  PROVE  crashed' => reported'
BY NullReported DEF Deref

\* The operators, an index and a range.
LEMMA OperationOrderly ==
  ASSUME Control, Orderly, ResolveBinary \/ ResolveUnary \/ ResolveIndexAccess \/ ResolveRange
  PROVE  Orderly'
<1> DEFINE lt == rets[2]
           rt == rets[1]
<1>0. PICK K : Typing(K)
  BY DEF Orderly, Typed
<1>1. Top.do \in {"arith", "cmp", "index", "range", "neg"} /\ todo # << >>
  <2>1. At("arith") \/ At("cmp") \/ At("neg") \/ At("index") \/ At("range")
    BY DEF ResolveBinary, ResolveUnary, ResolveIndexAccess, ResolveRange
  <2> QED
    BY <2>1, AtTop
<1>2. /\ prog \in Programs /\ Entry(Top) /\ Node \in N /\ Node = Top.n
      /\ Kind(Node) = Top.do
  BY <1>1, TopFacts DEF Same
<1>3. Valued \cap Left(Top) \subseteq {Node}
  BY <1>1, <1>2, LeftFacts
<1>4. Uses(Top) = IF Top.do = "neg" THEN 1 ELSE 2
  <2>1. Uses(Top) = Len(Kids(Node))
    BY <1>1, <1>2, EntryCounts
  <2> QED
    BY <1>1, <1>2, <2>1, ChildKinds
<1>5. Top.do # "neg" => lt \in K /\ rt \in K /\ 2 <= Len(rets)
  BY <1>0, <1>1, <1>4, TwoTypes
<1>6. Top.do = "neg" => rt \in K /\ 1 <= Len(rets)
  <2>1. 1 \in 1 .. 1
    OBVIOUS
  <2> QED
    BY <1>0, <1>1, <1>4, <2>1, TypesReturned
<1> HIDE DEF lt, rt
<1>7. CASE ResolveBinary
  <2> DEFINE t == IF At("arith") THEN lt
                  ELSE IF IsTensor(lt) THEN TensorOf("bool", lt.shape) ELSE Bool
             types == (IF lt # rt THEN {lt, rt} ELSE {}) \cup (IF At("cmp") THEN {lt} ELSE {})
  <2>1. /\ At("arith") \/ At("cmp")
        /\ Return(2, t, lt # rt) /\ Set(Node, t) /\ Deref(types) /\ scopes' = scopes
    BY <1>7 DEF ResolveBinary, lt, rt
  <2>2. Top.do # "neg"
    BY <2>1, AtTop
  <2>3. Fits(t, K)
    BY <1>5, <2>2, Fitting DEF Fits
  <2>4. types \subseteq K
    BY <1>5, <2>2
  <2> HIDE DEF t, types
  <2>5. reported => reported'
    BY <2>1 DEF Return, Err
  <2>6. crashed' => reported'
    BY <1>0, <2>1, <2>4, <2>5, ReadsHeld
  <2> QED
    BY <1>0, <1>1, <1>3, <1>5, <2>1, <2>2, <2>3, <2>6, Settles
<1>8. CASE ResolveUnary
  <2>1. At("neg") /\ Return(1, rt, FALSE) /\ Set(Node, rt) /\ scopes' = scopes /\ crashed' = crashed
    BY <1>8 DEF ResolveUnary, rt
  <2>2. Top.do = "neg"
    BY <2>1, AtTop
  <2>3. Fits(rt, K)
    BY <1>6, <2>2 DEF Fits
  <2>4. crashed' => reported'
    BY <2>1 DEF Orderly, Return, Err
  <2> QED
    BY <1>0, <1>1, <1>3, <1>6, <2>1, <2>2, <2>3, <2>4, Settles
<1>9. CASE ResolveIndexAccess
  <2> DEFINE t == TensorOf(lt.elem, Tail(lt.shape))
             good == IsTensor(lt) /\ rt \in Ints /\ lt.shape # << >>
  <2>1. /\ At("index") /\ Deref({lt}) /\ scopes' = scopes
        /\ good => Return(2, t, FALSE) /\ Set(Node, t)
        /\ ~good => Return(2, Unknown, TRUE) /\ resolved' = resolved
    BY <1>9 DEF ResolveIndexAccess, lt, rt
  <2>2. Top.do # "neg"
    BY <2>1, AtTop
  <2>3. Fits(t, K) /\ Fits(Unknown, K) /\ {lt} \subseteq K
    BY <1>5, <2>2, Fitting
  <2> HIDE DEF t, good
  <2>4. CASE good
    <3>1. reported => reported'
      BY <2>1, <2>4 DEF Return, Err
    <3>2. crashed' => reported'
      BY <1>0, <2>1, <2>3, <3>1, ReadsHeld
    <3> QED
      BY <1>0, <1>1, <1>3, <1>5, <2>1, <2>2, <2>3, <2>4, <3>2, Settles
  <2>5. CASE ~good
    <3>1. reported'
      BY <2>1, <2>5 DEF Return, Err
    <3> QED
      BY <1>0, <1>1, <1>3, <1>5, <2>1, <2>2, <2>3, <2>5, <3>1, Settles
  <2> QED
    BY <2>4, <2>5
<1>10. CASE ResolveRange
  <2> DEFINE types == IF lt # rt THEN {lt, rt} ELSE {}
  <2>1. /\ At("range") /\ Return(2, lt, lt # rt \/ lt \notin Ints) /\ Set(Node, lt) /\ Deref(types)
        /\ scopes' = scopes
    BY <1>10 DEF ResolveRange, lt, rt
  <2>2. Top.do # "neg"
    BY <2>1, AtTop
  <2>3. Fits(lt, K) /\ types \subseteq K
    BY <1>5, <2>2 DEF Fits
  <2> HIDE DEF types
  <2>4. reported => reported'
    BY <2>1 DEF Return, Err
  <2>5. crashed' => reported'
    BY <1>0, <2>1, <2>3, <2>4, ReadsHeld
  <2> QED
    BY <1>0, <1>1, <1>3, <1>5, <2>1, <2>2, <2>3, <2>5, Settles
<1> QED
  BY <1>7, <1>8, <1>9, <1>10

-----------------------------------------------------------------------------
(* Steps that call other procedures.                                       *)

\* Calls that read no types of nodes and know no callee.
Plain(v) == \A k \in DOMAIN v : v[k].do \in {"expr", "stmt", "block", "init"}

\* Plain calls, and one more.
LEMMA PlainThen ==
  ASSUME prog \in Programs, NEW v, Frames(v), Plain(v), NEW e, Entry(e)
  PROVE  /\ Frames(v \o <<e>>) /\ \A k \in DOMAIN v : Needs(v[k]) = {}
         /\ \A k \in DOMAIN (v \o <<e>>) : (v \o <<e>>)[k].do = "args" => (v \o <<e>>)[k] = e
<1> DEFINE a == Len(v)
           w == <<e>>
<1>1. Frames(w) /\ Len(w) = 1 /\ w[1] = e
  BY FramesOne
<1>2. /\ a \in Nat /\ DOMAIN v = 1 .. a /\ DOMAIN (v \o w) = 1 .. a + Len(w) /\ Frames(v \o w)
      /\ \A k \in 1 .. a : (v \o w)[k] = v[k]
      /\ \A k \in 1 .. Len(w) : (v \o w)[a + k] = w[k]
  BY <1>1, FramesConcat
<1> HIDE DEF a, w
<1>3. DOMAIN (v \o w) = 1 .. a + 1 /\ (v \o w)[a + 1] = e
  BY <1>1, <1>2
<1>4. ASSUME NEW k \in 1 .. a + 1, (v \o w)[k].do = "args"
      PROVE  (v \o w)[k] = e
  <2>1. k \in 1 .. a \/ k = a + 1
    BY <1>2
  <2>2. k \notin 1 .. a
    BY <1>2, <1>4 DEF Plain
  <2> QED
    BY <1>3, <2>1, <2>2
<1>5. ASSUME NEW k \in DOMAIN v
      PROVE  Needs(v[k]) = {}
  <2>1. Entry(v[k]) /\ v[k].do \notin {"then", "else", "for_end"}
    BY DEF Frames, Plain
  <2> QED
    BY <2>1, LeftFacts
<1> QED
  BY <1>2, <1>3, <1>4, <1>5 DEF w

\* Expressions, and what they give types.
LEMMA PlainExprs ==
  ASSUME prog \in Programs, NEW nodes \in Seq(N), \A k \in DOMAIN nodes : Kind(nodes[k]) \in Expressions
  PROVE  /\ Frames(DoAll("expr", nodes, 0)) /\ Plain(DoAll("expr", nodes, 0))
         /\ \A e : Append(DoAll("expr", nodes, 0), e) = DoAll("expr", nodes, 0) \o <<e>>
         /\ \A m \in Valued : In(DoAll("expr", nodes, 0), m) <=> \E k \in DOMAIN nodes : m \in Below(nodes[k])
<1> DEFINE v == DoAll("expr", nodes, 0)
<1>1. Frames(v)
  BY RunsExprs DEF Runs
<1>2. \A k \in DOMAIN nodes : v[k] = Do("expr", nodes[k], 0) /\ v[k].do = "expr" /\ v[k].n = nodes[k]
  BY DEF DoAll, Do
<1>3. DOMAIN v = DOMAIN nodes
  BY DEF DoAll
<1> HIDE DEF v
<1>4. Plain(v)
  BY <1>2, <1>3 DEF Plain
<1>5. \A e : Append(v, e) = v \o <<e>>
  BY <1>1 DEF Frames, Sequence
<1>6. ASSUME NEW m \in Valued
      PROVE  In(v, m) <=> \E k \in DOMAIN nodes : m \in Below(nodes[k])
  <2>1. \A k \in DOMAIN nodes : m \in Left(v[k]) <=> m \in Below(nodes[k])
    <3> SUFFICES ASSUME NEW k \in DOMAIN nodes
                 PROVE  m \in Left(v[k]) <=> m \in Below(nodes[k])
      OBVIOUS
    <3>1. Entry(v[k])
      BY <1>1, <1>3 DEF Frames
    <3> QED
      BY <1>2, <3>1, LeftFacts
  <2> QED
    BY <1>3, <2>1 DEF In
<1> QED
  BY <1>1, <1>4, <1>5, <1>6 DEF v

\* Statements, likewise.
LEMMA PlainStmts ==
  ASSUME prog \in Programs, NEW nodes \in Seq(N), \A k \in DOMAIN nodes : Kind(nodes[k]) \in Statements, NEW i
  PROVE  /\ Frames(DoAll("stmt", nodes, i)) /\ Plain(DoAll("stmt", nodes, i))
         /\ \A e : Append(DoAll("stmt", nodes, i), e) = DoAll("stmt", nodes, i) \o <<e>>
         /\ \A m \in Valued : In(DoAll("stmt", nodes, i), m) <=> \E k \in DOMAIN nodes : m \in Below(nodes[k])
<1> DEFINE v == DoAll("stmt", nodes, i)
<1>1. Frames(v)
  BY RunsStmts DEF Runs
<1>2. \A k \in DOMAIN nodes : v[k] = Do("stmt", nodes[k], i) /\ v[k].do = "stmt" /\ v[k].n = nodes[k]
  BY DEF DoAll, Do
<1>3. DOMAIN v = DOMAIN nodes
  BY DEF DoAll
<1> HIDE DEF v
<1>4. Plain(v)
  BY <1>2, <1>3 DEF Plain
<1>5. \A e : Append(v, e) = v \o <<e>>
  BY <1>1 DEF Frames, Sequence
<1>6. ASSUME NEW m \in Valued
      PROVE  In(v, m) <=> \E k \in DOMAIN nodes : m \in Below(nodes[k])
  <2>1. \A k \in DOMAIN nodes : m \in Left(v[k]) <=> m \in Below(nodes[k])
    <3> SUFFICES ASSUME NEW k \in DOMAIN nodes
                 PROVE  m \in Left(v[k]) <=> m \in Below(nodes[k])
      OBVIOUS
    <3>1. Entry(v[k])
      BY <1>1, <1>3 DEF Frames
    <3> QED
      BY <1>2, <3>1, LeftFacts
  <2> QED
    BY <1>3, <2>1 DEF In
<1> QED
  BY <1>1, <1>4, <1>5, <1>6 DEF v

\* One call.
LEMMA PlainOne ==
  ASSUME prog \in Programs, NEW e, Entry(e), e.do \in {"expr", "stmt", "block", "init"}
  PROVE  /\ Frames(<<e>>) /\ Plain(<<e>>) /\ \A f : <<e, f>> = <<e>> \o <<f>>
         /\ e.do # "init" => \A m \in Valued : In(<<e>>, m) <=> m \in Below(e.n)
<1>1. Frames(<<e>>) /\ \A f : <<e, f>> = <<e>> \o <<f>>
  BY FramesOne
<1>2. Plain(<<e>>)
  <2>1. DOMAIN <<e>> = 1 .. 1 /\ <<e>>[1] = e /\ \A k \in 1 .. 1 : k = 1
    OBVIOUS
  <2> QED
    BY <2>1 DEF Plain
<1>3. e.do # "init" => \A m \in Valued : In(<<e>>, m) <=> m \in Below(e.n)
  <2>1. e.do # "init" => \A m \in Valued : m \in Left(e) <=> m \in Below(e.n)
    BY LeftFacts
  <2> QED
    BY <2>1, InOne
<1> QED
  BY <1>1, <1>2, <1>3

\* What holds of the types after a step that changes none.
LEMMA SameSuits ==
  ASSUME NEW K, Suits(K), reported' = reported
  PROVE  Suits(K)'
<1>1. Here' = Here
  BY DEF Here
<1> QED
  BY <1>1 DEF Suits, Kit

\* A procedure that calls others before it goes on.
LEMMA Called ==
  ASSUME Control, Orderly, todo # << >>, NEW v, Frames(v), Plain(v), NEW e, Entry(e), e.do # "args",
         Needs(e) = {}, Calls(v \o <<e>>), \A m \in Valued \cap Left(Top) : In(v, m) \/ m \in Left(e)
  PROVE  Orderly'
<1> DEFINE work == v \o <<e>>
<1>0. prog \in Programs
  BY DEF Control, Shape
<1>1. /\ todo' = work \o Tail(todo) /\ prog' = prog /\ resolved' = resolved /\ rets' = rets /\ scopes' = scopes
      /\ functions' = functions /\ funcRet' = funcRet /\ reported' = reported /\ crashed' = crashed
  BY DEF Calls, Go
<1>2. /\ Frames(work) /\ \A k \in DOMAIN v : Needs(v[k]) = {}
      /\ \A k \in DOMAIN work : work[k].do = "args" => work[k] = e
  BY <1>0, PlainThen
<1>3. Ordered'
  <2>1. Kept
    BY <1>1 DEF Kept
  <2> QED
    BY <1>1, <1>2, <2>1, OnwardThen DEF Orderly
<1> HIDE DEF work
<1>4. Typed'
  <2>1. PICK K : Typing(K)
    BY DEF Orderly, Typed
  <2>2. Suits(K)'
    BY <1>1, <2>1, SameSuits DEF Typing
  <2>3. /\ rets' \in Seq(K) /\ funcRet' \in K /\ resolved' \in [N -> K \cup {Null}]
        /\ \A s \in DOMAIN scopes' : \A name \in DOMAIN scopes'[s] : scopes'[s][name] \in K
        /\ \A name \in DOMAIN functions' : Signature(functions'[name], K)
    BY <1>1, <2>1 DEF Typing
  <2>4. \A k \in DOMAIN work : work[k].do = "args" => work[k].i \in K /\ work[k].i.con = "function"
    BY <1>2
  <2> QED
    BY <1>1, <1>2, <2>1, <2>2, <2>3, <2>4, Retype
<1> QED
  BY <1>1, <1>3, <1>4 DEF Orderly

\* The visit of operands and of values.
LEMMA OperandsOrderly ==
  ASSUME Control, Orderly, ResolveOperands \/ ResolveValues
  PROVE  Orderly'
<1> DEFINE e == Do(Kind(Node), Node, 0)
           v == DoAll("expr", Kids(Node), 0)
<1>1. /\ \/ At("expr") /\ Kind(Node) \in {"tensor", "arith", "cmp", "neg", "index", "range"}
         \/ At("stmt") /\ Kind(Node) \in {"var", "yield", "expr_stmt", "return"} /\ Kids(Node) # << >>
      /\ Calls(Append(v, e))
  BY DEF ResolveOperands, ResolveValues, Visiting
<1>2. todo # << >> /\ Top.do \in {"expr", "stmt"}
  BY <1>1, AtTop
<1>3. prog \in Programs /\ Entry(Top) /\ Node \in N /\ Node = Top.n /\ Kids(Node) \in Seq(N)
  BY <1>2, TopFacts
<1>4. /\ Kind(Node) \in Owners(Kind(Node)) /\ Kind(Node) \in Places /\ Kind(Node) \notin {"else", "init"}
      /\ Kind(Node) \in {"return", "expr_stmt"} => Kids(Node) # << >>
  BY <1>1 DEF Owners, Same, Places
<1>5. Entry(e) /\ e.do = Kind(Node) /\ e.n = Node
  BY <1>3, <1>4, AnEntry
<1>6. \A k \in DOMAIN Kids(Node) : Kind(Kids(Node)[k]) \in Expressions
  BY <1>1, <1>3, ChildKinds
<1>7. /\ Frames(v) /\ Plain(v) /\ Append(v, e) = v \o <<e>>
      /\ \A m \in Valued : In(v, m) <=> \E k \in DOMAIN Kids(Node) : m \in Below(Kids(Node)[k])
  BY <1>3, <1>6, PlainExprs
<1> HIDE DEF e, v
<1>8. Left(e) = {Node} /\ Needs(e) = {} /\ e.do # "args"
  BY <1>1, <1>3, <1>5, LeftFacts
<1>9. \A m \in Valued \cap Left(Top) : In(v, m) \/ m \in Left(e)
  BY <1>2, <1>3, <1>7, <1>8, LeftFacts
<1> QED
  BY <1>1, <1>2, <1>5, <1>7, <1>8, <1>9, Called

\* What is below the name of a callee is the name.
LEMMA BelowCallee ==
  ASSUME prog \in Programs, NEW n \in N, Kind(n) = "call"
  PROVE  Below(Kids(n)[1]) \subseteq {Callee(n)}
<1>1. Callee(n) \in N /\ Kind(Callee(n)) = "id" /\ Callee(n) = Kids(n)[1]
  BY CallFacts DEF Callee
<1>2. Kids(Callee(n)) = << >>
  BY <1>1, ChildKinds
<1>3. DOMAIN Kids(Callee(n)) = {}
  BY <1>2
<1> QED
  BY <1>1, <1>3, BelowSplit

\* What is below the arguments of a call.
LEMMA BelowArgs ==
  ASSUME prog \in Programs, NEW n \in N, Kind(n) = "call", NEW m
  PROVE  (\E k \in DOMAIN Kids(n) \ {1} : m \in Below(Kids(n)[k])) => \E k \in DOMAIN Args(n) : m \in Below(Args(n)[k])
<1> SUFFICES ASSUME NEW k \in DOMAIN Kids(n) \ {1}, m \in Below(Kids(n)[k])
             PROVE  \E j \in DOMAIN Args(n) : m \in Below(Args(n)[j])
  OBVIOUS
<1>1. Kids(n) \in Seq(N) /\ Args(n) \in Seq(N) /\ Len(Args(n)) = Len(Kids(n)) - 1
      /\ \A j \in DOMAIN Args(n) : Args(n)[j] = Kids(n)[j + 1]
  BY NodeFacts, CallFacts
<1>2. k - 1 \in DOMAIN Args(n) /\ (k - 1) + 1 = k
  BY <1>1
<1> QED
  BY <1>1, <1>2

\* An error is returned.
LEMMA ReportedEnd ==
  ASSUME Control, Orderly, todo # << >>, NEW K, Typing(K), NEW k, NEW t, NEW bad, Return(k, t, bad),
         k \in Nat, k <= Len(rets), Fits(t, K),
         scopes' = scopes \/ (scopes' = Tail(scopes) /\ Len(scopes) >= 1),
         resolved' \in [N -> K \cup {t, Null}], reported'
  PROVE  Orderly'
<1>1. Typed'
  BY Answering
<1>2. Ordered'
  BY DEF Ordered
<1> QED
  BY <1>1, <1>2 DEF Orderly

\* The type of the result of a function.
LEMMA ResultHeld ==
  ASSUME NEW K, Typing(K), NEW f \in K, f.con = "function"
  PROVE  Result(f) \in K
<1>1. f.parts \in Seq(K) /\ f.parts # << >>
  BY DEF Typing, Suits, Kit
<1>2. f.parts[Len(f.parts)] \in K
  BY <1>1
<1> QED
  BY <1>2 DEF Result

\* The callee is known to a call whose arguments are next.
LEMMA CalleeHeld ==
  ASSUME Control, todo # << >>, NEW K, Typing(K), Top.do = "args"
  PROVE  Top.i \in K /\ Top.i.con = "function"
<1>1. Frames(todo)
  BY DEF Control, Shape
<1>2. 1 \in DOMAIN todo /\ Top = todo[1]
  BY <1>1, FramesTail DEF Top
<1> QED
  BY <1>2 DEF Typing

\* The type that an intrinsic returns.
LEMMA InferFits ==
  ASSUME prog \in Programs, Node \in N, Kind(Node) = "call", NEW K, Typing(K)
  PROVE  Fits(Infer.type, K) /\ (Deref(Infer.reads) /\ crashed' => Infer.bad)
<1> DEFINE a == resolved[Args(Node)[1]]
           ok == Len(Args(Node)) = 1 /\ IsTensor(a) /\ a.elem \in Elements \ {"bool"}
<1>1. CASE Name(Callee(Node)) = "relu"
  <2>1. /\ Infer.type = (IF ok THEN a ELSE Unknown) /\ Infer.bad = ~ok
        /\ Infer.reads = IF Len(Args(Node)) = 1 THEN {a} ELSE {}
    BY <1>1 DEF Infer
  <2>2. Len(Args(Node)) = 1 => a \in K \cup {Null}
    <3>1. Args(Node) \in Seq(N)
      BY CallFacts
    <3>2. Len(Args(Node)) = 1 => Args(Node)[1] \in N
      BY <3>1
    <3> QED
      BY <3>2 DEF Typing
  <2>3. ~IsTensor(Null)
    BY DEF IsTensor, Null, Type
  <2>4. ok => a \in K
    BY <2>2, <2>3
  <2>5. Fits(Infer.type, K)
    BY <2>1, <2>4, Fitting DEF Fits
  <2>6. Deref(Infer.reads) /\ crashed' => a = Null
    BY <2>1 DEF Deref
  <2> QED
    BY <2>1, <2>3, <2>5, <2>6
<1>2. CASE Name(Callee(Node)) # "relu"
  <2>1. Infer.type \in {Unknown, Void} /\ Infer.reads = {}
    BY <1>2 DEF Infer
  <2>2. Deref(Infer.reads) => ~crashed'
    BY <2>1 DEF Deref
  <2> QED
    BY <2>1, <2>2, Fitting
<1> QED
  BY <1>1, <1>2

\* What is left in the middle of a procedure that has visited its first child.
LEMMA LeftRest ==
  ASSUME NEW e, e.do \in {"callee", "condition", "for"}, NEW n, e.n = n
  PROVE  Left(e) = {n} \cup UNION {Below(Kids(n)[k]) : k \in DOMAIN Kids(n) \ {1}} /\ Needs(e) = {} /\ e.do # "args"
<1>1. Sets(e) = {n} /\ Pending(e) = DOMAIN Kids(n) \ {1}
  BY DEF Sets, Pending
<1>2. Needs(e) = {}
  BY DEF Needs
<1> QED
  BY <1>1, <1>2 DEF Left

\* For the call on top of the stack.
LEMMA TopRest ==
  ASSUME Top.do \in {"callee", "condition", "for"}
  PROVE  Left(Top) = {Node} \cup UNION {Below(Kids(Node)[k]) : k \in DOMAIN Kids(Node) \ {1}}
<1> DEFINE e == Top
           n == Node
<1>1. e.do \in {"callee", "condition", "for"} /\ e.n = n
  BY DEF Top, Node
<1> HIDE DEF e, n
<1>2. Left(e) = {n} \cup UNION {Below(Kids(n)[k]) : k \in DOMAIN Kids(n) \ {1}}
  BY <1>1, LeftRest
<1> QED
  BY <1>2 DEF e, n

\* A call, at each of its places.
LEMMA CallOrderly ==
  ASSUME Control, Orderly, ResolveCall
  PROVE  Orderly'
<1>0. PICK K : Typing(K)
  BY DEF Orderly, Typed
<1> DEFINE intrinsic == Do("intrinsic", Node, 0)
           callee == Do("callee", Node, 0)
           args == Do("args", Node, rets[1])
           call == Do("expr", Callee(Node), 0)
           v == DoAll("expr", Args(Node), 0)
\* The call, and its place on the stack.
<1>1. ASSUME todo # << >>, Kind(Node) = "call"
      PROVE  /\ prog \in Programs /\ Entry(Top) /\ Node \in N /\ Node = Top.n
             /\ Callee(Node) \in N /\ Callee(Node) = Kids(Node)[1] /\ Kind(Callee(Node)) \in Expressions
             /\ Frames(v) /\ Plain(v) /\ \A e : Append(v, e) = v \o <<e>>
             /\ \A m \in Valued : In(v, m) <=> \E k \in DOMAIN Args(Node) : m \in Below(Args(Node)[k])
  <2>1. prog \in Programs /\ Entry(Top) /\ Node \in N /\ Node = Top.n
    BY <1>1, TopFacts
  <2>2. /\ Args(Node) \in Seq(N) /\ \A k \in DOMAIN Args(Node) : Kind(Args(Node)[k]) \in Expressions
        /\ Callee(Node) \in N /\ Kind(Callee(Node)) \in Expressions
    BY <1>1, <2>1, CallFacts
  <2> QED
    BY <2>1, <2>2, PlainExprs DEF Callee
\* What is left of a call that has not begun.
<1>2. ASSUME todo # << >>, Kind(Node) = "call", Top.do = "expr", NEW m \in Valued \cap Left(Top)
      PROVE  m = Node \/ m = Callee(Node) \/ \E k \in DOMAIN Args(Node) : m \in Below(Args(Node)[k])
  <2>1. m = Node \/ \E k \in DOMAIN Kids(Node) : m \in Below(Kids(Node)[k])
    BY <1>1, <1>2, LeftFacts
  <2>2. m \in Below(Kids(Node)[1]) => m = Callee(Node)
    BY <1>1, <1>2, BelowCallee
  <2>3. (\E k \in DOMAIN Kids(Node) \ {1} : m \in Below(Kids(Node)[k])) => \E k \in DOMAIN Args(Node) : m \in Below(Args(Node)[k])
    BY <1>1, <1>2, BelowArgs
  <2> QED
    BY <2>1, <2>2, <2>3
<1> HIDE DEF v
<1>3. CASE Visiting({"call"}) /\ IsIntrinsic /\ Calls(Append(v, intrinsic))
  <2>1. At("expr") /\ Kind(Node) = "call" /\ Calls(Append(v, intrinsic))
    BY <1>3 DEF Visiting
  <2>2. todo # << >> /\ Top.do = "expr"
    BY <2>1, AtTop
  <2>3. Entry(intrinsic) /\ intrinsic.do = "intrinsic" /\ intrinsic.n = Node
    BY <1>1, <2>1, <2>2, AnEntry DEF Owners, Same, Places
  <2> HIDE DEF intrinsic
  <2>4. Left(intrinsic) = {Node, Callee(Node)} /\ Needs(intrinsic) = {} /\ intrinsic.do # "args"
    BY <1>1, <2>1, <2>2, <2>3, LeftFacts
  <2>5. \A m \in Valued \cap Left(Top) : In(v, m) \/ m \in Left(intrinsic)
    BY <1>1, <1>2, <2>1, <2>2, <2>4
  <2> QED
    BY <1>1, <2>1, <2>2, <2>3, <2>4, <2>5, Called
<1>4. CASE /\ At("intrinsic")
           /\ Return(Len(Args(Node)), Infer.type, Infer.bad) /\ Deref(Infer.reads)
           /\ resolved' = [resolved EXCEPT ![Callee(Node)] = Unknown, ![Node] = Infer.type]
           /\ UNCHANGED scopes
  <2> DEFINE t == Infer.type
             bad == Infer.bad
             reads == Infer.reads
  <2>1. todo # << >> /\ Top.do = "intrinsic" /\ Uses(Top) = Len(Args(Node))
    BY <1>4, AtTop, EntryCounts
  <2>2. Kind(Node) = "call"
    BY <2>1, TopFacts
  <2>3. Fits(t, K) /\ (Deref(reads) /\ crashed' => bad)
    BY <1>0, <1>1, <2>1, <2>2, InferFits
  <2>4. Left(Top) = {Node, Callee(Node)} /\ Node \in N /\ Callee(Node) \in N
    BY <1>1, <2>1, <2>2, LeftFacts
  <2>5. Len(Args(Node)) \in Nat /\ Len(Args(Node)) <= Len(rets)
    BY <1>0, <2>1, TypesReturned
  <2>6. Return(Len(Args(Node)), t, bad) /\ Deref(reads) /\ scopes' = scopes
        /\ resolved' = [resolved EXCEPT ![Callee(Node)] = Unknown, ![Node] = t]
    BY <1>4
  <2> HIDE DEF t, bad, reads
  <2>7. prog' = prog /\ todo' = << >> \o Tail(todo) /\ (reported => reported') /\ (bad => reported')
    BY <2>6 DEF Return, Go, Err
  <2>8. crashed' => reported'
    BY <2>3, <2>6, <2>7
  <2>9. Unknown \in K /\ Unknown # Null /\ resolved \in [N -> K \cup {Null}]
    BY <1>0 DEF Typing, Suits, Unknown, Null, Type
  <2>10. /\ resolved' \in [N -> K \cup {t, Null}] /\ resolved'[Node] = t
         /\ resolved'[Callee(Node)] \in {t, Unknown}
         /\ \A m \in N : m \notin {Node, Callee(Node)} => resolved'[m] = resolved[m]
    BY <2>4, <2>6, <2>9
  <2>11. Typed'
    BY <1>0, <2>1, <2>3, <2>5, <2>6, <2>10, Answering
  <2>12. Ordered'
    <3>1. ASSUME ~reported'
          PROVE  Kept /\ \A m \in Valued \cap Left(Top) : resolved'[m] # Null
      <4>1. t # Null
        BY <1>0, <2>3, <2>7, <3>1, FitsObject
      <4>2. Kept
        BY <2>9, <2>10, <4>1 DEF Kept, Valued
      <4> QED
        BY <2>4, <2>9, <2>10, <4>1, <4>2
    <3> QED
      BY <2>1, <2>7, <3>1, OnwardEnd DEF Orderly
  <2> QED
    BY <2>8, <2>11, <2>12 DEF Orderly
<1>5. CASE Visiting({"call"}) /\ ~IsIntrinsic /\ Calls(<<call, callee>>)
  <2>1. At("expr") /\ Kind(Node) = "call" /\ Calls(<<call, callee>>)
    BY <1>5 DEF Visiting
  <2>2. todo # << >> /\ Top.do = "expr"
    BY <2>1, AtTop
  <2>3. Entry(callee) /\ callee.do = "callee" /\ callee.n = Node
    BY <1>1, <2>1, <2>2, AnEntry DEF Owners, Same, Places
  <2>4. Entry(call) /\ call.do = "expr" /\ call.n = Callee(Node)
    BY <1>1, <2>1, <2>2, AnEntry DEF Owners, Same, Places
  <2> HIDE DEF call, callee
  <2>5. /\ Frames(<<call>>) /\ Plain(<<call>>) /\ <<call, callee>> = <<call>> \o <<callee>>
        /\ \A m \in Valued : In(<<call>>, m) <=> m \in Below(Callee(Node))
    BY <1>1, <2>1, <2>2, <2>4, PlainOne
  <2>6. Left(callee) = {Node} \cup UNION {Below(Kids(Node)[k]) : k \in DOMAIN Kids(Node) \ {1}} /\ Needs(callee) = {}
        /\ callee.do # "args"
    BY <2>3, LeftRest
  <2>7. \A m \in Valued \cap Left(Top) : In(<<call>>, m) \/ m \in Left(callee)
    <3> SUFFICES ASSUME NEW m \in Valued \cap Left(Top)
                 PROVE  In(<<call>>, m) \/ m \in Left(callee)
      OBVIOUS
    <3>1. m = Node \/ \E k \in DOMAIN Kids(Node) : m \in Below(Kids(Node)[k])
      BY <1>1, <2>1, <2>2, LeftFacts
    <3>2. m \in Below(Kids(Node)[1]) => In(<<call>>, m)
      BY <1>1, <2>1, <2>2, <2>5
    <3> QED
      BY <2>6, <3>1, <3>2
  <2>8. Calls(<<call>> \o <<callee>>)
    BY <2>1, <2>5
  <2> QED
    BY <2>2, <2>3, <2>5, <2>6, <2>7, <2>8, Called
<1>6. CASE /\ At("callee") /\ rets[1].con # "function"
           /\ Return(1, Unknown, TRUE) /\ Deref({rets[1]})
           /\ UNCHANGED <<resolved, scopes>>
  <2>1. todo # << >> /\ Uses(Top) = 1
    BY <1>6, AtTop, EntryCounts
  <2>2. 1 <= Len(rets)
    BY <1>0, <2>1, TypesReturned
  <2>3. Fits(Unknown, K) /\ resolved' \in [N -> K \cup {Unknown, Null}]
    <3>1. K \cup {Null} \subseteq K \cup {Unknown, Null}
      OBVIOUS
    <3> QED
      BY <1>0, <1>6, <3>1, Fitting DEF Typing
  <2>4. reported'
    BY <1>6 DEF Return, Err
  <2> QED
    BY <1>0, <1>6, <2>1, <2>2, <2>3, <2>4, ReportedEnd
<1>7. CASE /\ At("callee") /\ rets[1].con = "function"
           /\ Return(1, Result(rets[1]), TRUE) /\ Set(Node, Result(rets[1]))
           /\ UNCHANGED <<scopes, crashed>>
  <2> DEFINE t == Result(rets[1])
  <2>1. todo # << >> /\ Uses(Top) = 1
    BY <1>7, AtTop, EntryCounts
  <2>2. 1 <= Len(rets) /\ rets[1] \in K /\ Node \in N
    <3>1. 1 \in 1 .. 1
      OBVIOUS
    <3> QED
      BY <1>0, <2>1, <3>1, TypesReturned, TopFacts
  <2>3. Return(1, t, TRUE) /\ Set(Node, t) /\ Fits(t, K)
    BY <1>0, <1>7, <2>2, ResultHeld DEF Fits
  <2> HIDE DEF t
  <2>4. resolved' \in [N -> (K \cup {Null}) \cup {t}]
    BY <1>0, <2>2, <2>3, SetOne DEF Typing
  <2>5. (K \cup {Null}) \cup {t} = K \cup {t, Null}
    OBVIOUS
  <2>6. reported'
    BY <2>3 DEF Return, Err
  <2> QED
    BY <1>0, <1>7, <2>1, <2>2, <2>3, <2>4, <2>5, <2>6, ReportedEnd
<1>8. CASE /\ At("callee") /\ rets[1].con = "function"
           /\ Go(Append(v, args)) /\ rets' = Drop(1)
           /\ UNCHANGED <<prog, resolved, scopes, functions, funcRet, reported, crashed>>
  <2> DEFINE work == v \o <<args>>
  <2>1. todo # << >> /\ Uses(Top) = 1 /\ Top.do = "callee"
    BY <1>8, AtTop, EntryCounts
  <2>2. Kind(Node) = "call"
    BY <2>1, TopFacts
  <2>3. Entry(args) /\ args.do = "args" /\ args.n = Node /\ args.i = rets[1]
    BY <1>1, <2>1, <2>2, AnEntry DEF Owners, Same, Places
  <2>4. 1 <= Len(rets) /\ rets[1] \in K
    <3>1. 1 \in 1 .. 1
      OBVIOUS
    <3> QED
      BY <1>0, <2>1, <3>1, TypesReturned
  <2>5. args.i \in K /\ args.i.con = "function"
    BY <1>8, <2>3, <2>4
  <2>6. /\ todo' = (v \o <<args>>) \o Tail(todo) /\ prog' = prog /\ resolved' = resolved /\ rets' = Drop(1)
        /\ scopes' = scopes /\ functions' = functions /\ funcRet' = funcRet /\ reported' = reported
        /\ crashed' = crashed
    BY <1>1, <1>8, <2>1, <2>2 DEF Go
  <2> HIDE DEF args
  <2>7. Left(args) = {Node} /\ Needs(args) = {}
    BY <1>1, <2>1, <2>2, <2>3, LeftFacts
  <2>8. /\ Frames(work) /\ \A k \in DOMAIN v : Needs(v[k]) = {}
        /\ \A k \in DOMAIN work : work[k].do = "args" => work[k] = args
    BY <1>1, <2>1, <2>2, <2>3, PlainThen
  <2>9. Ordered'
    <3>1. \A m \in Valued \cap Left(Top) : In(v, m) \/ m \in Left(args)
      <4> SUFFICES ASSUME NEW m \in Valued \cap Left(Top)
                   PROVE  In(v, m) \/ m \in Left(args)
        OBVIOUS
      <4>1. Left(Top) = {Node} \cup UNION {Below(Kids(Node)[k]) : k \in DOMAIN Kids(Node) \ {1}}
        BY <2>1, TopRest
      <4>2. (\E k \in DOMAIN Kids(Node) \ {1} : m \in Below(Kids(Node)[k])) => \E k \in DOMAIN Args(Node) : m \in Below(Args(Node)[k])
        BY <1>1, <2>1, <2>2, BelowArgs
      <4> QED
        BY <1>1, <2>1, <2>2, <2>7, <4>1, <4>2
    <3>2. Kept
      BY <2>6 DEF Kept
    <3> QED
      BY <1>1, <2>1, <2>2, <2>3, <2>6, <2>7, <2>8, <3>1, <3>2, OnwardThen DEF Orderly
  <2>10. Typed'
    <3> HIDE DEF work
    <3>1. Suits(K)'
      BY <1>0, <2>6, SameSuits DEF Typing
    <3>2. rets' \in Seq(K)
      BY <1>0, <2>4, <2>6, DropTypes DEF Typing
    <3>3. /\ funcRet' \in K /\ resolved' \in [N -> K \cup {Null}]
          /\ \A s \in DOMAIN scopes' : \A name \in DOMAIN scopes'[s] : scopes'[s][name] \in K
          /\ \A name \in DOMAIN functions' : Signature(functions'[name], K)
      BY <1>0, <2>6 DEF Typing
    <3>4. \A k \in DOMAIN work : work[k].do = "args" => work[k].i \in K /\ work[k].i.con = "function"
      BY <2>5, <2>8
    <3>5. todo' = work \o Tail(todo) /\ prog' = prog /\ Frames(work)
      BY <2>6, <2>8 DEF work
    <3> QED
      BY <1>0, <2>1, <3>1, <3>2, <3>3, <3>4, <3>5, Retype
  <2> QED
    BY <2>6, <2>9, <2>10 DEF Orderly
<1>9. CASE /\ At("args")
           /\ LET types == Returned(Len(Args(Node)))  f == Head(todo).i IN
              /\ Return(Len(types), Result(f), types # Arguments(f))
              /\ Set(Node, Result(f))
           /\ UNCHANGED <<scopes, crashed>>
  <2> DEFINE types == Returned(Len(Args(Node)))
             t == Result(Top.i)
             bad == types # Arguments(Top.i)
  <2>1. At("args") /\ Return(Len(types), t, bad) /\ Set(Node, t) /\ scopes' = scopes /\ crashed' = crashed
    BY <1>9 DEF Top
  <2>2. todo # << >> /\ Top.do = "args" /\ Uses(Top) = Len(Args(Node))
    BY <2>1, AtTop, EntryCounts
  <2>3. Kind(Node) = "call"
    BY <2>2, TopFacts
  <2>4. Len(types) \in Nat /\ Len(types) <= Len(rets)
    BY <1>0, <2>2, TypesReturned
  <2>5. Fits(t, K)
    BY <1>0, <2>2, CalleeHeld, ResultHeld DEF Fits
  <2>6. Valued \cap Left(Top) \subseteq {Node}
    BY <1>1, <2>2, <2>3, LeftFacts
  <2> HIDE DEF t, types, bad
  <2>7. crashed' => reported'
    BY <2>1 DEF Orderly, Return, Err
  <2> QED
    BY <1>0, <2>1, <2>2, <2>4, <2>5, <2>6, <2>7, Settles
<1> HIDE DEF intrinsic, callee, args, call
<1> QED
  BY <1>3, <1>4, <1>5, <1>6, <1>7, <1>8, <1>9 DEF ResolveCall, intrinsic, callee, args, call, v

\* A step that holds types that were held before.
LEMMA Retyped ==
  ASSUME Control, todo # << >>, prog' = prog, reported \in BOOLEAN, reported' \in BOOLEAN, reported => reported',
         NEW K, Typing(K), rets' \in Seq(K), funcRet' \in K, functions' = functions,
         \A s \in DOMAIN scopes' : \A name \in DOMAIN scopes'[s] : scopes'[s][name] \in K,
         resolved' \in [N -> K \cup {Null}],
         NEW work, Frames(work), todo' = work \o Tail(todo),
         \A k \in DOMAIN work : work[k].do = "args" => work[k].i \in K /\ work[k].i.con = "function"
  PROVE  Typed'
<1>1. PICK L : K \subseteq L /\ Suits(L)'
  <2>1. Suits(K)
    BY DEF Typing
  <2> DEFINE T == {}
  <2>2. \A u \in T : Fits(u, K)
    OBVIOUS
  <2> HIDE DEF T
  <2> QED
    BY <2>1, <2>2, Widen
<1>2. rets' \in Seq(L)
  BY <1>1
<1>3. resolved' \in [N -> L \cup {Null}]
  <2>1. K \cup {Null} \subseteq L \cup {Null}
    BY <1>1
  <2> QED
    BY <2>1
<1>4. funcRet' \in L /\ \A s \in DOMAIN scopes' : \A name \in DOMAIN scopes'[s] : scopes'[s][name] \in L
  BY <1>1
<1>5. \A name \in DOMAIN functions' : Signature(functions'[name], L)
  BY <1>1, Larger
<1>6. \A k \in DOMAIN work : work[k].do = "args" => work[k].i \in L /\ work[k].i.con = "function"
  BY <1>1
<1> QED
  BY <1>1, <1>2, <1>3, <1>4, <1>5, <1>6, Retype

\* A procedure goes on after other calls, and may change the types it has found.
LEMMA Advance ==
  ASSUME Control, Orderly, todo # << >>, NEW v, Frames(v), Plain(v), NEW e, Entry(e), e.do # "args",
         todo' = (v \o <<e>>) \o Tail(todo), prog' = prog, reported' \in BOOLEAN, reported => reported',
         crashed' => reported',
         NEW K, Typing(K), rets' \in Seq(K), funcRet' \in K, functions' = functions,
         \A s \in DOMAIN scopes' : \A name \in DOMAIN scopes'[s] : scopes'[s][name] \in K,
         resolved' \in [N -> K \cup {Null}],
         ~reported' => /\ Kept
                       /\ \A m \in Needs(e) : resolved'[m] # Null \/ In(v, m)
                       /\ \A m \in Valued \cap Left(Top) : resolved'[m] # Null \/ In(v, m) \/ m \in Left(e)
  PROVE  Orderly'
<1> DEFINE work == v \o <<e>>
<1>1. prog \in Programs /\ reported \in BOOLEAN
  BY DEF Control, Shape
<1>2. /\ Frames(work) /\ \A k \in DOMAIN v : Needs(v[k]) = {}
      /\ \A k \in DOMAIN work : work[k].do = "args" => work[k] = e
  BY <1>1, PlainThen
<1>3. Ordered'
  BY <1>2, OnwardThen DEF Orderly
<1> HIDE DEF work
<1>4. Typed'
  <2>1. \A k \in DOMAIN work : work[k].do = "args" => work[k].i \in K /\ work[k].i.con = "function"
    BY <1>2
  <2>2. todo' = work \o Tail(todo) /\ Frames(work)
    BY <1>2 DEF work
  <2> QED
    BY <1>1, <2>1, <2>2, Retyped
<1> QED
  BY <1>3, <1>4 DEF Orderly

\* A procedure returns a type, and has set those of its nodes.
LEMMA Ending ==
  ASSUME Control, Orderly, todo # << >>, NEW K, Typing(K), NEW k, NEW t, NEW bad, Return(k, t, bad),
         k \in Nat, k <= Len(rets), Fits(t, K),
         scopes' = scopes \/ (scopes' = Tail(scopes) /\ Len(scopes) >= 1), crashed' => reported',
         resolved' \in [N -> K \cup {t, Null}],
         ~reported' => Kept /\ \A m \in Valued \cap Left(Top) : resolved'[m] # Null
  PROVE  Orderly'
<1>1. Typed'
  BY Answering
<1>2. prog' = prog /\ todo' = << >> \o Tail(todo) /\ (reported => reported')
  BY DEF Return, Go, Err
<1>3. Ordered'
  BY <1>2, OnwardEnd DEF Orderly
<1> QED
  BY <1>1, <1>3 DEF Orderly

\* The first yield of a block.
LEMMA YieldBelow ==
  ASSUME prog \in Programs, NEW b \in N, FindYields(b) # {}
  PROVE  FirstYield(b) \in N /\ Kind(FirstYield(b)) = "yield" /\ FirstYield(b) \in Valued /\ FirstYield(b) \in Below(b)
<1>1. Kids(b) \in Seq(N) /\ FindYields(b) \in SUBSET Nat
  BY NodeFacts DEF FindYields
<1>2. Min(FindYields(b)) \in FindYields(b)
  <2>1. PICK m \in FindYields(b) : \A n \in FindYields(b) : m <= n
    BY <1>1, Least
  <2> QED
    BY <1>1, <2>1 DEF Min
<1>3. /\ Min(FindYields(b)) \in DOMAIN Kids(b) /\ FirstYield(b) = Kids(b)[Min(FindYields(b))]
      /\ Kind(FirstYield(b)) = "yield"
  BY <1>2 DEF FirstYield, FindYields
<1>4. FirstYield(b) \in N
  BY <1>1, <1>3
<1>5. FirstYield(b) \in Below(b)
  <2>1. b \in Below(b)
    BY BelowSelf
  <2> QED
    BY <1>3, <2>1, BelowClosed
<1> QED
  BY <1>3, <1>4, <1>5 DEF Valued

\* What a call reads is there, as long as there is no error.
LEMMA TopNeeds ==
  ASSUME Control, Orderly, todo # << >>, NEW m \in Needs(Top), ~reported
  PROVE  resolved[m] # Null
<1>1. Frames(todo)
  BY DEF Control, Shape
<1>2. 1 \in DOMAIN todo /\ Top = todo[1]
  BY <1>1, FramesTail DEF Top
<1>3. Given(todo, 1, m)
  BY <1>2 DEF Orderly, Ordered
<1>4. 1 .. 1 - 1 = {}
  OBVIOUS
<1> QED
  BY <1>3, <1>4 DEF Given

\* The type of a node that is read.
LEMMA ReadHeld ==
  ASSUME Control, Orderly, todo # << >>, NEW K, Typing(K), NEW m \in N, m \in Needs(Top)
  PROVE  resolved[m] \in K
<1>1. resolved[m] \in K \cup {Null}
  BY DEF Typing
<1>2. reported => Null \in K
  BY DEF Typing, Suits
<1> QED
  BY <1>1, <1>2, TopNeeds

\* What the branches of an if yield.
LEMMA YieldHeld ==
  ASSUME Control, Orderly, todo # << >>, NEW K, Typing(K), Top.do = "then"
  PROVE  YieldOf(Body(Node)) \in K /\ (~reported => YieldOf(Body(Node)) # Null)
<1>1. Node \in N /\ Kind(Node) = "if" /\ Node = Top.n /\ prog \in Programs
  BY TopFacts
<1>2. Body(Node) \in N
  BY <1>1, BranchFacts
<1>3. CASE FindYields(Body(Node)) = {}
  <2>1. YieldOf(Body(Node)) = Void
    BY <1>3 DEF YieldOf
  <2>2. Void.con # Null.con
    BY DEF Void, Null, Type
  <2>3. Void \in K
    BY DEF Typing, Suits
  <2> QED
    BY <2>1, <2>2, <2>3
<1>4. CASE FindYields(Body(Node)) # {}
  <2> DEFINE m == FirstYield(Body(Node))
  <2>1. YieldOf(Body(Node)) = resolved[m]
    BY <1>4 DEF YieldOf
  <2>2. m \in N
    BY <1>1, <1>2, <1>4, YieldBelow
  <2>3. m \in Needs(Top)
    BY <1>1, <1>4 DEF Needs
  <2> HIDE DEF m
  <2> QED
    BY <2>1, <2>2, <2>3, ReadHeld, TopNeeds
<1> QED
  BY <1>3, <1>4

\* The children of an if.
LEMMA IfKids ==
  ASSUME prog \in Programs, NEW n \in N, Kind(n) = "if"
  PROVE  /\ Kids(n)[1] = Cond(n) /\ Kids(n)[2] = Body(n)
         /\ DOMAIN Kids(n) = IF HasElse(n) THEN {1, 2, 3} ELSE {1, 2}
         /\ HasElse(n) => Kids(n)[3] = Else(n)
<1>1. Len(Kids(n)) \in {2, 3} /\ Kids(n) \in Seq(N)
  BY ChildKinds, NodeFacts
<1>2. DOMAIN Kids(n) = 1 .. Len(Kids(n)) /\ 1 .. 2 = {1, 2} /\ 1 .. 3 = {1, 2, 3}
  BY <1>1
<1>3. DOMAIN Kids(n) = IF HasElse(n) THEN {1, 2, 3} ELSE {1, 2}
  BY <1>1, <1>2 DEF HasElse
<1> QED
  BY <1>3 DEF Cond, Body, Else

\* Some of what returned is dropped.
LEMMA DropHeld ==
  ASSUME Control, todo # << >>, NEW K, Typing(K), Uses(Top) = 1
  PROVE  rets[1] \in K /\ Drop(1) \in Seq(K) /\ 1 <= Len(rets)
<1>1. 1 \in 1 .. 1
  OBVIOUS
<1>2. rets[1] \in K /\ 1 <= Len(rets)
  BY <1>1, TypesReturned
<1> QED
  BY <1>2, DropTypes DEF Typing

\* What an if has left after its first block.
LEMMA LeftThen ==
  ASSUME NEW e, e.do = "then", NEW n, e.n = n
  PROVE  Left(e) = {n} \cup UNION {Below(Kids(n)[k]) : k \in DOMAIN Kids(n) \ {1, 2}}
<1>1. Sets(e) = {n} /\ Pending(e) = DOMAIN Kids(n) \ {1, 2}
  BY DEF Sets, Pending
<1> QED
  BY <1>1 DEF Left

\* An if, at each of its places.
LEMMA IfOrderly ==
  ASSUME Control, Orderly, ResolveIf
  PROVE  Orderly'
<1>0. PICK K : Typing(K)
  BY DEF Orderly, Typed
<1> DEFINE condition == Do("condition", Node, 0)
           then == Do("then", Node, 0)
           else == Do("else", Node, 0)
           call == Do("expr", Cond(Node), 0)
           block(b) == Do("block", b, 0)
<1>1. ASSUME todo # << >>, Kind(Node) = "if"
      PROVE  /\ prog \in Programs /\ Entry(Top) /\ Node \in N /\ Node = Top.n
             /\ Cond(Node) \in N /\ Kind(Cond(Node)) \in Expressions
             /\ Body(Node) \in N /\ Kind(Body(Node)) = "block"
             /\ HasElse(Node) => Else(Node) \in N /\ Kind(Else(Node)) = "block"
  <2>1. prog \in Programs /\ Entry(Top) /\ Node \in N /\ Node = Top.n
    BY <1>1, TopFacts
  <2> QED
    BY <1>1, <2>1, BranchFacts
\* A block that is next.
<1>2. ASSUME todo # << >>, Kind(Node) = "if", NEW b \in N, Kind(b) = "block"
      PROVE  /\ Frames(<<block(b)>>) /\ Plain(<<block(b)>>) /\ \A e : <<block(b), e>> = <<block(b)>> \o <<e>>
             /\ \A m \in Valued : In(<<block(b)>>, m) <=> m \in Below(b)
  <2> DEFINE e == block(b)
  <2>1. Entry(e) /\ e.do = "block" /\ e.n = b
    BY <1>1, <1>2, AnEntry DEF Owners, Same, Places
  <2> HIDE DEF e
  <2>2. /\ Frames(<<e>>) /\ Plain(<<e>>) /\ \A f : <<e, f>> = <<e>> \o <<f>>
        /\ \A m \in Valued : In(<<e>>, m) <=> m \in Below(b)
    BY <1>1, <1>2, <2>1, PlainOne
  <2> QED
    BY <2>2 DEF e
<1> HIDE DEF block
<1>3. CASE Visiting({"if"}) /\ Calls(<<call, condition>>)
  <2>1. At("expr") /\ Kind(Node) = "if" /\ Calls(<<call, condition>>)
    BY <1>3 DEF Visiting
  <2>2. todo # << >> /\ Top.do = "expr"
    BY <2>1, AtTop
  <2>3. Entry(condition) /\ condition.do = "condition" /\ condition.n = Node
    BY <1>1, <2>1, <2>2, AnEntry DEF Owners, Same, Places
  <2>4. Entry(call) /\ call.do = "expr" /\ call.n = Cond(Node)
    BY <1>1, <2>1, <2>2, AnEntry DEF Owners, Same, Places
  <2> HIDE DEF call, condition
  <2>5. /\ Frames(<<call>>) /\ Plain(<<call>>) /\ <<call, condition>> = <<call>> \o <<condition>>
        /\ \A m \in Valued : In(<<call>>, m) <=> m \in Below(Cond(Node))
    BY <1>1, <2>1, <2>2, <2>4, PlainOne
  <2>6. Left(condition) = {Node} \cup UNION {Below(Kids(Node)[k]) : k \in DOMAIN Kids(Node) \ {1}} /\ Needs(condition) = {}
        /\ condition.do # "args"
    BY <2>3, LeftRest
  <2>7. \A m \in Valued \cap Left(Top) : In(<<call>>, m) \/ m \in Left(condition)
    <3> SUFFICES ASSUME NEW m \in Valued \cap Left(Top)
                 PROVE  In(<<call>>, m) \/ m \in Left(condition)
      OBVIOUS
    <3>1. m = Node \/ \E k \in DOMAIN Kids(Node) : m \in Below(Kids(Node)[k])
      BY <1>1, <2>1, <2>2, LeftFacts
    <3>2. m \in Below(Kids(Node)[1]) => In(<<call>>, m)
      BY <1>1, <2>1, <2>2, <2>5, IfKids
    <3> QED
      BY <2>6, <3>1, <3>2
  <2>8. Calls(<<call>> \o <<condition>>)
    BY <2>1, <2>5
  <2> QED
    BY <2>2, <2>3, <2>5, <2>6, <2>7, <2>8, Called
<1>4. CASE /\ At("condition")
           /\ Go(<<block(Body(Node)), then>>)
           /\ rets' = Drop(1) /\ Err(rets[1] # Bool)
           /\ UNCHANGED <<prog, resolved, scopes, functions, funcRet, crashed>>
  <2> DEFINE b == Body(Node)
             v == <<block(b)>>
  <2>1. todo # << >> /\ Uses(Top) = 1 /\ Top.do = "condition"
    BY <1>4, AtTop, EntryCounts
  <2>2. Kind(Node) = "if"
    BY <2>1, TopFacts
  <2>3. Entry(then) /\ then.do = "then" /\ then.n = Node
    BY <1>1, <2>1, <2>2, AnEntry DEF Owners, Same, Places
  <2>4. /\ Frames(v) /\ Plain(v) /\ <<block(b), then>> = v \o <<then>>
        /\ \A m \in Valued : In(v, m) <=> m \in Below(b)
    BY <1>1, <1>2, <2>1, <2>2
  <2>5. Drop(1) \in Seq(K)
    BY <1>0, <2>1, DropHeld
  <2>6. /\ todo' = <<block(b), then>> \o Tail(todo) /\ prog' = prog /\ resolved' = resolved /\ rets' \in Seq(K)
        /\ scopes' = scopes /\ functions' = functions /\ funcRet' = funcRet /\ crashed' = crashed
        /\ reported' \in BOOLEAN /\ (reported => reported')
    BY <1>4, <2>5 DEF Go, Err
  <2>7. todo' = (v \o <<then>>) \o Tail(todo)
    BY <2>4, <2>6
  <2>8. Left(then) = {Node} \cup UNION {Below(Kids(Node)[k]) : k \in DOMAIN Kids(Node) \ {1, 2}} /\ then.do # "args"
    BY <1>1, <2>1, <2>2, <2>3, LeftFacts
  <2>9. \A m \in Needs(then) : In(v, m)
    <3>1. Needs(then) = IF FindYields(b) = {} THEN {} ELSE {FirstYield(b)}
      BY <2>3 DEF Needs
    <3>2. FindYields(b) # {} => FirstYield(b) \in Valued /\ FirstYield(b) \in Below(b)
      BY <1>1, <2>1, <2>2, YieldBelow
    <3> QED
      BY <2>4, <3>1, <3>2
  <2>10. \A m \in Valued \cap Left(Top) : In(v, m) \/ m \in Left(then)
    <3> SUFFICES ASSUME NEW m \in Valued \cap Left(Top)
                 PROVE  In(v, m) \/ m \in Left(then)
      OBVIOUS
    <3>1. Left(Top) = {Node} \cup UNION {Below(Kids(Node)[k]) : k \in DOMAIN Kids(Node) \ {1}}
      BY <2>1, TopRest
    <3>2. m \in Below(Kids(Node)[2]) => In(v, m)
      BY <1>1, <2>1, <2>2, <2>4, IfKids
    <3> QED
      BY <2>8, <3>1, <3>2
  <2>11. Kept
    BY <2>6 DEF Kept
  <2>12. /\ funcRet' \in K /\ resolved' \in [N -> K \cup {Null}]
         /\ \A s \in DOMAIN scopes' : \A name \in DOMAIN scopes'[s] : scopes'[s][name] \in K
    BY <1>0, <2>6 DEF Typing
  <2>13. crashed' => reported'
    BY <2>6 DEF Orderly
  <2> HIDE DEF b, v, then
  <2> QED
    BY <1>0, <2>1, <2>3, <2>4, <2>6, <2>7, <2>8, <2>9, <2>10, <2>11, <2>12, <2>13, Advance
\* The types of an if and of its first branch are those of the yield.
<1>5. ASSUME At("then"), NEW y, y = YieldOf(Body(Node)),
             resolved' = [resolved EXCEPT ![Node] = y, ![Body(Node)] = y]
      PROVE  /\ todo # << >> /\ Top.do = "then" /\ Kind(Node) = "if" /\ Uses(Top) = 0 /\ y \in K
             /\ resolved' \in [N -> K \cup {Null}]
             /\ ~reported => Kept /\ resolved'[Node] # Null
  <2>1. todo # << >> /\ Top.do = "then" /\ Uses(Top) = 0
    BY <1>5, AtTop, EntryCounts
  <2>2. Kind(Node) = "if"
    BY <2>1, TopFacts
  <2>3. y \in K /\ (~reported => y # Null)
    BY <1>0, <1>5, <2>1, YieldHeld
  <2>4. Node \in N /\ Body(Node) \in N /\ resolved \in [N -> K \cup {Null}]
    BY <1>0, <1>1, <2>1, <2>2 DEF Typing
  <2>5. /\ resolved' \in [N -> K \cup {Null}] /\ resolved'[Node] = y
        /\ \A m \in N : resolved'[m] = IF m \in {Node, Body(Node)} THEN y ELSE resolved[m]
    BY <1>5, <2>3, <2>4
  <2>6. ~reported => Kept
    BY <2>3, <2>5 DEF Kept, Valued
  <2> QED
    BY <2>1, <2>2, <2>3, <2>5, <2>6
<1>6. CASE /\ At("then") /\ HasElse(Node)
           /\ resolved' = [resolved EXCEPT ![Node] = YieldOf(Body(Node)), ![Body(Node)] = YieldOf(Body(Node))]
           /\ Go(<<block(Else(Node)), else>>)
           /\ Err(ContainsReturn(Body(Node))) /\ UNCHANGED <<prog, rets, functions, funcRet>>
           /\ UNCHANGED <<scopes, crashed>>
  <2> DEFINE b == Else(Node)
             v == <<block(b)>>
  <2>1. /\ todo # << >> /\ Top.do = "then" /\ Kind(Node) = "if"
        /\ resolved' \in [N -> K \cup {Null}]
        /\ ~reported => Kept /\ resolved'[Node] # Null
    BY <1>5, <1>6
  <2>2. Entry(else) /\ else.do = "else" /\ else.n = Node
    BY <1>1, <1>6, <2>1, AnEntry DEF Owners, Same, Places
  <2>3. /\ Frames(v) /\ Plain(v) /\ <<block(b), else>> = v \o <<else>>
        /\ \A m \in Valued : In(v, m) <=> m \in Below(b)
    BY <1>1, <1>2, <1>6, <2>1
  <2>4. /\ todo' = <<block(b), else>> \o Tail(todo) /\ prog' = prog /\ rets' = rets
        /\ scopes' = scopes /\ functions' = functions /\ funcRet' = funcRet /\ crashed' = crashed
        /\ reported' \in BOOLEAN /\ (reported => reported')
    BY <1>6 DEF Go, Err
  <2>5. todo' = (v \o <<else>>) \o Tail(todo)
    BY <2>3, <2>4
  <2>6. else.do # "args" /\ Needs(else) = {Node}
    BY <2>2 DEF Needs
  <2>7. \A m \in Valued \cap Left(Top) : m = Node \/ In(v, m)
    <3> SUFFICES ASSUME NEW m \in Valued \cap Left(Top)
                 PROVE  m = Node \/ In(v, m)
      OBVIOUS
    <3>0. Top.do = "then" /\ Top.n = Node
      BY <1>1, <2>1
    <3>1. Left(Top) = {Node} \cup UNION {Below(Kids(Node)[k]) : k \in DOMAIN Kids(Node) \ {1, 2}}
      BY <3>0, LeftThen
    <3>2. DOMAIN Kids(Node) = {1, 2, 3} /\ Kids(Node)[3] = b
      BY <1>1, <1>6, <2>1, IfKids
    <3>3. {1, 2, 3} \ {1, 2} = {3}
      OBVIOUS
    <3> QED
      BY <2>3, <3>1, <3>2, <3>3
  <2>8. /\ funcRet' \in K /\ rets' \in Seq(K)
        /\ \A s \in DOMAIN scopes' : \A name \in DOMAIN scopes'[s] : scopes'[s][name] \in K
    BY <1>0, <2>4 DEF Typing
  <2>9. crashed' => reported'
    BY <2>4 DEF Orderly
  <2> HIDE DEF b, v, else
  <2> QED
    BY <1>0, <2>1, <2>2, <2>3, <2>4, <2>5, <2>6, <2>7, <2>8, <2>9, Advance
<1>7. CASE /\ At("then") /\ ~HasElse(Node)
           /\ resolved' = [resolved EXCEPT ![Node] = YieldOf(Body(Node)), ![Body(Node)] = YieldOf(Body(Node))]
           /\ LET yields == FindYields(Body(Node)) # {} IN
              Return(0, IF yields THEN Unknown ELSE Void, yields \/ ContainsReturn(Body(Node)))
           /\ UNCHANGED <<scopes, crashed>>
  <2> DEFINE t == IF FindYields(Body(Node)) # {} THEN Unknown ELSE Void
             bad == FindYields(Body(Node)) # {} \/ ContainsReturn(Body(Node))
  <2>1. /\ todo # << >> /\ Top.do = "then" /\ Kind(Node) = "if" /\ Uses(Top) = 0
        /\ resolved' \in [N -> K \cup {Null}]
        /\ ~reported => Kept /\ resolved'[Node] # Null
    BY <1>5, <1>7
  <2>2. Return(0, t, bad) /\ Fits(t, K) /\ scopes' = scopes /\ crashed' = crashed
    BY <1>7, Fitting
  <2> HIDE DEF t, bad
  <2>3. 0 <= Len(rets)
    BY <2>1, TopFits
  <2>4. (reported => reported') /\ (crashed' => reported')
    BY <2>2 DEF Return, Err, Orderly
  <2>5. resolved' \in [N -> K \cup {t, Null}]
    <3>1. K \cup {Null} \subseteq K \cup {t, Null}
      OBVIOUS
    <3> QED
      BY <2>1, <3>1
  <2>6. Left(Top) = {Node}
    <3>0. Top.do = "then" /\ Top.n = Node
      BY <1>1, <2>1
    <3>1. Left(Top) = {Node} \cup UNION {Below(Kids(Node)[k]) : k \in DOMAIN Kids(Node) \ {1, 2}}
      BY <3>0, LeftThen
    <3>2. DOMAIN Kids(Node) = {1, 2}
      BY <1>1, <1>7, <2>1, IfKids
    <3> QED
      BY <3>1, <3>2
  <2> QED
    BY <1>0, <2>1, <2>2, <2>3, <2>4, <2>5, <2>6, Ending
<1>8. CASE At("else") /\ ResolveIf
  <2> DEFINE b == Else(Node)
             yields == FindYields(b) # {}
             bad == \/ yields # (FindYields(Body(Node)) # {})
                    \/ yields /\ YieldOf(b) # resolved[Node]
             u == IF yields THEN resolved[Node] ELSE Void
             t == IF bad THEN Unknown ELSE u
             err == bad \/ ContainsReturn(b)
  <2>1. /\ Return(0, t, err) /\ scopes' = scopes /\ crashed' = crashed
        /\ resolved' = [resolved EXCEPT ![Node] = u, ![b] = IF yields THEN YieldOf(b) ELSE @]
    BY <1>8 DEF ResolveIf, At, Visiting
  <2>2. todo # << >> /\ Top.do = "else" /\ Uses(Top) = 0
    BY <1>8, AtTop, EntryCounts
  <2>3. Kind(Node) = "if" /\ HasElse(Node)
    BY <2>2, TopFacts
  <2>4. Node \in N /\ b \in N /\ Kind(b) = "block" /\ Node = Top.n /\ prog \in Programs /\ Entry(Top)
    BY <1>1, <2>2, <2>3
  <2>5. Node \in Needs(Top)
    BY <2>2, <2>4 DEF Needs
  <2>6. resolved[Node] \in K /\ (~reported => resolved[Node] # Null)
    BY <1>0, <2>2, <2>4, <2>5, ReadHeld, TopNeeds
  <2>7. Void \in K /\ Unknown \in K /\ resolved \in [N -> K \cup {Null}]
    BY <1>0 DEF Typing, Suits
  <2>8. Void # Null
    <3>1. Void.con # Null.con
      BY DEF Void, Null, Type
    <3> QED
      BY <3>1
  <2>9. yields => YieldOf(b) \in K \cup {Null}
    <3>1. yields => FirstYield(b) \in N
      BY <2>4, YieldBelow
    <3> QED
      BY <2>7, <3>1 DEF YieldOf
  <2>10. u \in K /\ t \in K /\ (~reported => u # Null)
    BY <2>6, <2>7, <2>8
  <2>11. b # Node
    BY <2>3, <2>4
  <2> HIDE DEF b, yields, t, err, u
  <2>12. /\ resolved' \in [N -> K \cup {Null}]
         /\ \A m \in N \ {b} : resolved'[m] = IF m = Node THEN u ELSE resolved[m]
    BY <2>1, <2>4, <2>7, <2>9, <2>10, <2>11
  <2>13. ~reported => Kept
    <3>1. b \notin Valued
      BY <2>4 DEF Valued, Expressions
    <3> QED
      BY <2>10, <2>12, <3>1 DEF Kept, Valued
  <2>14. 0 <= Len(rets)
    BY <2>2, TopFits
  <2>15. (reported => reported') /\ (crashed' => reported')
    BY <2>1 DEF Return, Err, Orderly
  <2>16. Left(Top) = {}
    BY <2>2, <2>4, LeftFacts
  <2>17. Fits(t, K) /\ K \cup {t, Null} = K \cup {Null}
    BY <2>10 DEF Fits
  <2> QED
    BY <1>0, <2>1, <2>2, <2>12, <2>13, <2>14, <2>15, <2>16, <2>17, Ending
<1>9. CASE At("then") /\ ResolveIf
  <2>1. ~At("else") /\ ~At("condition") /\ ~At("expr")
    BY <1>9 DEF At
  <2> HIDE DEF then, condition, call
  <2> QED
    BY <1>6, <1>7, <1>9, <2>1 DEF ResolveIf, Visiting, block, else
<1> QED
  BY <1>3, <1>4, <1>8, <1>9 DEF ResolveIf, block

-----------------------------------------------------------------------------
(* Loops.                                                                  *)

\* Two entries are one and then one.
LEMMA Associates ==
  ASSUME NEW v, Sequence(v), NEW x, NEW y
  PROVE  v \o <<x, y>> = (v \o <<x>>) \o <<y>>
<1>1. PICK T : v \in Seq(T)
  BY DEF Sequence
<1> DEFINE U == T \cup {x, y}
<1>2. v \in Seq(U) /\ x \in U /\ y \in U
  BY <1>1
<1> HIDE DEF U
<1>3. \A f : <<x, f>> = <<x>> \o <<f>>
  OBVIOUS
<1> DEFINE a == <<x>>
           b == <<y>>
<1>4. a \in Seq(U) /\ b \in Seq(U)
  BY <1>2
<1> HIDE DEF a, b
<1>5. v \o (a \o b) = (v \o a) \o b
  BY <1>2, <1>4
<1> QED
  BY <1>3, <1>5 DEF a, b

\* The initial values of a loop are given types in their order.
LEMMA InitsPlain ==
  ASSUME prog \in Programs, Node \in N, Kind(Node) = "for"
  PROVE  /\ Frames(DoInits) /\ Plain(DoInits)
         /\ \A k \in DOMAIN Inits(Node) : \A m \in Valued : m \in Below(Inits(Node)[k]) => In(DoInits, m)
<1> DEFINE inits == Inits(Node)
           work == DoInits
<1>1. Frames(work)
  BY RunsInits DEF Runs
<1>2. inits \in Seq(N) /\ Len(inits) \in Nat
  BY BranchFacts
<1>3. DOMAIN work = 1 .. 2 * Len(inits)
  BY DEF DoInits
<1>4. \A j \in 1 .. 2 * Len(inits) :
        work[j] = IF j % 2 = 1 THEN Do("expr", inits[(j + 1) \div 2], 0) ELSE Do("init", Node, j \div 2)
  BY DEF DoInits
<1> HIDE DEF work, inits
<1>5. Plain(work)
  <2> SUFFICES ASSUME NEW j \in 1 .. 2 * Len(inits)
               PROVE  work[j].do \in {"expr", "init"}
    BY <1>3 DEF Plain
  <2>1. work[j] = Do("expr", inits[(j + 1) \div 2], 0) \/ work[j] = Do("init", Node, j \div 2)
    BY <1>4
  <2> QED
    BY <2>1 DEF Do
<1>6. ASSUME NEW k \in DOMAIN inits, NEW m \in Valued, m \in Below(inits[k])
      PROVE  In(work, m)
  <2> DEFINE j == 2 * k - 1
  <2>1. k \in 1 .. Len(inits)
    BY <1>2
  <2>2. j \in 1 .. 2 * Len(inits) /\ j % 2 = 1 /\ (j + 1) \div 2 = k
    BY <1>2, <2>1
  <2> HIDE DEF j
  <2>3. work[j] = Do("expr", inits[k], 0)
    BY <1>4, <2>2
  <2>4. Entry(work[j]) /\ work[j].do = "expr" /\ work[j].n = inits[k]
    BY <1>1, <1>3, <2>2, <2>3 DEF Frames, Do
  <2>5. m \in Left(work[j])
    BY <1>6, <2>4, LeftFacts
  <2> QED
    BY <1>3, <2>2, <2>5 DEF In
<1> QED
  BY <1>1, <1>5, <1>6 DEF work, inits

\* Plain calls after plain calls.
LEMMA PlainConcat ==
  ASSUME NEW v, Frames(v), Plain(v), NEW w, Frames(w), Plain(w)
  PROVE  Frames(v \o w) /\ Plain(v \o w)
<1> DEFINE a == Len(v)
           b == Len(w)
<1>1. /\ a \in Nat /\ b \in Nat /\ DOMAIN v = 1 .. a /\ DOMAIN w = 1 .. b /\ DOMAIN (v \o w) = 1 .. a + b
      /\ \A k \in 1 .. a : (v \o w)[k] = v[k]
      /\ \A k \in 1 .. b : (v \o w)[a + k] = w[k]
      /\ Frames(v \o w)
  BY FramesConcat
<1> HIDE DEF a, b
<1>2. ASSUME NEW k \in 1 .. a + b
      PROVE  (v \o w)[k].do \in {"expr", "stmt", "block", "init"}
  <2>1. CASE k <= a
    <3>1. k \in 1 .. a
      BY <1>1, <2>1
    <3> QED
      BY <1>1, <3>1 DEF Plain
  <2>2. CASE k > a
    <3>1. k - a \in 1 .. b /\ a + (k - a) = k
      BY <1>1, <2>2
    <3>2. (v \o w)[k] = w[k - a]
      BY <1>1, <3>1
    <3> QED
      BY <1>1, <3>1, <3>2 DEF Plain
  <2> QED
    BY <1>1, <2>1, <2>2
<1> QED
  BY <1>1, <1>2 DEF Plain

\* What is left of a loop.
LEMMA ForKids ==
  ASSUME prog \in Programs, NEW n \in N, Kind(n) = "for", NEW m, \E k \in DOMAIN Kids(n) \ {1} : m \in Below(Kids(n)[k])
  PROVE  m \in Below(Body(n)) \/ \E k \in DOMAIN Inits(n) : m \in Below(Inits(n)[k])
<1>1. PICK k \in DOMAIN Kids(n) \ {1} : m \in Below(Kids(n)[k])
  OBVIOUS
<1>2. Kids(n) \in Seq(N) /\ Len(Kids(n)) \in Nat
  BY NodeFacts
<1>3. CASE k = 2
  BY <1>1, <1>3 DEF Body
<1>4. CASE k # 2
  <2>1. /\ Inits(n) \in Seq(N) /\ Len(Inits(n)) = Len(Kids(n)) - 2
        /\ \A j \in DOMAIN Inits(n) : Inits(n)[j] = Kids(n)[j + 2]
    BY BranchFacts
  <2>2. k - 2 \in DOMAIN Inits(n) /\ (k - 2) + 2 = k
    BY <1>1, <1>2, <1>4, <2>1
  <2> QED
    BY <1>1, <2>1, <2>2
<1> QED
  BY <1>3, <1>4

\* The types of a new innermost scope.
LEMMA PushHeld ==
  ASSUME Sequence(scopes), NEW L, \A s \in DOMAIN scopes : \A name \in DOMAIN scopes[s] : scopes[s][name] \in L,
         NEW scope, \A name \in DOMAIN scope : scope[name] \in L, scopes' = <<scope>> \o scopes
  PROVE  \A s \in DOMAIN scopes' : \A name \in DOMAIN scopes'[s] : scopes'[s][name] \in L
<1>1. PICK S : scopes \in Seq(S)
  BY DEF Sequence
<1> DEFINE U == S \cup {scope}
<1>2. scopes \in Seq(U) /\ scope \in U
  BY <1>1
<1> HIDE DEF U
<1>3. \A s \in DOMAIN scopes' : s = 1 \/ (s - 1 \in DOMAIN scopes /\ scopes'[s] = scopes[s - 1])
  BY <1>2
<1>4. scopes'[1] = scope
  BY <1>2
<1> QED
  BY <1>3, <1>4

\* The first declarations of names have types that are held.
LEMMA FirstOfHeld ==
  ASSUME NEW L, NEW names, Sequence(names), NEW types, \A k \in DOMAIN names : types[k] \in L
  PROVE  \A name \in DOMAIN FirstOf(names, types) : FirstOf(names, types)[name] \in L
<1> SUFFICES ASSUME NEW name \in Range(names)
             PROVE  types[Min({k \in DOMAIN names : names[k] = name})] \in L
  BY DEF FirstOf
<1>1. PICK S : names \in Seq(S)
  BY DEF Sequence
<1> DEFINE at == {k \in DOMAIN names : names[k] = name}
<1>2. at # {} /\ at \in SUBSET Nat
  BY <1>1 DEF Range
<1> HIDE DEF at
<1>3. PICK m \in at : \A n \in at : m <= n
  BY <1>2, Least
<1>4. Min(at) \in at
  BY <1>3 DEF Min
<1> QED
  BY <1>4 DEF at

\* Names declared in the innermost scope have types that are held.
LEMMA RegistHeld ==
  ASSUME Sequence(scopes), NEW L, \A s \in DOMAIN scopes : \A name \in DOMAIN scopes[s] : scopes[s][name] \in L,
         NEW names, Sequence(names), NEW types, \A k \in DOMAIN names : types[k] \in L, Regist(names, types)
  PROVE  \A s \in DOMAIN scopes' : \A name \in DOMAIN scopes'[s] : scopes'[s][name] \in L
<1>1. PICK S : scopes \in Seq(S)
  BY DEF Sequence
<1> DEFINE first == FirstOf(names, types)
           old == scopes[1]
           scope == Emplace(old, names, types)
<1>2. \A name \in DOMAIN first : first[name] \in L
  BY FirstOfHeld
<1>3. DOMAIN first = Range(names)
  BY DEF FirstOf
<1>4. scope = [name \in DOMAIN old \cup Range(names) |-> IF name \in DOMAIN old THEN old[name] ELSE first[name]]
  BY DEF Emplace
<1>5. scopes' = [scopes EXCEPT ![1] = scope]
  BY DEF Regist
<1> HIDE DEF first, old, scope
<1>6. scopes' = [k \in 1 .. Len(scopes) |-> IF k = 1 THEN scope ELSE scopes[k]]
  BY <1>1, <1>5, Replaced
<1>7. DOMAIN scopes = 1 .. Len(scopes)
  BY <1>1
<1>8. 1 \in DOMAIN scopes => \A name \in DOMAIN scope : scope[name] \in L
  BY <1>2, <1>3, <1>4 DEF old
<1> QED
  BY <1>6, <1>7, <1>8

\* No entry at all.
LEMMA FramesNone ==
  Frames(<< >>) /\ DOMAIN << >> = {}
<1>1. Frames(<< >>)
  BY RunsNone DEF Runs
<1>2. DOMAIN << >> = {}
  OBVIOUS
<1> QED
  BY <1>1, <1>2

\* A statement ends, and may have found a type.
LEMMA StatementEnd ==
  ASSUME Control, Orderly, todo # << >>, todo' = << >> \o Tail(todo), prog' = prog, reported' \in BOOLEAN,
         reported => reported', crashed' => reported',
         NEW K, Typing(K), rets' \in Seq(K), funcRet' \in K, functions' = functions,
         \A s \in DOMAIN scopes' : \A name \in DOMAIN scopes'[s] : scopes'[s][name] \in K,
         NEW t, Fits(t, K), resolved' \in [N -> K \cup {t, Null}],
         ~reported' => Kept /\ \A m \in Valued \cap Left(Top) : resolved'[m] # Null
  PROVE  Orderly'
<1>1. reported \in BOOLEAN /\ Suits(K)
  BY DEF Control, Shape, Typing
<1>2. Frames(<< >>) /\ DOMAIN << >> = {}
  BY FramesNone
<1>3. Typed'
  <2>1. PICK L : K \subseteq L /\ {t} \subseteq L /\ Suits(L)'
    <3> DEFINE T == {t}
    <3>1. \A u \in T : Fits(u, K)
      OBVIOUS
    <3> HIDE DEF T
    <3>2. \E L : K \subseteq L /\ T \subseteq L /\ Suits(L)'
      BY <1>1, <3>1, Widen
    <3> QED
      BY <3>2 DEF T
  <2>2. rets' \in Seq(L)
    BY <2>1
  <2>3. resolved' \in [N -> L \cup {Null}]
    <3>1. K \cup {t, Null} \subseteq L \cup {Null}
      BY <2>1
    <3> QED
      BY <3>1
  <2>4. funcRet' \in L /\ \A s \in DOMAIN scopes' : \A name \in DOMAIN scopes'[s] : scopes'[s][name] \in L
    BY <2>1
  <2>5. \A name \in DOMAIN functions' : Signature(functions'[name], L)
    BY <2>1, Larger
  <2> QED
    BY <1>2, <2>1, <2>2, <2>3, <2>4, <2>5, Retype
<1>4. Ordered'
  BY OnwardEnd DEF Orderly
<1> QED
  BY <1>3, <1>4 DEF Orderly

\* The head of a for loop.
LEMMA ForHeadOrderly ==
  ASSUME Control, Orderly, ResolveForHead
  PROVE  Orderly'
<1>0. PICK K : Typing(K)
  BY DEF Orderly, Typed
<1> DEFINE for == Do("for", Node, 0)
           end == Do("for_end", Node, 0)
           call == Do("expr", Bounds(Node), 0)
           block == Do("block", Body(Node), 0)
<1>1. ASSUME todo # << >>, Kind(Node) = "for"
      PROVE  /\ prog \in Programs /\ Entry(Top) /\ Node \in N /\ Node = Top.n
             /\ Bounds(Node) \in N /\ Kind(Bounds(Node)) \in Expressions /\ Bounds(Node) = Kids(Node)[1]
             /\ Body(Node) \in N /\ Kind(Body(Node)) = "block"
  <2>1. prog \in Programs /\ Entry(Top) /\ Node \in N /\ Node = Top.n
    BY <1>1, TopFacts
  <2> QED
    BY <1>1, <2>1, BranchFacts DEF Bounds
<1>2. CASE Visiting({"for"}) /\ Calls(<<call, for>>)
  <2>1. At("expr") /\ Kind(Node) = "for" /\ Calls(<<call, for>>)
    BY <1>2 DEF Visiting
  <2>2. todo # << >> /\ Top.do = "expr"
    BY <2>1, AtTop
  <2>3. Entry(for) /\ for.do = "for" /\ for.n = Node
    BY <1>1, <2>1, <2>2, AnEntry DEF Owners, Same, Places
  <2>4. Entry(call) /\ call.do = "expr" /\ call.n = Bounds(Node)
    BY <1>1, <2>1, <2>2, AnEntry DEF Owners, Same, Places
  <2> HIDE DEF call, for
  <2>5. /\ Frames(<<call>>) /\ Plain(<<call>>) /\ <<call, for>> = <<call>> \o <<for>>
        /\ \A m \in Valued : In(<<call>>, m) <=> m \in Below(Bounds(Node))
    BY <1>1, <2>1, <2>2, <2>4, PlainOne
  <2>6. Left(for) = {Node} \cup UNION {Below(Kids(Node)[k]) : k \in DOMAIN Kids(Node) \ {1}} /\ Needs(for) = {}
        /\ for.do # "args"
    BY <2>3, LeftRest
  <2>7. \A m \in Valued \cap Left(Top) : In(<<call>>, m) \/ m \in Left(for)
    <3> SUFFICES ASSUME NEW m \in Valued \cap Left(Top)
                 PROVE  In(<<call>>, m) \/ m \in Left(for)
      OBVIOUS
    <3>1. m = Node \/ \E k \in DOMAIN Kids(Node) : m \in Below(Kids(Node)[k])
      BY <1>1, <2>1, <2>2, LeftFacts
    <3>2. m \in Below(Kids(Node)[1]) => In(<<call>>, m)
      BY <1>1, <2>1, <2>2, <2>5
    <3> QED
      BY <2>6, <3>1, <3>2
  <2>8. Calls(<<call>> \o <<for>>)
    BY <2>1, <2>5
  <2> QED
    BY <2>2, <2>3, <2>5, <2>6, <2>7, <2>8, Called
<1>3. CASE /\ At("for")
           /\ Go(DoInits \o <<block, end>>)
           /\ scopes' = <<[name \in {Names(Node)[1]} |-> rets[1]]>> \o scopes
           /\ Set(Node, rets[1]) /\ rets' = Drop(1)
           /\ Err(rets[1] \notin Ints) /\ Deref({rets[1]} \ Ints)
           /\ UNCHANGED <<prog, functions, funcRet>>
  <2> DEFINE v == DoInits \o <<block>>
             t == rets[1]
             scope == [name \in {Names(Node)[1]} |-> t]
             read == {t} \ Ints
  <2>1. todo # << >> /\ Uses(Top) = 1 /\ Top.do = "for"
    BY <1>3, AtTop, EntryCounts
  <2>2. Kind(Node) = "for"
    BY <2>1, TopFacts DEF Same
  <2>3. Entry(end) /\ end.do = "for_end" /\ end.n = Node
    BY <1>1, <2>1, <2>2, AnEntry DEF Owners, Same, Places
  <2>4. Entry(block) /\ block.do = "block" /\ block.n = Body(Node)
    BY <1>1, <2>1, <2>2, AnEntry DEF Owners, Same, Places
  <2>5. t \in K /\ Drop(1) \in Seq(K)
    BY <1>0, <2>1, DropHeld
  <2>6. /\ todo' = (DoInits \o <<block, end>>) \o Tail(todo) /\ prog' = prog /\ rets' \in Seq(K) /\ Set(Node, t)
        /\ scopes' = <<scope>> \o scopes /\ functions' = functions /\ funcRet' = funcRet /\ Deref(read)
        /\ reported' \in BOOLEAN /\ (reported => reported')
    BY <1>3, <2>5 DEF Go, Err
  <2>7. read \subseteq K /\ \A name \in DOMAIN scope : scope[name] \in K
    BY <2>5
  <2> HIDE DEF block, end, scope, t, read
  <2>8. /\ Frames(DoInits) /\ Plain(DoInits)
        /\ \A k \in DOMAIN Inits(Node) : \A m \in Valued : m \in Below(Inits(Node)[k]) => In(DoInits, m)
    BY <1>1, <2>1, <2>2, InitsPlain
  <2>9. /\ Frames(<<block>>) /\ Plain(<<block>>)
        /\ \A m \in Valued : In(<<block>>, m) <=> m \in Below(Body(Node))
    BY <1>1, <2>1, <2>2, <2>4, PlainOne
  <2>10. Frames(v) /\ Plain(v) /\ \A m : In(v, m) <=> In(DoInits, m) \/ In(<<block>>, m)
    BY <2>8, <2>9, PlainConcat, InConcat
  <2>11. DoInits \o <<block, end>> = v \o <<end>>
    BY <2>8, Associates DEF Frames
  <2> HIDE DEF v
  <2>12. todo' = (v \o <<end>>) \o Tail(todo)
    BY <2>6, <2>11
  <2>13. Left(end) = {Node} /\ end.do # "args" /\ Needs(end) = Range(Inits(Node))
    <3>1. Left(end) = {Node}
      BY <1>1, <2>1, <2>2, <2>3, LeftFacts
    <3> QED
      BY <2>3, <3>1 DEF Needs
  <2>14. \A m \in Needs(end) : In(v, m)
    <3> SUFFICES ASSUME NEW k \in DOMAIN Inits(Node)
                 PROVE  In(v, Inits(Node)[k])
      BY <2>13 DEF Range
    <3>1. Inits(Node)[k] \in N /\ Kind(Inits(Node)[k]) \in Expressions
      BY <1>1, <2>1, <2>2, BranchFacts
    <3>2. Inits(Node)[k] \in Valued /\ Inits(Node)[k] \in Below(Inits(Node)[k])
      BY <3>1, BelowSelf DEF Valued
    <3> QED
      BY <2>8, <2>10, <3>2
  <2>15. \A m \in Valued \cap Left(Top) : In(v, m) \/ m \in Left(end)
    <3> SUFFICES ASSUME NEW m \in Valued \cap Left(Top)
                 PROVE  In(v, m) \/ m \in Left(end)
      OBVIOUS
    <3>1. m = Node \/ \E k \in DOMAIN Kids(Node) \ {1} : m \in Below(Kids(Node)[k])
      <4>1. Left(Top) = {Node} \cup UNION {Below(Kids(Node)[k]) : k \in DOMAIN Kids(Node) \ {1}}
        BY <2>1, TopRest
      <4> QED
        BY <4>1
    <3>2. m = Node \/ m \in Below(Body(Node)) \/ \E k \in DOMAIN Inits(Node) : m \in Below(Inits(Node)[k])
      BY <1>1, <2>1, <2>2, <3>1, ForKids
    <3> QED
      BY <2>8, <2>9, <2>10, <2>13, <3>2
  <2>16. crashed' => reported'
    BY <1>0, <2>6, <2>7, ReadsHeld
  <2>17. resolved' \in [N -> K \cup {Null}] /\ (~reported' => Kept)
    <3>1. Node \in N /\ resolved \in [N -> K \cup {Null}]
      BY <1>0, <1>1, <2>1, <2>2 DEF Typing
    <3>2. resolved' \in [N -> (K \cup {Null}) \cup {t}]
      BY <2>6, <3>1, SetOne
    <3>3. (K \cup {Null}) \cup {t} = K \cup {Null}
      BY <2>5
    <3>4. ~reported' => t # Null
      BY <1>0, <2>5, <2>6, FitsObject DEF Fits
    <3>5. ~reported' => Kept
      BY <2>6, <3>1, <3>4, SetKept
    <3> QED
      BY <3>2, <3>3, <3>5
  <2>18. funcRet' \in K /\ \A s \in DOMAIN scopes' : \A name \in DOMAIN scopes'[s] : scopes'[s][name] \in K
    <3>1. funcRet' \in K /\ \A s \in DOMAIN scopes : \A name \in DOMAIN scopes[s] : scopes[s][name] \in K
      BY <1>0, <2>6 DEF Typing
    <3>2. Sequence(scopes) /\ scopes' = <<scope>> \o scopes
      BY <2>6 DEF Control
    <3> QED
      BY <2>7, <3>1, <3>2, PushHeld
  <2> QED
    BY <1>0, <2>1, <2>3, <2>6, <2>10, <2>12, <2>13, <2>14, <2>15, <2>16, <2>17, <2>18, Advance
<1>4. CASE /\ At("init") /\ Go(<< >>) /\ rets' = Drop(1)
           /\ Regist(<<Names(Node)[1 + Head(todo).i]>>, <<rets[1]>>)
           /\ UNCHANGED <<prog, resolved, functions, funcRet, reported, crashed>>
  <2> DEFINE names == <<Names(Node)[1 + Head(todo).i]>>
             types == <<rets[1]>>
  <2>1. todo # << >> /\ Uses(Top) = 1 /\ Top.do = "init"
    BY <1>4, AtTop, EntryCounts
  <2>2. prog \in Programs /\ Entry(Top)
    BY <2>1, TopFacts
  <2>3. rets[1] \in K /\ Drop(1) \in Seq(K)
    BY <1>0, <2>1, DropHeld
  <2>4. Sequence(names) /\ \A k \in DOMAIN names : types[k] \in K
    <3>1. names \in Seq({names[1]}) /\ DOMAIN names = 1 .. 1 /\ types[1] = rets[1]
      OBVIOUS
    <3>2. \A k \in 1 .. 1 : k = 1
      OBVIOUS
    <3> QED
      BY <2>3, <3>1, <3>2 DEF Sequence
  <2>5. Regist(names, types)
    BY <1>4
  <2> HIDE DEF names, types
  <2>6. \A s \in DOMAIN scopes' : \A name \in DOMAIN scopes'[s] : scopes'[s][name] \in K
    <3>1. Sequence(scopes) /\ \A s \in DOMAIN scopes : \A name \in DOMAIN scopes[s] : scopes[s][name] \in K
      BY <1>0 DEF Control, Typing
    <3> QED
      BY <2>4, <2>5, <3>1, RegistHeld
  <2>7. /\ todo' = << >> \o Tail(todo) /\ prog' = prog /\ resolved' = resolved /\ rets' \in Seq(K)
        /\ functions' = functions /\ funcRet' = funcRet /\ reported' = reported /\ crashed' = crashed
    BY <1>4, <2>3 DEF Go
  <2>8. funcRet' \in K /\ resolved' \in [N -> K \cup {Void, Null}] /\ Kept /\ Fits(Void, K)
    <3>1. K \cup {Null} \subseteq K \cup {Void, Null}
      OBVIOUS
    <3> QED
      BY <1>0, <2>7, <3>1, Fitting DEF Typing, Kept
  <2>9. Left(Top) = {}
    BY <2>1, <2>2, LeftFacts
  <2>10. reported' \in BOOLEAN /\ (reported => reported') /\ (crashed' => reported')
    BY <2>7 DEF Control, Shape, Orderly
  <2> QED
    BY <1>0, <2>1, <2>6, <2>7, <2>8, <2>9, <2>10, StatementEnd
<1> QED
  BY <1>2, <1>3, <1>4 DEF ResolveForHead

\* Its end.
LEMMA ForEndOrderly ==
  ASSUME Control, Orderly, ResolveForEnd
  PROVE  Orderly'
<1>0. PICK K : Typing(K)
  BY DEF Orderly, Typed
<1> DEFINE b == Body(Node)
           inits == Inits(Node)
           expect == [k \in DOMAIN inits |-> resolved[inits[k]]]
           yields == FindYields(b) # {}
           values == IF yields THEN Kids(FirstYield(b)) ELSE << >>
           actual == [k \in DOMAIN values |-> resolved[values[k]]]
           differ == IF Len(values) # Len(inits) THEN {}
                     ELSE {k \in DOMAIN inits : expect[k] # actual[k]}
           t == IF inits = << >> THEN Void ELSE TupleType(expect)
           bad == ContainsReturn(b) \/ Len(values) # Len(inits) \/ differ # {}
           y == YieldOf(b)
<1>1. /\ At("for_end") /\ Return(0, t, bad) /\ scopes' = Tail(scopes)
      /\ resolved' = [resolved EXCEPT ![Node] = t, ![b] = y]
      /\ Deref({expect[k] : k \in differ} \cup {actual[k] : k \in differ})
  BY DEF ResolveForEnd, PopScope
<1>2. todo # << >> /\ Top.do = "for_end" /\ Closes(Top) = 1
  BY <1>1, AtTop, EntryCounts
<1>3. prog \in Programs /\ Entry(Top) /\ Node \in N /\ Node = Top.n /\ Kind(Node) = "for"
  BY <1>2, TopFacts
<1>4. /\ b \in N /\ Kind(b) = "block" /\ inits \in Seq(N)
  BY <1>3, BranchFacts
<1>5. Left(Top) = {Node} /\ Needs(Top) = Range(inits)
  <2>1. Left(Top) = {Node}
    BY <1>2, <1>3, LeftFacts
  <2> QED
    BY <1>2, <1>3, <2>1 DEF Needs
<1>6. expect \in Seq(K)
  <2>1. \A k \in DOMAIN inits : resolved[inits[k]] \in K
    BY <1>0, <1>2, <1>4, <1>5, ReadHeld DEF Range
  <2>2. Len(inits) \in Nat /\ DOMAIN inits = 1 .. Len(inits)
    BY <1>4
  <2>3. expect \in [1 .. Len(inits) -> K]
    BY <2>1, <2>2
  <2> HIDE DEF expect, inits
  <2> QED
    BY <2>2, <2>3
<1>7. Fits(t, K) /\ t # Null
  <2> HIDE DEF expect, inits
  <2>1. Fits(TupleType(expect), K)
    BY <1>6 DEF Fits, TupleType, Type, Constructors
  <2>2. TupleType(expect).con # Null.con /\ Void.con # Null.con
    BY DEF TupleType, Void, Null, Type
  <2> QED
    BY <2>1, <2>2, Fitting
<1>8. y \in K \cup {Null}
  <2>1. yields => FirstYield(b) \in N
    BY <1>3, <1>4, YieldBelow
  <2>2. Void \in K /\ resolved \in [N -> K \cup {Null}]
    BY <1>0 DEF Typing, Suits
  <2> QED
    BY <2>1, <2>2 DEF YieldOf
<1>9. reported => reported'
  BY <1>1 DEF Return, Err
<1>10. crashed' => reported'
  <2>1. crashed' => differ # {}
    BY <1>1 DEF Deref
  <2>2. differ # {} => reported'
    BY <1>1 DEF Return, Err
  <2> QED
    BY <2>1, <2>2
<1>11. b # Node /\ b \notin Valued
  BY <1>3, <1>4 DEF Valued, Expressions
<1> HIDE DEF b, t, y, bad
<1>12. /\ resolved' \in [N -> K \cup {t, Null}] /\ resolved'[Node] = t
       /\ \A m \in N \ {Node, b} : resolved'[m] = resolved[m]
  <2>1. resolved \in [N -> K \cup {Null}]
    BY <1>0 DEF Typing
  <2> QED
    BY <1>1, <1>3, <1>4, <1>8, <1>11, <2>1
<1>13. Kept
  BY <1>7, <1>11, <1>12 DEF Kept, Valued
<1>14. Len(scopes) >= 1 /\ 0 <= Len(rets)
  BY <1>2, TopFits
<1> QED
  BY <1>0, <1>1, <1>2, <1>5, <1>7, <1>10, <1>12, <1>13, <1>14, Ending

-----------------------------------------------------------------------------
(* Statements.                                                             *)

\* What ends a statement.
LEMMA EndsFacts ==
  ASSUME Control, Orderly, todo # << >>, NEW K, Typing(K), NEW k, k = Uses(Top), NEW bad, Ends(k, bad)
  PROVE  /\ todo' = << >> \o Tail(todo) /\ prog' = prog /\ rets' \in Seq(K) /\ funcRet' \in K
         /\ functions' = functions /\ reported' \in BOOLEAN /\ (reported => reported') /\ (bad => reported')
<1>1. Drop(k) \in Seq(K)
  <2>1. k \in Nat /\ k <= Len(rets)
    BY TypesReturned
  <2> QED
    BY <2>1, DropTypes DEF Typing
<1> QED
  BY <1>1 DEF Ends, Go, Err, Typing

\* The scopes stay.
LEMMA ScopesHeld ==
  ASSUME NEW K, Typing(K), scopes' = scopes
  PROVE  \A s \in DOMAIN scopes' : \A name \in DOMAIN scopes'[s] : scopes'[s][name] \in K
BY DEF Typing

\* The type of a statement is set, or an error reported.
LEMMA StatementSets ==
  ASSUME Control, Orderly, todo # << >>, NEW K, Typing(K), NEW k, k = Uses(Top), NEW bad, Ends(k, bad),
         crashed' => reported', \A s \in DOMAIN scopes' : \A name \in DOMAIN scopes'[s] : scopes'[s][name] \in K,
         NEW t, Fits(t, K), Valued \cap Left(Top) \subseteq {Node},
         Set(Node, t) \/ (resolved' = resolved /\ (bad \/ Valued \cap Left(Top) = {}))
  PROVE  Orderly'
<1>1. /\ todo' = << >> \o Tail(todo) /\ prog' = prog /\ rets' \in Seq(K) /\ funcRet' \in K
      /\ functions' = functions /\ reported' \in BOOLEAN /\ (reported => reported') /\ (bad => reported')
  BY EndsFacts
<1>2. Node \in N /\ resolved \in [N -> K \cup {Null}]
  BY TopFacts DEF Typing
<1>3. (K \cup {Null}) \cup {t} = K \cup {t, Null} /\ K \cup {Null} \subseteq K \cup {t, Null}
  OBVIOUS
<1>4. CASE Set(Node, t)
  <2>1. resolved' \in [N -> K \cup {t, Null}] /\ resolved'[Node] = t
    BY <1>2, <1>3, <1>4, SetOne
  <2>2. ~reported' => t # Null
    BY <1>1, FitsObject
  <2>3. ~reported' => Kept
    BY <1>2, <1>4, <2>2, SetKept
  <2>4. ~reported' => Kept /\ \A m \in Valued \cap Left(Top) : resolved'[m] # Null
    BY <2>1, <2>2, <2>3
  <2> QED
    BY <1>1, <2>1, <2>4, StatementEnd
<1>5. CASE resolved' = resolved /\ (bad \/ Valued \cap Left(Top) = {})
  <2>1. resolved' \in [N -> K \cup {t, Null}]
    BY <1>2, <1>3, <1>5
  <2>2. ~reported' => Kept /\ \A m \in Valued \cap Left(Top) : resolved'[m] # Null
    BY <1>1, <1>5 DEF Kept
  <2> QED
    BY <1>1, <2>1, <2>2, StatementEnd
<1> QED
  BY <1>4, <1>5

\* A declaration of variables.
LEMMA VarOrderly ==
  ASSUME Control, Orderly, ResolveVarDecl
  PROVE  Orderly'
<1>0. PICK K : Typing(K)
  BY DEF Orderly, Typed
<1> DEFINE t == rets[1]
           names == Names(Node)
           types == IF t.con = "tuple" THEN t.parts ELSE <<t>>
           fits == Len(names) = Len(types)
           bad == ~fits \/ \E k \in DOMAIN types : types[k] = Void
<1>1. /\ At("var") /\ Ends(1, bad) /\ (fits => Regist(names, types)) /\ (~fits => scopes' = scopes)
      /\ Set(Node, t) /\ Deref({t})
  BY DEF ResolveVarDecl
<1>2. todo # << >> /\ Top.do = "var"
  BY <1>1, AtTop
<1>3. prog \in Programs /\ Entry(Top) /\ Node \in N /\ Node = Top.n /\ Kind(Node) = "var"
  BY <1>2, TopFacts DEF Same
<1>4. Uses(Top) = 1
  BY <1>2, <1>3, EntryCounts, ChildKinds
<1>5. t \in K
  BY <1>0, <1>2, <1>4, DropHeld
<1>6. types \in Seq(K)
  <2>1. t.parts \in Seq(K) /\ <<t>> \in Seq(K)
    BY <1>0, <1>5 DEF Typing, Suits, Kit
  <2> QED
    BY <2>1
<1>7. names \in Seq(STRING)
  BY <1>3, NodeFacts
<1>8. Left(Top) = {Node} /\ Valued \cap Left(Top) \subseteq {Node}
  BY <1>2, <1>3, LeftFacts
<1> HIDE DEF types, names, t, bad
<1>9. fits => Sequence(names) /\ \A k \in DOMAIN names : types[k] \in K
  BY <1>6, <1>7 DEF Sequence
<1>10. \A s \in DOMAIN scopes' : \A name \in DOMAIN scopes'[s] : scopes'[s][name] \in K
  <2>1. Sequence(scopes) /\ \A s \in DOMAIN scopes : \A name \in DOMAIN scopes[s] : scopes[s][name] \in K
    BY <1>0 DEF Control, Typing
  <2>2. CASE fits
    BY <1>1, <1>9, <2>1, <2>2, RegistHeld
  <2>3. CASE ~fits
    BY <1>1, <2>1, <2>3
  <2> QED
    BY <2>2, <2>3
<1>11. crashed' => reported'
  <2>1. reported => reported'
    BY <1>0, <1>1, <1>2, <1>4, EndsFacts
  <2>2. {t} \subseteq K
    BY <1>5
  <2> HIDE DEF fits
  <2> QED
    BY <1>0, <1>1, <2>1, <2>2, ReadsHeld
<1>12. Fits(t, K)
  BY <1>5 DEF Fits
<1> QED
  BY <1>0, <1>1, <1>2, <1>4, <1>8, <1>10, <1>11, <1>12, StatementSets

\* A statement without a value is done, and has nothing left to give a type.
LEMMA PlainLeft ==
  ASSUME Control, todo # << >>, Top.do = "stmt", Kids(Node) = << >>
  PROVE  Valued \cap Left(Top) \subseteq {Node} /\ (Kind(Node) = "expr_stmt" => Valued \cap Left(Top) = {})
<1>1. prog \in Programs /\ Entry(Top) /\ Node = Top.n
  BY TopFacts
<1>2. \A m \in Valued : m \in Left(Top) => m = Node
  BY <1>1, LeftFacts
<1>3. Kind(Node) = "expr_stmt" => Node \notin Valued
  BY DEF Valued, Expressions
<1> QED
  BY <1>2, <1>3

\* The other statements with values.
LEMMA StatementOrderly ==
  ASSUME Control, Orderly, ResolveReturn \/ ResolveYield \/ ResolveExprStmt
  PROVE  Orderly'
<1>0. PICK K : Typing(K)
  BY DEF Orderly, Typed
<1>a. reported \in BOOLEAN /\ (crashed => reported)
  BY DEF Control, Shape, Orderly
<1>1. CASE \/ Stating("return") /\ Ends(0, TRUE) /\ UNCHANGED <<resolved, scopes, crashed>>
           \/ Stating("yield") /\ Kids(Node) = << >> /\ Ends(0, TRUE) /\ UNCHANGED <<resolved, scopes, crashed>>
  <2>1. todo # << >> /\ Top.do = "stmt" /\ Kind(Node) \in {"return", "yield"}
        /\ Ends(0, TRUE) /\ resolved' = resolved /\ scopes' = scopes /\ crashed' = crashed
    BY <1>1, AtTop DEF Stating
  <2>2. Uses(Top) = 0
    BY <2>1, EntryCounts
  <2>3. reported'
    BY <2>1 DEF Ends, Err
  <2>4. /\ todo' = << >> \o Tail(todo) /\ prog' = prog /\ rets' \in Seq(K) /\ funcRet' \in K
        /\ functions' = functions /\ reported' \in BOOLEAN /\ (reported => reported')
    BY <1>0, <2>1, <2>2, EndsFacts
  <2>5. \A s \in DOMAIN scopes' : \A name \in DOMAIN scopes'[s] : scopes'[s][name] \in K
    BY <1>0, <2>1, ScopesHeld
  <2>6. resolved' \in [N -> K \cup {Void, Null}] /\ Fits(Void, K)
    <3>1. K \cup {Null} \subseteq K \cup {Void, Null}
      OBVIOUS
    <3> QED
      BY <1>0, <2>1, <3>1, Fitting DEF Typing
  <2> QED
    BY <1>0, <2>1, <2>3, <2>4, <2>5, <2>6, StatementEnd
<1>2. CASE \/ Stating("return") /\ Allowed /\ Kids(Node) = << >>
           \/ At("return")
  <2> DEFINE t == IF At("return") THEN rets[1] ELSE Void
             read == IF t # funcRet THEN {t} ELSE {}
             bad == t # funcRet
  <2>0. ResolveReturn
    <3>1. ~Stating("yield") /\ ~Stating("expr_stmt") /\ ~At("yield") /\ ~At("expr_stmt")
      BY <1>2 DEF Stating, At
    <3> QED
      BY <3>1 DEF ResolveYield, ResolveExprStmt
  <2>1. Ends(Len(Kids(Node)), bad) /\ Set(Node, t) /\ Deref(read) /\ scopes' = scopes
    <3>1. ~(Stating("return") /\ ~Allowed)
      BY <1>2 DEF Stating, At
    <3> QED
      BY <2>0, <3>1 DEF ResolveReturn
  <2>2. todo # << >> /\ (Top.do = "return" \/ (Top.do = "stmt" /\ Kind(Node) = "return" /\ Kids(Node) = << >>))
    BY <1>2, AtTop DEF Stating
  <2>3. prog \in Programs /\ Entry(Top) /\ Node \in N /\ Node = Top.n /\ Kids(Node) \in Seq(N)
    BY <2>2, TopFacts
  <2>4. Uses(Top) = Len(Kids(Node)) /\ (Top.do = "return" => Uses(Top) = 1)
    <3>1. CASE Top.do = "return"
      <4>1. Kind(Node) = "return" /\ Kids(Node) # << >>
        BY <2>2, <3>1, TopFacts DEF Same
      <4>2. Len(Kids(Node)) \in {0, 1}
        BY <2>3, <4>1, ChildKinds
      <4>3. Len(Kids(Node)) = 1
        BY <2>3, <4>1, <4>2
      <4> QED
        BY <2>3, <3>1, <4>3, EntryCounts
    <3>2. CASE Top.do = "stmt"
      <4>1. Kids(Node) = << >>
        BY <2>2, <3>2
      <4>2. Len(Kids(Node)) = 0
        BY <4>1
      <4> QED
        BY <3>2, <4>2, EntryCounts
    <3> QED
      BY <2>2, <3>1, <3>2
  <2>5. t \in K /\ funcRet \in K
    <3>1. At("return") => Top.do = "return"
      BY AtTop
    <3>2. Top.do = "return" => rets[1] \in K
      BY <1>0, <2>2, <2>4, DropHeld
    <3> QED
      BY <1>0, <3>1, <3>2 DEF Typing, Suits
  <2>6. Valued \cap Left(Top) \subseteq {Node}
    <3>1. Top.do = "return" => Left(Top) = {Node}
      BY <2>3, LeftFacts
    <3> QED
      BY <2>2, <3>1, PlainLeft
  <2>7. read \subseteq K
    BY <2>5
  <2> HIDE DEF t, read, bad
  <2>8. reported => reported'
    BY <1>0, <2>1, <2>2, <2>4, EndsFacts
  <2>9. crashed' => reported'
    BY <1>0, <2>1, <2>7, <2>8, ReadsHeld
  <2>10. \A s \in DOMAIN scopes' : \A name \in DOMAIN scopes'[s] : scopes'[s][name] \in K
    BY <1>0, <2>1, ScopesHeld
  <2>11. Fits(t, K)
    BY <2>5 DEF Fits
  <2> QED
    BY <1>0, <2>1, <2>2, <2>4, <2>6, <2>9, <2>10, <2>11, StatementSets
<1>3. CASE At("yield") /\ ResolveYield
  <2> DEFINE types == Returned(Len(Kids(Node)))
             t == TupleType(types)
  <2>1. Ends(Len(Kids(Node)), FALSE) /\ Set(Node, t) /\ scopes' = scopes /\ crashed' = crashed
    <3>1. ~Stating("yield")
      BY <1>3 DEF Stating, At
    <3> QED
      BY <1>3, <3>1 DEF ResolveYield
  <2>2. todo # << >> /\ Top.do = "yield"
    BY <1>3, AtTop
  <2>3. prog \in Programs /\ Entry(Top) /\ Node = Top.n
    BY <2>2, TopFacts
  <2>4. Uses(Top) = Len(Kids(Node))
    BY <2>2, <2>3, EntryCounts
  <2>5. types \in Seq(K)
    BY <1>0, <2>2, <2>4, TypesReturned
  <2> HIDE DEF types
  <2>6. Fits(t, K)
    BY <2>5 DEF Fits, TupleType, Type, Constructors
  <2>7. Valued \cap Left(Top) \subseteq {Node}
    BY <2>2, <2>3, LeftFacts
  <2> HIDE DEF t
  <2>8. reported => reported'
    BY <1>0, <2>1, <2>2, <2>4, EndsFacts
  <2>9. crashed' => reported'
    BY <1>a, <2>1, <2>8
  <2>10. \A s \in DOMAIN scopes' : \A name \in DOMAIN scopes'[s] : scopes'[s][name] \in K
    BY <1>0, <2>1, ScopesHeld
  <2> QED
    BY <1>0, <2>1, <2>2, <2>4, <2>6, <2>7, <2>9, <2>10, StatementSets
<1>4. CASE /\ Stating("expr_stmt") /\ Kids(Node) = << >> /\ Ends(0, FALSE)
           /\ UNCHANGED <<resolved, scopes, crashed>>
  <2>1. todo # << >> /\ Top.do = "stmt" /\ Kind(Node) = "expr_stmt" /\ Kids(Node) = << >>
        /\ Ends(0, FALSE) /\ resolved' = resolved /\ scopes' = scopes /\ crashed' = crashed
    BY <1>4, AtTop DEF Stating
  <2>2. Uses(Top) = 0
    BY <2>1, EntryCounts
  <2>3. Valued \cap Left(Top) = {} /\ Valued \cap Left(Top) \subseteq {Node}
    BY <2>1, PlainLeft
  <2>4. reported => reported'
    BY <1>0, <2>1, <2>2, EndsFacts
  <2>5. crashed' => reported'
    BY <1>a, <2>1, <2>4
  <2>6. \A s \in DOMAIN scopes' : \A name \in DOMAIN scopes'[s] : scopes'[s][name] \in K
    BY <1>0, <2>1, ScopesHeld
  <2>7. Fits(Void, K)
    BY Fitting
  <2> QED
    BY <1>0, <2>1, <2>2, <2>3, <2>5, <2>6, <2>7, StatementSets
<1>5. CASE At("expr_stmt") /\ ResolveExprStmt
  <2> DEFINE t == resolved[Kids(Node)[1]]
  <2>1. Ends(1, FALSE) /\ Set(Node, t) /\ scopes' = scopes /\ crashed' = crashed
    <3>1. ~Stating("expr_stmt")
      BY <1>5 DEF Stating, At
    <3> QED
      BY <1>5, <3>1 DEF ResolveExprStmt
  <2>2. todo # << >> /\ Top.do = "expr_stmt"
    BY <1>5, AtTop
  <2>3. prog \in Programs /\ Entry(Top) /\ Node \in N /\ Node = Top.n /\ Kind(Node) = "expr_stmt"
        /\ Kids(Node) \in Seq(N) /\ Kids(Node) # << >>
    BY <2>2, TopFacts DEF Same
  <2>4. Len(Kids(Node)) = 1
    <3>1. Len(Kids(Node)) \in {0, 1}
      BY <2>3, ChildKinds
    <3> QED
      BY <2>3, <3>1
  <2>5. Uses(Top) = 1
    BY <2>2, <2>3, <2>4, EntryCounts
  <2>6. resolved \in [N -> K \cup {Null}] /\ Void \in K
    BY <1>0 DEF Typing, Suits
  <2>7. t \in K \cup {Null}
    BY <2>3, <2>4, <2>6
  <2>8. Left(Top) = {Node} /\ Node \notin Valued
    <3>1. Left(Top) = {Node}
      BY <2>2, <2>3, LeftFacts
    <3> QED
      BY <2>3, <3>1 DEF Valued, Expressions
  <2> HIDE DEF t
  <2>9. resolved' \in [N -> K \cup {Void, Null}] /\ Kept
    <3>1. /\ resolved' \in [N -> (K \cup {Null}) \cup {t}] /\ \A m \in N : m # Node => resolved'[m] = resolved[m]
      BY <2>1, <2>3, <2>6, SetOne
    <3>2. (K \cup {Null}) \cup {t} = K \cup {Void, Null}
      BY <2>6, <2>7
    <3>3. Kept
      BY <2>8, <3>1 DEF Kept, Valued
    <3> QED
      BY <3>1, <3>2, <3>3
  <2>10. /\ todo' = << >> \o Tail(todo) /\ prog' = prog /\ rets' \in Seq(K) /\ funcRet' \in K
         /\ functions' = functions /\ reported' \in BOOLEAN /\ (reported => reported')
    BY <1>0, <2>1, <2>2, <2>5, EndsFacts
  <2>11. crashed' => reported'
    BY <1>a, <2>1, <2>10
  <2>12. \A s \in DOMAIN scopes' : \A name \in DOMAIN scopes'[s] : scopes'[s][name] \in K
    BY <1>0, <2>1, ScopesHeld
  <2>13. Fits(Void, K) /\ \A m \in Valued \cap Left(Top) : resolved'[m] # Null
    BY <2>8, Fitting
  <2> QED
    BY <1>0, <2>2, <2>9, <2>10, <2>11, <2>12, <2>13, StatementEnd
<1> QED
  BY <1>1, <1>2, <1>3, <1>4, <1>5 DEF ResolveReturn, ResolveYield, ResolveExprStmt
\* A block opens a scope, and in the end closes it.
LEMMA BlockOrderly ==
  ASSUME Control, Orderly, ResolveBlock
  PROVE  Orderly'
<1>0. PICK K : Typing(K)
  BY DEF Orderly, Typed
<1>a. reported \in BOOLEAN /\ (crashed => reported)
  BY DEF Control, Shape, Orderly
<1>1. CASE /\ At("block") \/ Stating("block")
           /\ Go(Append(DoAll("stmt", Kids(Node), 0), Do("pop_scope", Node, 0)))
           /\ scopes' = <<<< >>>> \o scopes
           /\ UNCHANGED <<prog, resolved, rets, functions, funcRet, reported, crashed>>
  <2> DEFINE e == Do("pop_scope", Node, 0)
             v == DoAll("stmt", Kids(Node), 0)
             scope == << >>
  <2>1. todo # << >> /\ (Top.do = "block" \/ (Top.do = "stmt" /\ Kind(Node) = "block"))
    BY <1>1, AtTop DEF Stating
  <2>2. prog \in Programs /\ Entry(Top) /\ Node \in N /\ Node = Top.n /\ Kids(Node) \in Seq(N) /\ Kind(Node) = "block"
    BY <2>1, TopFacts
  <2>3. /\ todo' = Append(v, e) \o Tail(todo) /\ prog' = prog /\ resolved' = resolved /\ rets' = rets
        /\ functions' = functions /\ funcRet' = funcRet /\ reported' = reported /\ crashed' = crashed
        /\ scopes' = <<scope>> \o scopes
    BY <1>1 DEF Go
  <2>4. \A name \in DOMAIN scope : scope[name] \in K
    OBVIOUS
  <2>5. Entry(e) /\ e.do = "pop_scope" /\ e.n = Node
    BY <2>2, AnEntry DEF Owners, Same, Places
  <2>6. \A k \in DOMAIN Kids(Node) : Kind(Kids(Node)[k]) \in Statements
    BY <2>2, ChildKinds
  <2>7. /\ Frames(v) /\ Plain(v) /\ Append(v, e) = v \o <<e>>
        /\ \A m \in Valued : In(v, m) <=> \E k \in DOMAIN Kids(Node) : m \in Below(Kids(Node)[k])
    BY <2>2, <2>6, PlainStmts
  <2> HIDE DEF e, v, scope
  <2>8. e.do # "args" /\ Needs(e) = {}
    BY <2>2, <2>5, LeftFacts
  <2>9. \A m \in Valued \cap Left(Top) : In(v, m)
    <3> SUFFICES ASSUME NEW m \in Valued, m \in Left(Top)
                 PROVE  In(v, m)
      OBVIOUS
    <3>1. m = Node \/ \E k \in DOMAIN Kids(Node) : m \in Below(Kids(Node)[k])
      BY <2>1, <2>2, LeftFacts
    <3>2. m # Node
      BY <2>2 DEF Valued, Expressions
    <3> QED
      BY <2>7, <3>1, <3>2
  <2>10. \A s \in DOMAIN scopes' : \A name \in DOMAIN scopes'[s] : scopes'[s][name] \in K
    <3>1. Sequence(scopes) /\ \A s \in DOMAIN scopes : \A name \in DOMAIN scopes[s] : scopes[s][name] \in K
      BY <1>0 DEF Control, Typing
    <3> QED
      BY <2>3, <2>4, <3>1, PushHeld
  <2>11. rets' \in Seq(K) /\ funcRet' \in K /\ resolved' \in [N -> K \cup {Null}] /\ Kept
    BY <1>0, <2>3 DEF Typing, Kept
  <2>12. todo' = (v \o <<e>>) \o Tail(todo) /\ reported' \in BOOLEAN /\ (reported => reported') /\ (crashed' => reported')
    BY <1>a, <2>3, <2>7
  <2> QED
    BY <1>0, <2>1, <2>3, <2>5, <2>7, <2>8, <2>9, <2>10, <2>11, <2>12, Advance
<1>2. CASE /\ At("pop_scope") /\ Ends(0, FALSE)
           /\ scopes' = PopScope /\ UNCHANGED <<resolved, crashed>>
  <2>1. todo # << >> /\ Top.do = "pop_scope" /\ Ends(0, FALSE) /\ scopes' = Tail(scopes)
        /\ resolved' = resolved /\ crashed' = crashed
    BY <1>2, AtTop DEF PopScope
  <2>2. Uses(Top) = 0 /\ Closes(Top) = 1
    BY <2>1, EntryCounts
  <2>3. prog \in Programs /\ Entry(Top)
    BY <2>1, TopFacts
  <2>4. Left(Top) = {}
    BY <2>1, <2>3, LeftFacts
  <2>5. reported => reported'
    BY <1>0, <2>1, <2>2, EndsFacts
  <2>6. crashed' => reported'
    BY <1>a, <2>1, <2>5
  <2>7. \A s \in DOMAIN scopes' : \A name \in DOMAIN scopes'[s] : scopes'[s][name] \in K
    <3>1. Sequence(scopes) /\ \A s \in DOMAIN scopes : \A name \in DOMAIN scopes[s] : scopes[s][name] \in K
      BY <1>0 DEF Control, Typing
    <3>2. Len(scopes) >= 1
      BY <2>1, <2>2, TopFits
    <3> QED
      BY <2>1, <3>1, <3>2, Fewer
  <2>8. Fits(Void, K)
    BY Fitting
  <2>9. Valued \cap Left(Top) = {} /\ Valued \cap Left(Top) \subseteq {Node}
    BY <2>4
  <2> QED
    BY <1>0, <2>1, <2>2, <2>6, <2>7, <2>8, <2>9, StatementSets
<1> QED
  BY <1>1, <1>2 DEF ResolveBlock

-----------------------------------------------------------------------------
(* Functions: every one is declared before its body.                       *)

Declared ==
  \A p \in DOMAIN todo : todo[p].do = "func" =>
    \/ Name(todo[p].n) \in DOMAIN functions
    \/ \E q \in 1 .. p - 1 : todo[q].do = "declare" /\ Name(todo[q].n) = Name(todo[p].n)

\* Calls none of which is of a body of a function.
Inner(work) == Sequence(work) /\ \A k \in DOMAIN work : work[k].do # "func"

\* No calls.
LEMMA InnerNone == Inner(<< >>)
<1>1. << >> \in Seq({}) /\ DOMAIN << >> = {}
  OBVIOUS
<1> QED
  BY <1>1 DEF Inner, Sequence

\* A call for each node, and one more.
LEMMA InnerAll ==
  ASSUME NEW what, what # "func", NEW nodes, Sequence(nodes), NEW i, NEW e, e.do # "func"
  PROVE  Inner(Append(DoAll(what, nodes, i), e))
<1> DEFINE v == DoAll(what, nodes, i)
<1>1. DOMAIN nodes = 1 .. Len(nodes) /\ Len(nodes) \in Nat
  BY DEF Sequence
<1>2. v = [k \in 1 .. Len(nodes) |-> Do(what, nodes[k], i)]
  BY <1>1 DEF DoAll
<1>3. v \in Seq(Range(v)) /\ DOMAIN v = 1 .. Len(nodes) /\ Len(v) = Len(nodes)
  BY <1>1, <1>2 DEF Range
<1>4. \A k \in DOMAIN v : v[k].do # "func"
  BY <1>2 DEF Do
<1> HIDE DEF v
<1>5. /\ Append(v, e) \in Seq(Range(v) \cup {e}) /\ DOMAIN Append(v, e) = 1 .. Len(v) + 1
      /\ \A k \in DOMAIN Append(v, e) : Append(v, e)[k] = e \/ (k \in DOMAIN v /\ Append(v, e)[k] = v[k])
  <2>1. v \in Seq(Range(v) \cup {e})
    BY <1>3
  <2> QED
    BY <1>3, <2>1
<1> QED
  BY <1>4, <1>5 DEF Inner, Sequence, v

\* Two calls.
LEMMA InnerTwo ==
  ASSUME NEW x, x.do # "func", NEW y, y.do # "func"
  PROVE  Inner(<<x, y>>)
<1>1. <<x, y>> \in Seq({x, y}) /\ DOMAIN <<x, y>> = 1 .. 2 /\ <<x, y>>[1] = x /\ <<x, y>>[2] = y
  OBVIOUS
<1>2. \A k \in 1 .. 2 : k = 1 \/ k = 2
  OBVIOUS
<1> QED
  BY <1>1, <1>2 DEF Inner, Sequence

\* The calls of the body of a for loop.
LEMMA InnerInits ==
  ASSUME prog \in Programs, Node \in N, Kind(Node) = "for", NEW x, x.do # "func", NEW y, y.do # "func"
  PROVE  Inner(DoInits \o <<x, y>>)
<1> DEFINE w == <<x, y>>
<1>1. Frames(DoInits) /\ Plain(DoInits)
  BY InitsPlain
<1>2. Inner(w)
  BY InnerTwo
<1> HIDE DEF w
<1>3. PICK S : DoInits \in Seq(S)
  BY <1>1 DEF Frames, Sequence
<1>4. PICK R : w \in Seq(R)
  BY <1>2 DEF Inner, Sequence
<1>5. \A k \in DOMAIN DoInits : DoInits[k].do # "func"
  BY <1>1 DEF Plain
<1>6. /\ DoInits \o w \in Seq(S \cup R)
      /\ \A k \in DOMAIN (DoInits \o w) :
           \/ k \in DOMAIN DoInits /\ (DoInits \o w)[k] = DoInits[k]
           \/ k - Len(DoInits) \in DOMAIN w /\ (DoInits \o w)[k] = w[k - Len(DoInits)]
  BY <1>3, <1>4
<1>7. \A k \in DOMAIN (DoInits \o w) : (DoInits \o w)[k].do # "func"
  BY <1>2, <1>5, <1>6 DEF Inner
<1> QED
  BY <1>6, <1>7 DEF Inner, Sequence, w

\* The calls of a step are no bodies of functions.
LEMMA DeclaredStep ==
  ASSUME Control, Declared, todo # << >>, NEW work, Inner(work), todo' = work \o Tail(todo), prog' = prog,
         DOMAIN functions \subseteq DOMAIN functions', Top.do = "declare" => Name(Node) \in DOMAIN functions'
  PROVE  Declared'
<1>1. PICK S : work \in Seq(S)
  BY DEF Inner, Sequence
<1>2. PICK R : todo \in Seq(R)
  BY DEF Control, Shape, Frames, Sequence
<1>3. /\ Len(work) \in Nat /\ Len(todo) \in Nat /\ Len(todo) >= 1 /\ DOMAIN todo = 1 .. Len(todo)
      /\ Tail(todo) \in Seq(R) /\ Len(Tail(todo)) = Len(todo) - 1
      /\ \A k \in 1 .. Len(todo) - 1 : Tail(todo)[k] = todo[k + 1]
      /\ DOMAIN work = 1 .. Len(work)
  BY <1>1, <1>2
<1>4. /\ DOMAIN todo' = 1 .. Len(work) + Len(todo) - 1
      /\ \A p \in 1 .. Len(work) : todo'[p] = work[p]
      /\ \A p \in 1 .. Len(todo) - 1 : todo'[Len(work) + p] = Tail(todo)[p]
  BY <1>1, <1>3
<1>5. \A p \in 2 .. Len(todo) : todo'[Len(work) + p - 1] = todo[p]
  <2> SUFFICES ASSUME NEW p \in 2 .. Len(todo)
               PROVE  todo'[Len(work) + p - 1] = todo[p]
    OBVIOUS
  <2>1. p - 1 \in 1 .. Len(todo) - 1 /\ Len(work) + (p - 1) = Len(work) + p - 1 /\ (p - 1) + 1 = p
    BY <1>3
  <2> QED
    BY <1>3, <1>4, <2>1
<1>6. Top = todo[1] /\ Node = todo[1].n
  BY <1>2 DEF Top, Node
<1>7. \A n : Name(n)' = Name(n)
  BY DEF Name, Names
<1> SUFFICES ASSUME NEW p \in DOMAIN todo', todo'[p].do = "func"
             PROVE  \/ Name(todo'[p].n) \in DOMAIN functions'
                    \/ \E q \in 1 .. p - 1 : todo'[q].do = "declare" /\ Name(todo'[q].n) = Name(todo'[p].n)
  BY <1>7 DEF Declared
<1>8. p \in Nat /\ p > Len(work)
  <2>1. \A k \in 1 .. Len(work) : work[k].do # "func"
    BY <1>3 DEF Inner
  <2> QED
    BY <1>3, <1>4, <2>1
<1> DEFINE r == p - Len(work) + 1
<1>9. r \in 2 .. Len(todo) /\ p = Len(work) + r - 1
  BY <1>3, <1>4, <1>8
<1> HIDE DEF r
<1>10. todo'[p] = todo[r]
  BY <1>5, <1>9
<1>11. \/ Name(todo[r].n) \in DOMAIN functions
       \/ \E q \in 1 .. r - 1 : todo[q].do = "declare" /\ Name(todo[q].n) = Name(todo[r].n)
  BY <1>3, <1>9, <1>10 DEF Declared
<1>12. CASE Name(todo[r].n) \in DOMAIN functions
  BY <1>10, <1>12
<1>13. ASSUME NEW q \in 1 .. r - 1, todo[q].do = "declare", Name(todo[q].n) = Name(todo[r].n)
       PROVE  \/ Name(todo'[p].n) \in DOMAIN functions'
              \/ \E s \in 1 .. p - 1 : todo'[s].do = "declare" /\ Name(todo'[s].n) = Name(todo'[p].n)
  <2>1. CASE q = 1
    BY <1>6, <1>10, <1>13, <2>1
  <2>2. CASE q # 1
    <3>1. q \in 2 .. Len(todo) /\ Len(work) + q - 1 \in 1 .. p - 1
      BY <1>3, <1>8, <1>9, <2>2
    <3>2. todo'[Len(work) + q - 1] = todo[q]
      BY <1>5, <3>1
    <3> QED
      BY <1>10, <1>13, <3>1, <3>2
  <2> QED
    BY <2>1, <2>2
<1> QED
  BY <1>11, <1>12, <1>13

\* A step that declares nothing.
LEMMA Quiet ==
  ASSUME Control, Declared, NEW what, what # "declare", At(what), NEW work, Inner(work), Go(work),
         prog' = prog, functions' = functions
  PROVE  Declared'
<1>1. todo # << >> /\ Top.do # "declare" /\ todo' = work \o Tail(todo)
  BY AtTop DEF Go
<1> QED
  BY <1>1, DeclaredStep

\* Where a step is, and where it goes.
Goes(work) == Go(work) /\ prog' = prog /\ functions' = functions
Elsewhere == \E what : what # "declare" /\ At(what)

\* It goes on with calls of no bodies of functions.
LEMMA QuietOr ==
  ASSUME Control, Declared, Elsewhere, NEW work, Inner(work), Goes(work)
  PROVE  Declared'
BY Quiet DEF Elsewhere, Goes

\* Expressions that return.
LEMMA ExpressionsQuiet ==
  ASSUME Control, Declared,
         \/ ResolveLiteral \/ ResolveTensor \/ ResolveIdentifier \/ ResolveBinary \/ ResolveUnary
         \/ ResolveIndexAccess \/ ResolveRange \/ ResolveForEnd
  PROVE  Declared'
<1>1. Elsewhere
  <2>1. \E what \in {"expr", "tensor", "arith", "cmp", "neg", "index", "range", "for_end"} : At(what)
    BY DEF ResolveLiteral, ResolveTensor, ResolveIdentifier, ResolveBinary, ResolveUnary,
           ResolveIndexAccess, ResolveRange, ResolveForEnd, Visiting
  <2> QED
    BY <2>1 DEF Elsewhere
<1>2. Goes(<< >>)
  BY DEF ResolveLiteral, ResolveTensor, ResolveIdentifier, ResolveBinary, ResolveUnary,
         ResolveIndexAccess, ResolveRange, ResolveForEnd, Return, Goes
<1> QED
  BY <1>1, <1>2, InnerNone, QuietOr

\* Statements that end.
LEMMA StatementsQuiet ==
  ASSUME Control, Declared, ResolveVarDecl \/ ResolveReturn \/ ResolveYield \/ ResolveExprStmt
  PROVE  Declared'
<1>1. Elsewhere
  <2>1. \E what \in {"stmt", "var", "return", "yield", "expr_stmt"} : At(what)
    BY DEF ResolveVarDecl, ResolveReturn, ResolveYield, ResolveExprStmt, Stating
  <2> QED
    BY <2>1 DEF Elsewhere
<1>2. Goes(<< >>)
  BY DEF ResolveVarDecl, ResolveReturn, ResolveYield, ResolveExprStmt, Ends, Goes
<1> QED
  BY <1>1, <1>2, InnerNone, QuietOr

\* Operands and values.
LEMMA OperandsQuiet ==
  ASSUME Control, Declared, ResolveOperands \/ ResolveValues
  PROVE  Declared'
<1> DEFINE e == Do(Kind(Node), Node, 0)
           work == Append(DoAll("expr", Kids(Node), 0), e)
<1>1. /\ At("expr") \/ At("stmt")
      /\ Kind(Node) \in {"tensor", "arith", "cmp", "neg", "index", "range", "var", "yield", "expr_stmt", "return"}
      /\ Calls(work)
  BY DEF ResolveOperands, ResolveValues, Visiting
<1>2. Kids(Node) \in Seq(N)
  BY <1>1, AtTop, TopFacts
<1>3. e.do # "func" /\ Sequence(Kids(Node))
  BY <1>1, <1>2 DEF Do, Sequence
<1>4. Inner(work)
  BY <1>3, InnerAll
<1> HIDE DEF work
<1>5. Goes(work) /\ Elsewhere
  BY <1>1 DEF Calls, Goes, Elsewhere
<1> QED
  BY <1>4, <1>5, QuietOr

\* Calls.
LEMMA CallQuiet ==
  ASSUME Control, Declared, ResolveCall
  PROVE  Declared'
<1> DEFINE all(e) == Append(DoAll("expr", Args(Node), 0), e)
           two == <<Do("expr", Callee(Node), 0), Do("callee", Node, 0)>>
<1>1. /\ Elsewhere
      /\ \/ Visiting({"call"}) /\ Goes(all(Do("intrinsic", Node, 0)))
         \/ Goes(<< >>)
         \/ Goes(two)
         \/ At("callee") /\ Goes(all(Do("args", Node, rets[1])))
  <2>1. \E what \in {"expr", "intrinsic", "callee", "args"} : At(what)
    BY DEF ResolveCall, Visiting
  <2> QED
    BY <2>1 DEF ResolveCall, Return, Calls, Goes, Elsewhere
<1>2. Inner(two)
  BY InnerTwo DEF Do
<1>3. ASSUME Visiting({"call"}) \/ At("callee"), NEW e, e.do # "func"
      PROVE  Inner(all(e))
  <2>1. prog \in Programs /\ Node \in N /\ Kind(Node) = "call"
    <3>1. todo # << >> /\ (Top.do = "callee" \/ Kind(Node) = "call")
      BY <1>3, AtTop DEF Visiting
    <3> QED
      BY <3>1, TopFacts
  <2>2. Sequence(Args(Node))
    BY <2>1, CallFacts DEF Sequence
  <2> QED
    BY <1>3, <2>2, InnerAll
<1>4. Do("intrinsic", Node, 0).do # "func" /\ Do("args", Node, rets[1]).do # "func"
  BY DEF Do
<1> HIDE DEF all, two
<1> QED
  BY <1>1, <1>2, <1>3, <1>4, InnerNone, QuietOr

\* if, and the head of for.
LEMMA BranchesQuiet ==
  ASSUME Control, Declared, ResolveIf \/ ResolveForHead
  PROVE  Declared'
<1> DEFINE cond == <<Do("expr", Cond(Node), 0), Do("condition", Node, 0)>>
           then == <<Do("block", Body(Node), 0), Do("then", Node, 0)>>
           else == <<Do("block", Else(Node), 0), Do("else", Node, 0)>>
           for == <<Do("expr", Bounds(Node), 0), Do("for", Node, 0)>>
           x == Do("block", Body(Node), 0)
           y == Do("for_end", Node, 0)
           body == DoInits \o <<x, y>>
<1>1. /\ Elsewhere
      /\ \/ Goes(cond) \/ Goes(then) \/ Goes(else) \/ Goes(<< >>) \/ Goes(for)
         \/ At("for") /\ Goes(body)
  <2>1. \E what \in {"expr", "condition", "then", "else", "for", "init"} : At(what)
    BY DEF ResolveIf, ResolveForHead, Visiting
  <2> QED
    BY <2>1 DEF ResolveIf, ResolveForHead, Return, Calls, Goes, Elsewhere
<1>2. Inner(cond) /\ Inner(then) /\ Inner(else) /\ Inner(for)
  BY InnerTwo DEF Do
<1>3. At("for") => Inner(body)
  <2> SUFFICES ASSUME At("for")
               PROVE  Inner(body)
    OBVIOUS
  <2>1. prog \in Programs /\ Node \in N /\ Kind(Node) = "for"
    BY AtTop, TopFacts DEF Same
  <2>2. x.do # "func" /\ y.do # "func"
    BY DEF Do
  <2> QED
    BY <2>1, <2>2, InnerInits
<1> HIDE DEF cond, then, else, for, body
<1> QED
  BY <1>1, <1>2, <1>3, InnerNone, QuietOr

\* Blocks and bodies of functions.
LEMMA BlockQuiet ==
  ASSUME Control, Declared, ResolveBlock \/ ResolveFuncBlock
  PROVE  Declared'
<1> DEFINE block == Append(DoAll("stmt", Kids(Node), 0), Do("pop_scope", Node, 0))
           func == Append(DoAll("stmt", Kids(Body(Node)), 1), Do("func_end", Node, 0))
<1>1. /\ Elsewhere
      /\ \/ (At("block") \/ At("stmt")) /\ Goes(block)
         \/ Goes(<< >>)
         \/ At("func") /\ Goes(func)
  <2>1. \E what \in {"block", "stmt", "pop_scope", "func", "func_end"} : At(what)
    BY DEF ResolveBlock, ResolveFuncBlock, Stating
  <2> QED
    BY <2>1 DEF ResolveBlock, ResolveFuncBlock, Stating, Ends, Goes, Elsewhere
<1>2. At("block") \/ At("stmt") => Inner(block)
  <2> SUFFICES ASSUME At("block") \/ At("stmt")
               PROVE  Inner(block)
    OBVIOUS
  <2>1. Sequence(Kids(Node))
    BY AtTop, TopFacts DEF Sequence
  <2>2. Do("pop_scope", Node, 0).do # "func"
    BY DEF Do
  <2> QED
    BY <2>1, <2>2, InnerAll
<1>3. At("func") => Inner(func)
  <2> SUFFICES ASSUME At("func")
               PROVE  Inner(func)
    OBVIOUS
  <2>1. prog \in Programs /\ Node \in N /\ Kind(Node) = "func"
    BY AtTop, TopFacts
  <2>2. Body(Node) \in N
    BY <2>1, BranchFacts
  <2>3. Sequence(Kids(Body(Node)))
    BY <2>1, <2>2, NodeFacts DEF Sequence
  <2>4. Do("func_end", Node, 0).do # "func"
    BY DEF Do
  <2> QED
    BY <2>3, <2>4, InnerAll
<1> HIDE DEF block, func
<1> QED
  BY <1>1, <1>2, <1>3, InnerNone, QuietOr

\* A declaration.
LEMMA DeclareDeclares ==
  ASSUME Control, Declared, ResolveFuncDecl
  PROVE  Declared'
<1>1. PICK rec : /\ At("declare") /\ Go(<< >>) /\ prog' = prog
                 /\ functions' = Emplace(functions, <<Name(Node)>>, <<rec>>)
  BY DEF ResolveFuncDecl
<1>2. DOMAIN functions' = DOMAIN functions \cup {Name(Node)}
  BY <1>1 DEF Emplace, Range
<1>3. todo # << >> /\ todo' = << >> \o Tail(todo)
  BY <1>1, AtTop DEF Go
<1> QED
  BY <1>1, <1>2, <1>3, InnerNone, DeclaredStep

\* Every step keeps functions declared before their bodies.
LEMMA DeclaredNext ==
  ASSUME Control, Declared, [Next]_vars
  PROVE  Declared'
<1>1. CASE Next
  BY <1>1, ExpressionsQuiet, StatementsQuiet, OperandsQuiet, CallQuiet, BranchesQuiet, BlockQuiet, DeclareDeclares
     DEF Next
<1>2. CASE UNCHANGED vars
  <2>1. prog' = prog /\ todo' = todo /\ functions' = functions
    BY <1>2 DEF vars
  <2> QED
    BY <2>1 DEF Declared, Name, Names
<1> QED
  BY <1>1, <1>2

\* The places of one sequence after another as long.
LEMMA ConcatAt ==
  ASSUME NEW S, NEW R, NEW v \in Seq(S), NEW w \in Seq(R), NEW n \in Nat, Len(v) = n, Len(w) = n
  PROVE  /\ DOMAIN (v \o w) = 1 .. n + n
         /\ \A k \in 1 .. n : (v \o w)[k] = v[k] /\ (v \o w)[n + k] = w[k]
OBVIOUS

\* All declarations come before the first body.
LEMMA DeclaredInit ==
  ASSUME Init
  PROVE  Declared
<1> DEFINE d == DoAll("declare", Funcs, 0)
           f == DoAll("func", Funcs, 0)
<1>1. prog \in Programs /\ todo = d \o f
  BY DEF Init
<1>2. PICK n \in Nat : n = Len(Funcs) /\ Funcs \in Seq(DOMAIN prog.node) /\ DOMAIN Funcs = 1 .. n
  BY <1>1, ProgramsAssumption DEF Funcs
<1>3. d = [k \in 1 .. n |-> Do("declare", Funcs[k], 0)] /\ f = [k \in 1 .. n |-> Do("func", Funcs[k], 0)]
  BY <1>2 DEF DoAll
<1>4. d \in Seq(Range(d)) /\ Len(d) = n /\ f \in Seq(Range(f)) /\ Len(f) = n
  BY <1>2, <1>3 DEF Range
<1>5. \A k \in 1 .. n : d[k].do = "declare" /\ d[k].n = Funcs[k] /\ f[k].do = "func" /\ f[k].n = Funcs[k]
  BY <1>3 DEF Do
<1> HIDE DEF d, f
<1>6. /\ DOMAIN todo = 1 .. n + n
      /\ \A k \in 1 .. n : todo[k] = d[k] /\ todo[n + k] = f[k]
  <2>1. PICK S, R : d \in Seq(S) /\ f \in Seq(R)
    BY <1>4
  <2>2. /\ DOMAIN (d \o f) = 1 .. n + n
        /\ \A k \in 1 .. n : (d \o f)[k] = d[k] /\ (d \o f)[n + k] = f[k]
    BY <1>2, <1>4, <2>1, ConcatAt
  <2> QED
    BY <1>1, <2>2
<1> SUFFICES ASSUME NEW p \in DOMAIN todo, todo[p].do = "func"
             PROVE  \E q \in 1 .. p - 1 : todo[q].do = "declare" /\ Name(todo[q].n) = Name(todo[p].n)
  BY DEF Declared
<1>7. p > n
  BY <1>2, <1>5, <1>6
<1>8. p - n \in 1 .. n /\ p - n \in 1 .. p - 1 /\ n + (p - n) = p
  BY <1>2, <1>6, <1>7
<1>9. todo[p].n = Funcs[p - n] /\ todo[p - n].do = "declare" /\ todo[p - n].n = Funcs[p - n]
  BY <1>5, <1>6, <1>8
<1> QED
  BY <1>8, <1>9

\* The body of a function.
LEMMA FuncOrderly ==
  ASSUME Control, Orderly, Declared, ResolveFuncBlock
  PROVE  Orderly'
<1>0. PICK K : Typing(K)
  BY DEF Orderly, Typed
<1>a. reported \in BOOLEAN /\ (crashed => reported)
  BY DEF Control, Shape, Orderly
<1>1. CASE At("func")
  <2> DEFINE f == functions[Name(Node)]
             args == f.args
             types == Arguments(f.type)
             scope == FirstOf(args, types)
             b == Body(Node)
             e == Do("func_end", Node, 0)
             v == DoAll("stmt", Kids(b), 1)
  <2>1. /\ funcRet' = Result(f.type) /\ scopes' = <<scope>> \o scopes /\ todo' = Append(v, e) \o Tail(todo)
        /\ prog' = prog /\ resolved' = resolved /\ rets' = rets /\ functions' = functions
        /\ reported' = reported /\ crashed' = crashed
    <3>1. ~At("func_end")
      BY <1>1 DEF At
    <3> QED
      BY <3>1 DEF ResolveFuncBlock, Go
  <2>2. todo # << >> /\ Top.do = "func"
    BY <1>1, AtTop
  <2>3. prog \in Programs /\ Entry(Top) /\ Node \in N /\ Node = Top.n /\ Kids(Node) \in Seq(N) /\ Kind(Node) = "func"
    BY <2>2, TopFacts
  <2>4. Signature(f, K)
    <3>1. Frames(todo) /\ todo[1] = Top
      BY <2>2, FramesTail DEF Control, Shape, Top
    <3>2. 1 \in DOMAIN todo
      BY <2>2, <3>1, FramesTail
    <3>3. Name(Node) \in DOMAIN functions
      BY <2>2, <2>3, <3>1, <3>2 DEF Declared
    <3> QED
      BY <1>0, <3>3 DEF Typing
  <2> HIDE DEF f
  <2>5. f.type \in K /\ f.type.con = "function" /\ Sequence(args) /\ Len(args) = Len(types)
    BY <2>4 DEF Signature
  <2>6. f.type.parts \in Seq(K) /\ f.type.parts # << >>
    BY <1>0, <2>5 DEF Typing, Suits, Kit
  <2>7. types \in Seq(K)
    BY <2>6 DEF Arguments
  <2> HIDE DEF args, types
  <2>8. \A k \in DOMAIN args : types[k] \in K
    BY <2>5, <2>7 DEF Sequence
  <2>9. \A name \in DOMAIN scope : scope[name] \in K
    BY <2>5, <2>8, FirstOfHeld
  <2>10. b \in N /\ Kind(b) = "block" /\ b = Kids(Node)[1] /\ DOMAIN Kids(Node) = {1}
    <3>1. b \in N /\ Kind(b) = "block"
      BY <2>3, BranchFacts
    <3>2. Len(Kids(Node)) = 1
      BY <2>3, ChildKinds
    <3>3. DOMAIN Kids(Node) = 1 .. 1
      BY <2>3, <3>2
    <3> QED
      BY <2>3, <3>1, <3>3 DEF Body
  <2>11. Kids(b) \in Seq(N) /\ \A k \in DOMAIN Kids(b) : Kind(Kids(b)[k]) \in Statements
    BY <2>3, <2>10, NodeFacts, ChildKinds
  <2>12. Entry(e) /\ e.do = "func_end" /\ e.n = Node
    BY <2>3, AnEntry DEF Owners, Same, Places
  <2>13. /\ Frames(v) /\ Plain(v) /\ Append(v, e) = v \o <<e>>
         /\ \A m \in Valued : In(v, m) <=> \E k \in DOMAIN Kids(b) : m \in Below(Kids(b)[k])
    BY <2>3, <2>11, PlainStmts
  <2> HIDE DEF e, v, scope, b
  <2>14. e.do # "args" /\ Needs(e) = {}
    BY <2>3, <2>12, LeftFacts
  <2>15. \A m \in Valued \cap Left(Top) : In(v, m)
    <3> SUFFICES ASSUME NEW m \in Valued, m \in Left(Top)
                 PROVE  In(v, m)
      OBVIOUS
    <3>1. m = Node \/ \E k \in DOMAIN Kids(Node) : m \in Below(Kids(Node)[k])
      BY <2>2, <2>3, LeftFacts
    <3>2. m # Node /\ m # b
      BY <2>3, <2>10 DEF Valued, Expressions
    <3>3. m \in Below(b)
      BY <2>10, <3>1, <3>2
    <3>4. \E k \in DOMAIN Kids(b) : m \in Below(Kids(b)[k])
      BY <2>3, <2>10, <3>2, <3>3, BelowSplit
    <3> QED
      BY <2>13, <3>4
  <2>16. \A s \in DOMAIN scopes' : \A name \in DOMAIN scopes'[s] : scopes'[s][name] \in K
    <3>1. Sequence(scopes) /\ \A s \in DOMAIN scopes : \A name \in DOMAIN scopes[s] : scopes[s][name] \in K
      BY <1>0 DEF Control, Typing
    <3> QED
      BY <2>1, <2>9, <3>1, PushHeld
  <2>17. rets' \in Seq(K) /\ funcRet' \in K /\ resolved' \in [N -> K \cup {Null}] /\ Kept
    <3>1. funcRet' \in K
      BY <1>0, <2>1, <2>5, ResultHeld
    <3> QED
      BY <1>0, <2>1, <3>1 DEF Typing, Kept
  <2>18. todo' = (v \o <<e>>) \o Tail(todo) /\ reported' \in BOOLEAN /\ (reported => reported') /\ (crashed' => reported')
    BY <1>a, <2>1, <2>13
  <2> QED
    BY <1>0, <2>1, <2>2, <2>12, <2>13, <2>14, <2>15, <2>16, <2>17, <2>18, Advance
<1>2. CASE At("func_end")
  <2> DEFINE bad == LET b == Body(Node) IN FindYields(b) # {} \/ (~ContainsReturn(b) /\ funcRet # Void)
  <2>1. todo # << >> /\ Top.do = "func_end" /\ Ends(0, bad) /\ scopes' = Tail(scopes)
        /\ resolved' = resolved /\ crashed' = crashed
    <3>1. ~At("func")
      BY <1>2 DEF At
    <3> QED
      BY <1>2, <3>1, AtTop DEF ResolveFuncBlock, PopScope
  <2>2. Uses(Top) = 0 /\ Closes(Top) = 1
    BY <2>1, EntryCounts
  <2>3. prog \in Programs /\ Entry(Top)
    BY <2>1, TopFacts
  <2>4. Left(Top) = {}
    BY <2>1, <2>3, LeftFacts
  <2> HIDE DEF bad
  <2>5. reported => reported'
    BY <1>0, <2>1, <2>2, EndsFacts
  <2>6. crashed' => reported'
    BY <1>a, <2>1, <2>5
  <2>7. \A s \in DOMAIN scopes' : \A name \in DOMAIN scopes'[s] : scopes'[s][name] \in K
    <3>1. Sequence(scopes) /\ \A s \in DOMAIN scopes : \A name \in DOMAIN scopes[s] : scopes[s][name] \in K
      BY <1>0 DEF Control, Typing
    <3>2. Len(scopes) >= 1
      BY <2>1, <2>2, TopFits
    <3> QED
      BY <2>1, <3>1, <3>2, Fewer
  <2>8. Fits(Void, K)
    BY Fitting
  <2>9. Valued \cap Left(Top) = {} /\ Valued \cap Left(Top) \subseteq {Node}
    BY <2>4
  <2> QED
    BY <1>0, <2>1, <2>2, <2>6, <2>7, <2>8, <2>9, StatementSets
<1> QED
  BY <1>1, <1>2 DEF ResolveFuncBlock

\* A sequence without its last element, and that element.
LEMMA FrontLast ==
  ASSUME NEW S, NEW s \in Seq(S), NEW n \in Nat, Len(s) = n, n >= 1
  PROVE  SubSeq(s, 1, n - 1) \in Seq(S) /\ Len(SubSeq(s, 1, n - 1)) = n - 1 /\ s[n] \in S
<1>1. n - 1 \in Nat /\ \A k \in 1 .. n - 1 : s[k] \in S
  OBVIOUS
<1>2. SubSeq(s, 1, n - 1) \in Seq(S) /\ Len(SubSeq(s, 1, n - 1)) = n - 1
  BY <1>1
<1>3. s[n] \in S
  OBVIOUS
<1> QED
  BY <1>2, <1>3

\* The type of a function joins the types it is made of.
LEMMA Joins ==
  ASSUME NEW L, NEW cons, "function" \in cons, Kit(L, cons), NEW types \in Seq(L), types # << >>,
         NEW t, t = FunctionType(SubSeq(types, 1, Len(types) - 1), types[Len(types)])
  PROVE  /\ Kit(L \cup {t}, cons) /\ t.con = "function"
         /\ Len(Arguments(t)) = Len(types) - 1
<1> DEFINE args == SubSeq(types, 1, Len(types) - 1)
           ret == types[Len(types)]
           parts == Append(args, ret)
           M == L \cup {t}
<1>1. Len(types) \in Nat /\ Len(types) >= 1
  OBVIOUS
<1>2. args \in Seq(L) /\ Len(args) = Len(types) - 1 /\ ret \in L
  BY <1>1, FrontLast
<1>3. t.con = "function" /\ t.parts = parts
  BY DEF FunctionType, Type
<1> HIDE DEF args, ret
<1>4. parts \in Seq(L) /\ parts # << >> /\ Len(parts) = Len(types)
  BY <1>1, <1>2
<1>5. Len(Arguments(t)) = Len(types) - 1
  <2> HIDE DEF parts
  <2> QED
    BY <1>1, <1>3, <1>4 DEF Arguments
<1>6. Seq(L) \subseteq Seq(M)
  OBVIOUS
<1> HIDE DEF parts
<1>7. Kit(M, cons)
  <2>1. t.con \in cons
    BY <1>3
  <2>2. \A u \in L : u.con \in cons /\ u.parts \in Seq(M) /\ (u.con = "function" => u.parts # << >>)
    BY <1>6 DEF Kit
  <2> HIDE DEF M
  <2>3. t.parts \in Seq(M) /\ t.parts # << >>
    BY <1>3, <1>4, <1>6
  <2>4. \A u \in M : u \in L \/ u = t
    BY DEF M
  <2> QED
    BY <2>1, <2>2, <2>3, <2>4 DEF Kit
<1> QED
  BY <1>3, <1>5, <1>7

\* What emplacing one more name does.
LEMMA EmplaceOne ==
  ASSUME NEW scope, NEW name, NEW rec, NEW x \in DOMAIN Emplace(scope, <<name>>, <<rec>>)
  PROVE  \/ x \in DOMAIN scope /\ Emplace(scope, <<name>>, <<rec>>)[x] = scope[x]
         \/ Emplace(scope, <<name>>, <<rec>>)[x] = rec
<1> DEFINE names == <<name>>
           types == <<rec>>
           L == {rec}
<1>1. names \in Seq({name}) /\ DOMAIN names = 1 .. 1 /\ types[1] = rec
  OBVIOUS
<1>2. \A k \in 1 .. 1 : k = 1
  OBVIOUS
<1>3. Sequence(names) /\ \A k \in DOMAIN names : types[k] \in L
  BY <1>1, <1>2 DEF Sequence
<1> HIDE DEF names, types, L
<1>4. \A n \in DOMAIN FirstOf(names, types) : FirstOf(names, types)[n] \in L
  BY <1>3, FirstOfHeld
<1>5. DOMAIN FirstOf(names, types) = Range(names)
  BY DEF FirstOf
<1>6. x \in DOMAIN Emplace(scope, names, types)
  BY DEF names, types
<1>7. \/ x \in DOMAIN scope /\ Emplace(scope, names, types)[x] = scope[x]
      \/ Emplace(scope, names, types)[x] \in L
  BY <1>4, <1>5, <1>6 DEF Emplace
<1> QED
  BY <1>7 DEF names, types, L

\* A function has a name, and as many types as names.
LEMMA FuncFacts ==
  ASSUME NEW p \in Programs, NEW n \in DOMAIN p.node, p.node[n].kind = "func"
  PROVE  /\ Len(p.node[n].names) = Len(p.node[n].types) /\ p.node[n].names \in Seq(STRING) /\ p.node[n].names # << >>
         /\ Len(p.node[n].types) \in Nat /\ DOMAIN p.node[n].types = 1 .. Len(p.node[n].types)
<1>1. Len(p.node[n].names) = Len(p.node[n].types) /\ p.node[n].names # << >>
  BY ProgramsAssumption
<1>2. p.node \in Seq(Nodes)
  BY ProgramsAssumption
<1>3. p.node[n] \in Nodes
  BY <1>2
<1> QED
  BY <1>1, <1>3 DEF Nodes

\* The declaration of a function.
LEMMA DeclareOrderly ==
  ASSUME Control, Orderly, ResolveFuncDecl
  PROVE  Orderly'
<1>0. PICK K : Typing(K)
  BY DEF Orderly, Typed
<1>a. reported \in BOOLEAN /\ (crashed => reported) /\ Suits(K)
  BY <1>0 DEF Control, Shape, Orderly, Typing
<1> DEFINE d == prog.node[Node]
           types == [k \in DOMAIN d.types |-> ResolveType(d.types[k])]
           t == FunctionType(SubSeq(types, 1, Len(types) - 1), types[Len(types)])
           rec == [type |-> t, args |-> Tail(d.names)]
           bad == \E k \in DOMAIN types : UnknownType(d.types[k])
           T == Range(types)
<1>1. /\ At("declare") /\ todo' = << >> \o Tail(todo) /\ reported' = (reported \/ bad)
      /\ functions' = Emplace(functions, <<Name(Node)>>, <<rec>>) /\ Set(Node, t)
      /\ prog' = prog /\ rets' = rets /\ scopes' = scopes /\ funcRet' = funcRet /\ crashed' = crashed
  BY DEF ResolveFuncDecl, Go, Err
<1>2. todo # << >> /\ Top.do = "declare"
  BY <1>1, AtTop
<1>3. prog \in Programs /\ Entry(Top) /\ Node \in N /\ Node = Top.n /\ Kind(Node) = "func"
  BY <1>2, TopFacts
<1>4. \A u \in T : Fits(u, K)
  <2> SUFFICES ASSUME NEW k \in DOMAIN d.types
               PROVE  Fits(ResolveType(d.types[k]), K)
    BY DEF Range
  <2>1. Fits(Void, K) /\ Fits(Unknown, K) /\ Fits(Scalar(d.types[k].base), K)
        /\ \A elem, shape : Fits(TensorOf(elem, shape), K)
    BY Fitting
  <2> QED
    BY <2>1 DEF ResolveType
<1>5. /\ Len(d.names) = Len(d.types) /\ d.names \in Seq(STRING) /\ d.names # << >>
      /\ Len(d.types) \in Nat /\ DOMAIN d.types = 1 .. Len(d.types)
  BY <1>3, FuncFacts DEF Kind, N
<1>6. Len(d.names) \in Nat /\ Len(d.names) >= 1 /\ Tail(d.names) \in Seq(STRING)
      /\ Len(Tail(d.names)) = Len(d.names) - 1
  <2> DEFINE names == d.names
  <2>1. names \in Seq(STRING) /\ names # << >>
    BY <1>5
  <2> HIDE DEF names
  <2>2. Len(names) \in Nat /\ Len(names) >= 1 /\ Tail(names) \in Seq(STRING) /\ Len(Tail(names)) = Len(names) - 1
    BY <2>1
  <2> QED
    BY <2>2 DEF names
<1>7. types \in Seq(T) /\ Len(types) = Len(d.names) /\ types # << >>
  <2> DEFINE n == Len(d.types)
  <2>1. types = [k \in 1 .. n |-> types[k]] /\ n \in Nat /\ n >= 1 /\ n = Len(d.names)
    BY <1>5, <1>6
  <2>2. \A k \in 1 .. n : types[k] \in Range(types)
    BY <1>5 DEF Range
  <2> HIDE DEF types, n
  <2> QED
    BY <2>1, <2>2
<1> HIDE DEF types, bad, T, t
<1>8. reported' \in BOOLEAN /\ (reported => reported') /\ (crashed' => reported')
  BY <1>a, <1>1
<1>9. PICK L : K \subseteq L /\ T \subseteq L /\ Suits(L)'
  BY <1>a, <1>4, <1>8, Widen
<1>10. types \in Seq(L)
  <2>1. Seq(T) \subseteq Seq(L)
    BY <1>9
  <2> QED
    BY <1>7, <2>1
<1>b. PICK M : M = L \cup {t}
  OBVIOUS
<1>11. /\ Suits(M)' /\ t.con = "function" /\ Len(Arguments(t)) = Len(types) - 1
  <2> DEFINE cons == Here'
  <2>1. "function" \in cons /\ Kit(L, cons)
    BY <1>9 DEF Here, Constructors, Suits
  <2>2. t = FunctionType(SubSeq(types, 1, Len(types) - 1), types[Len(types)])
    BY DEF t
  <2> HIDE DEF cons
  <2>3. Kit(M, cons) /\ t.con = "function" /\ Len(Arguments(t)) = Len(types) - 1
    BY <1>7, <1>10, <1>b, <2>1, <2>2, Joins
  <2> QED
    BY <1>9, <1>b, <2>3 DEF Suits, cons
<1>12. K \subseteq M /\ t \in M
  BY <1>9, <1>b
<1>13. Signature(rec, M)
  <2>1. rec.type = t /\ rec.args = Tail(d.names)
    OBVIOUS
  <2> HIDE DEF rec
  <2> QED
    BY <1>6, <1>7, <1>11, <1>12, <2>1 DEF Signature, Sequence
<1>14. /\ rets \in Seq(M) /\ funcRet \in M /\ resolved \in [N -> M \cup {Null}]
       /\ \A s \in DOMAIN scopes : \A name \in DOMAIN scopes[s] : scopes[s][name] \in M
       /\ \A name \in DOMAIN functions : Signature(functions[name], M)
  BY <1>0, <1>12, Larger
<1> HIDE DEF rec
<1>15. \A name \in DOMAIN functions' : Signature(functions'[name], M)
  <2> SUFFICES ASSUME NEW name \in DOMAIN functions'
               PROVE  Signature(functions'[name], M)
    OBVIOUS
  <2>1. name \in DOMAIN Emplace(functions, <<Name(Node)>>, <<rec>>)
    BY <1>1
  <2>2. \/ name \in DOMAIN functions /\ functions'[name] = functions[name]
        \/ functions'[name] = rec
    BY <1>1, <2>1, EmplaceOne
  <2> QED
    BY <1>13, <1>14, <2>2
<1>16. /\ resolved' \in [N -> M \cup {Null}] /\ \A m \in N : m # Node => resolved'[m] = resolved[m]
  <2>1. /\ resolved' \in [N -> (M \cup {Null}) \cup {t}] /\ \A m \in N : m # Node => resolved'[m] = resolved[m]
    BY <1>1, <1>3, <1>14, SetOne
  <2>2. (M \cup {Null}) \cup {t} = M \cup {Null}
    BY <1>12
  <2> QED
    BY <2>1, <2>2
<1>17. Frames(<< >>) /\ DOMAIN << >> = {}
  BY FramesNone
<1>18. Typed'
  <2>1. rets' \in Seq(M) /\ funcRet' \in M
        /\ \A s \in DOMAIN scopes' : \A name \in DOMAIN scopes'[s] : scopes'[s][name] \in M
    BY <1>1, <1>14
  <2>2. \A k \in DOMAIN << >> : << >>[k].do = "args" => << >>[k].i \in M /\ << >>[k].i.con = "function"
    BY <1>17
  <2> QED
    BY <1>0, <1>1, <1>2, <1>11, <1>12, <1>15, <1>16, <1>17, <2>1, <2>2, Retype
<1>19. Ordered'
  <2>1. Kept
    BY <1>3, <1>16 DEF Kept, Valued, Expressions
  <2>2. Left(Top) = {}
    BY <1>2, <1>3, LeftFacts
  <2> QED
    BY <1>1, <1>2, <1>8, <2>1, <2>2, OnwardEnd DEF Orderly
<1> QED
  BY <1>8, <1>18, <1>19 DEF Orderly

-----------------------------------------------------------------------------
(* The whole analysis.                                                     *)

\* At first no node has a type, and each is below a function still to come.
LEMMA OrderlyInit ==
  ASSUME Init
  PROVE  Orderly
<1> DEFINE d == DoAll("declare", Funcs, 0)
           f == DoAll("func", Funcs, 0)
           K == {Void, Unknown}
<1>1. Control
  BY ControlInit
<1>2. /\ prog \in Programs /\ todo = d \o f /\ resolved = [n \in N |-> Null] /\ rets = << >> /\ scopes = << >>
      /\ functions = << >> /\ funcRet = Void /\ reported = FALSE /\ crashed = FALSE
  BY DEF Init, N
<1>3. PICK n \in Nat : n = Len(Funcs) /\ Funcs \in Seq(DOMAIN prog.node) /\ DOMAIN Funcs = 1 .. n
  BY <1>2, ProgramsAssumption DEF Funcs
<1>4. d = [k \in 1 .. n |-> Do("declare", Funcs[k], 0)] /\ f = [k \in 1 .. n |-> Do("func", Funcs[k], 0)]
  BY <1>3 DEF DoAll
<1>5. d \in Seq(Range(d)) /\ Len(d) = n /\ f \in Seq(Range(f)) /\ Len(f) = n
  BY <1>3, <1>4 DEF Range
<1>6. \A k \in 1 .. n : d[k].do = "declare" /\ f[k].do = "func" /\ f[k].n = Funcs[k]
  BY <1>4 DEF Do
<1> HIDE DEF d, f
<1>7. /\ DOMAIN todo = 1 .. n + n /\ Len(todo) = n + n
      /\ \A k \in 1 .. n : todo[k] = d[k] /\ todo[n + k] = f[k]
  <2>1. PICK S, R : d \in Seq(S) /\ f \in Seq(R)
    BY <1>5
  <2>2. /\ DOMAIN (d \o f) = 1 .. n + n
        /\ \A k \in 1 .. n : (d \o f)[k] = d[k] /\ (d \o f)[n + k] = f[k]
    BY <1>3, <1>5, <2>1, ConcatAt
  <2>3. Len(d \o f) = n + n
    BY <1>3, <1>5, <2>1
  <2> QED
    BY <1>2, <2>2, <2>3
<1>8. \A p \in DOMAIN todo : todo[p].do \in {"declare", "func"}
  <2> SUFFICES ASSUME NEW p \in 1 .. n + n
               PROVE  todo[p].do \in {"declare", "func"}
    BY <1>7
  <2>1. CASE p <= n
    BY <1>3, <1>6, <1>7, <2>1
  <2>2. CASE p > n
    <3>1. p - n \in 1 .. n /\ n + (p - n) = p
      BY <1>3, <2>2
    <3> QED
      BY <1>6, <1>7, <3>1
  <2> QED
    BY <1>3, <2>1, <2>2
<1>9. Ordered
  <2>1. \A p \in DOMAIN todo : Needs(todo[p]) = {}
    BY <1>8 DEF Needs
  <2>2. ASSUME NEW m \in Valued
        PROVE  Given(todo, Len(todo) + 1, m)
    <3>1. m \in N
      BY DEF Valued
    <3>2. PICK g \in N : Kind(g) = "func" /\ m \in Below(g)
      BY <1>2, <3>1, BelowFunc
    <3>3. PICK k \in 1 .. n : Funcs[k] = g
      <4>1. g \in Range(Funcs)
        BY <1>2, <3>2, ProgramsAssumption DEF Kind, N, Funcs
      <4> QED
        BY <1>3, <4>1 DEF Range
    <3>4. n + k \in 1 .. n + n /\ todo[n + k].do = "func" /\ todo[n + k].n = g
      <4>1. n + k \in 1 .. n + n /\ todo[n + k] = f[k]
        BY <1>3, <1>7, <3>3
      <4>2. f[k].do = "func" /\ f[k].n = Funcs[k]
        BY <1>6, <3>3
      <4> QED
        BY <3>3, <4>1, <4>2
    <3>5. Entry(todo[n + k])
      BY <1>1, <1>7, <3>4 DEF Control, Shape, Frames
    <3>6. m \in Left(todo[n + k])
      BY <1>2, <3>2, <3>4, <3>5, LeftFacts
    <3> QED
      BY <1>3, <1>7, <3>4, <3>6 DEF Given
  <2> QED
    BY <2>1, <2>2 DEF Ordered
<1>10. Typed
  <2>1. Suits(K)
    <3>1. << >> \in Seq(K)
      OBVIOUS
    <3>2. Void.con = "void" /\ Void.parts = << >> /\ Unknown.con = "unknown" /\ Unknown.parts = << >>
      BY DEF Void, Unknown, Type
    <3> QED
      BY <1>2, <3>1, <3>2 DEF Suits, Kit, Here, Constructors
  <2>2. rets \in Seq(K) /\ funcRet \in K /\ resolved \in [N -> K \cup {Null}]
    BY <1>2
  <2>3. DOMAIN scopes = {} /\ DOMAIN functions = {}
    BY <1>2
  <2>4. \A k \in DOMAIN todo : todo[k].do # "args"
    BY <1>8
  <2> HIDE DEF K
  <2> QED
    BY <2>1, <2>2, <2>3, <2>4 DEF Typed, Typing
<1> QED
  BY <1>2, <1>9, <1>10 DEF Orderly

\* Nothing happens.
LEMMA OrderlyStays ==
  ASSUME Orderly, UNCHANGED vars
  PROVE  Orderly'
<1>1. /\ prog' = prog /\ resolved' = resolved /\ todo' = todo /\ rets' = rets /\ scopes' = scopes
      /\ functions' = functions /\ funcRet' = funcRet /\ reported' = reported /\ crashed' = crashed
  BY DEF vars
<1>2. Valued' = Valued /\ (\A e : Left(e)' = Left(e) /\ Needs(e)' = Needs(e)) /\ N' = N
  BY <1>1, SameTree, SameProgram
<1>3. Ordered'
  <2>1. Ordered
    BY DEF Orderly
  <2> QED
    BY <1>1, <1>2, <2>1 DEF Ordered, Given
<1>4. Typed'
  <2>1. PICK K : Typing(K)
    BY DEF Orderly, Typed
  <2>2. Suits(K)'
    BY <1>1, <2>1, SameSuits DEF Typing
  <2>3. Typing(K)'
    BY <1>1, <1>2, <2>1, <2>2 DEF Typing, Signature
  <2> QED
    BY <2>3 DEF Typed
<1> QED
  BY <1>1, <1>3, <1>4 DEF Orderly

\* Every step keeps the types in order.
LEMMA OrderlyNext ==
  ASSUME Control, Orderly, Declared, [Next]_vars
  PROVE  Orderly'
<1>1. CASE ResolveOperands \/ ResolveValues
  BY <1>1, OperandsOrderly
<1>2. CASE ResolveLiteral
  BY <1>2, LiteralOrderly
<1>3. CASE ResolveTensor
  BY <1>3, TensorOrderly
<1>4. CASE ResolveIdentifier
  BY <1>4, IdentifierOrderly
<1>5. CASE ResolveBinary \/ ResolveUnary \/ ResolveIndexAccess \/ ResolveRange
  BY <1>5, OperationOrderly
<1>6. CASE ResolveCall
  BY <1>6, CallOrderly
<1>7. CASE ResolveIf
  BY <1>7, IfOrderly
<1>8. CASE ResolveForHead
  BY <1>8, ForHeadOrderly
<1>9. CASE ResolveForEnd
  BY <1>9, ForEndOrderly
<1>10. CASE ResolveVarDecl
  BY <1>10, VarOrderly
<1>11. CASE ResolveReturn \/ ResolveYield \/ ResolveExprStmt
  BY <1>11, StatementOrderly
<1>12. CASE ResolveBlock
  BY <1>12, BlockOrderly
<1>13. CASE ResolveFuncDecl
  BY <1>13, DeclareOrderly
<1>14. CASE ResolveFuncBlock
  BY <1>14, FuncOrderly
<1>15. CASE UNCHANGED vars
  BY <1>15, OrderlyStays
<1> QED
  BY <1>1, <1>2, <1>3, <1>4, <1>5, <1>6, <1>7, <1>8, <1>9, <1>10, <1>11, <1>12, <1>13, <1>14, <1>15 DEF Next

\* The invariant of semantic analysis: the calls still to come account for the
\* types and scopes that are there, and for the types that are not.
Sound == Control /\ Declared /\ Orderly

\* It is an invariant.
LEMMA Soundness == Spec => []Sound
<1>1. Init => Sound
  BY ControlInit, DeclaredInit, OrderlyInit DEF Sound
<1>2. Sound /\ [Next]_vars => Sound'
  BY ControlNext, DeclaredNext, OrderlyNext DEF Sound
<1> QED
  BY <1>1, <1>2, PTL DEF Spec

\* Every type that is around is one of type.hpp, and a declared function has as
\* many parameters as its type: what resolve_type of a node, find_variable and
\* the functions' table return can be asked for its kind.
THEOREM TypesCorrect == Spec => []TypeOK
<1>1. ASSUME Sound
      PROVE  TypeOK
  <2>1. PICK K : Typing(K)
    BY <1>1 DEF Sound, Orderly, Typed
  <2>2. \A t \in K : t.con \in Constructors
    BY <2>1 DEF Typing, Suits, Kit, Here
  <2>3. Null.con \in Constructors
    BY DEF Null, Type, Constructors
  <2>4. \A n \in DOMAIN resolved : resolved[n].con \in Constructors
    BY <2>1, <2>2, <2>3 DEF Typing
  <2>5. \A s \in DOMAIN scopes : \A name \in DOMAIN scopes[s] : scopes[s][name].con \in Constructors
    BY <2>1, <2>2 DEF Typing
  <2>6. \A name \in DOMAIN functions :
          functions[name].type.con = "function" /\ Len(functions[name].args) = Len(Arguments(functions[name].type))
    BY <2>1 DEF Typing, Signature
  <2> QED
    BY <2>4, <2>5, <2>6 DEF TypeOK
<1> QED
  BY <1>1, Soundness, PTL

\* A type without an object is read only after an error was reported: semantic
\* analysis never takes a program down without a message.
THEOREM CrashesReported == Spec => []CrashOnlyReported
<1>1. Sound => CrashOnlyReported
  BY DEF Sound, Orderly, CrashOnlyReported
<1> QED
  BY <1>1, Soundness, PTL

\* When semantic analysis has ended without an error, every expression and every
\* statement with a value has a type, in every program the parser makes.
THEOREM EverythingTyped == Spec => []AllTyped
<1>1. ASSUME Sound, Done, ~reported, NEW n \in DOMAIN prog.node,
             Kind(n) \in Expressions \cup {"var", "return", "yield"}
      PROVE  resolved[n] # Null
  <2>1. todo = << >>
    BY <1>1 DEF Done, Sound, Orderly
  <2>2. n \in Valued
    BY <1>1 DEF Valued, N
  <2>3. Given(todo, Len(todo) + 1, n)
    BY <1>1, <2>2 DEF Sound, Orderly, Ordered
  <2>4. Len(todo) = 0
    BY <2>1
  <2> QED
    BY <2>3, <2>4 DEF Given
<1>2. Sound => AllTyped
  BY <1>1 DEF AllTyped
<1> QED
  BY <1>2, Soundness, PTL

-----------------------------------------------------------------------------
(* The whole front end keeps the guarantees: code generation changes       *)
(* neither the tree nor its types.                                         *)

\* Every action of code generation leaves the tree and its types alone.
LEMMA GenerationReads ==
  ASSUME G!Next
  PROVE  prog' = prog /\ resolved' = resolved
<1>1. CASE G!GenerateOperands \/ G!GenerateLiteral \/ G!GenerateIdentifier \/ G!GenerateTensor
  BY <1>1 DEF G!GenerateOperands, G!GenerateLiteral, G!GenerateIdentifier, G!GenerateTensor, G!Calls, G!Returns
<1>2. CASE G!GenerateBinary \/ G!GenerateUnary \/ G!GenerateIndexAccess \/ G!GenerateCall
  BY <1>2 DEF G!GenerateBinary, G!GenerateUnary, G!GenerateIndexAccess, G!GenerateCall, G!Calls, G!Returns
<1>3. CASE G!GenerateUnsupported \/ G!GenerateTuple \/ G!GenerateIf \/ G!GenerateFor
  BY <1>3 DEF G!GenerateUnsupported, G!GenerateTuple, G!GenerateIf, G!GenerateFor, G!Calls
<1>4. CASE G!GenerateValues \/ G!GenerateVarDecl \/ G!GenerateExprStmt \/ G!GenerateTerminator
  BY <1>4 DEF G!GenerateValues, G!GenerateVarDecl, G!GenerateExprStmt, G!GenerateTerminator, G!Calls
<1>5. CASE G!GenerateBlock \/ G!GenerateFunc
  BY <1>5 DEF G!GenerateBlock, G!GenerateFunc
<1> QED
  BY <1>1, <1>2, <1>3, <1>4, <1>5 DEF G!Next

\* A step of the front end is one of semantic analysis, or changes nothing that
\* semantic analysis keeps.
LEMMA FrontendStep ==
  ASSUME [FrontendNext]_<<prog, resolved, sema, gen>>
  PROVE  [Next]_vars
<1>1. CASE Analyse
  BY <1>1 DEF Analyse
<1>2. CASE Generate
  <2>1. prog' = prog /\ resolved' = resolved
    BY <1>2, GenerationReads DEF Generate
  <2> QED
    BY <1>2, <2>1 DEF Generate, sema, vars
<1>3. CASE UNCHANGED <<prog, resolved, sema, gen>>
  BY <1>3 DEF sema, vars
<1> QED
  BY <1>1, <1>2, <1>3 DEF FrontendNext

\* The front end implements semantic analysis: what code generation does with the
\* tree is no step of its own there.
THEOREM Refinement == FrontendSpec => Spec
<1>1. FrontendInit => Init
  BY DEF FrontendInit
<1>2. [FrontendNext]_<<prog, resolved, sema, gen>> => [Next]_vars
  BY FrontendStep
<1> QED
  BY <1>1, <1>2, PTL DEF FrontendSpec, Spec

\* Code generation takes a step only when every expression and every statement
\* with a value has a type: generate_expr never reads a type that was not set.
THEOREM Trust ==
  FrontendSpec =>
    [][Generate => \A n \in DOMAIN prog.node :
         Kind(n) \in Expressions \cup {"var", "return", "yield"} => resolved[n] # Null]_<<prog, resolved, sema, gen>>
<1>1. AllTyped /\ Generate =>
        \A n \in DOMAIN prog.node : Kind(n) \in Expressions \cup {"var", "return", "yield"} => resolved[n] # Null
  BY DEF AllTyped, Generate
<1> QED
  BY <1>1, Refinement, EverythingTyped, PTL

\* So the whole front end keeps the guarantees of semantic analysis.
THEOREM Guarantees ==
  FrontendSpec => [](TypeOK /\ AllTyped /\ CrashOnlyReported /\ Closed) /\ BindingsStay
BY Refinement, TypesCorrect, EverythingTyped, CrashesReported, Scopes, Bindings, PTL
=============================================================================
