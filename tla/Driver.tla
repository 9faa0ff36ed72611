------------------------------- MODULE Driver -------------------------------
(***************************************************************************)
(* The command line of colgm-mlir (src/main.cpp) and the just-in-time      *)
(* execution it may end with (src/runtime/jit.cpp).  The phases are steps  *)
(* that turn out well or not; what they do is in the other modules.        *)
(***************************************************************************)
EXTENDS Naturals, Sequences

CONSTANT ArgVectors    \* argument vectors, without the name of the program

ASSUME ArgVectorsAssumption == \A v \in ArgVectors : v \in Seq(STRING)

View == [x \in {"-l", "-a", "-s", "-sa", "-m"} |->
           CASE x = "-l" -> "tokens" [] x = "-a" -> "ast" [] x = "-s" -> "sema"
             [] x = "-sa" -> "sema_ast" [] OTHER -> "mlir"]
Passes == {"--const-fold", "--lowering", "--jit"}
ValueOptions == {"-o"}   \* stands for --output, --arch and --platform too
Dashed == DOMAIN View \cup Passes \cup ValueOptions \cup {"-h", "-v", "-x"}

VARIABLES
  args,
  at,       \* i: the next argument
  input,    \* input_file
  cmd,      \* the views asked for
  po,       \* the pass options
  step,     \* what comes next
  cnt,      \* whether err.cnt is not 0
  ran,      \* the phases that have run, and whether they went well
  shown,    \* what was written out
  status    \* of the process, once it has ended

options == <<args, at, input, cmd, po>>
vars == <<options, step, cnt, ran, shown, status>>

NoFile == ""      \* input_file before it is set
Killed == 139     \* by a signal
Failure == 255    \* exit(-1)

-----------------------------------------------------------------------------
Exit(code) == step' = "exited" /\ status' = code
Goes(next) == step' = next /\ UNCHANGED status

\* execute(s, "a.out.ll", po)
Execute(s) == input' = s /\ Goes("lex")

\* No argument: the logo.  One: help, version, or a file.
MainNone == step = "main" /\ args = << >> /\ Exit(0) /\ UNCHANGED <<options, cnt, ran, shown>>
MainOne ==
  /\ step = "main" /\ Len(args) = 1
  /\ \/ args[1] \in {"-h", "-v"} /\ Exit(0) /\ UNCHANGED input
     \/ args[1] \notin Dashed /\ Execute(args[1])
     \/ args[1] \in Dashed \ {"-h", "-v"} /\ Exit(1) /\ UNCHANGED input
  /\ UNCHANGED <<args, at, cmd, po, cnt, ran, shown>>
MainMany ==
  step = "main" /\ Len(args) > 1 /\ Goes("options") /\ UNCHANGED <<options, cnt, ran, shown>>

\* Fault: the value of an option is looked at as an argument.
SkipNone == 1
Skip == 2

Option ==
  /\ step = "options" /\ at <= Len(args)
  /\ LET arg == args[at] IN
     \/ arg = "-h" /\ Exit(0) /\ UNCHANGED <<at, input, cmd, po>>
     \/ /\ arg \in DOMAIN View /\ cmd' = cmd \cup {View[arg]}
        /\ at' = at + 1 /\ UNCHANGED <<input, po, step, status>>
     \/ /\ arg \in ValueOptions /\ at < Len(args)
        /\ at' = at + Skip /\ UNCHANGED <<input, cmd, po, step, status>>
     \/ arg \in ValueOptions /\ at = Len(args) /\ Exit(1) /\ UNCHANGED <<at, input, cmd, po>>
     \/ /\ arg \in Passes /\ po' = po \cup {arg}
        /\ at' = at + 1 /\ UNCHANGED <<input, cmd, step, status>>
     \/ /\ arg \notin DOMAIN View \cup ValueOptions \cup Passes \cup {"-h"}
        /\ IF input = NoFile THEN input' = arg /\ at' = at + 1 /\ UNCHANGED <<step, status>>
           ELSE Exit(1) /\ UNCHANGED <<at, input>>
        /\ UNCHANGED <<cmd, po>>
  /\ UNCHANGED <<args, cnt, ran, shown>>

OptionsEnd ==
  /\ step = "options" /\ at > Len(args)
  /\ IF input = NoFile THEN Exit(1) ELSE Goes("lex")
  /\ UNCHANGED <<options, cnt, ran, shown>>

-----------------------------------------------------------------------------
Ran(name, ok) == ran' = Append(ran, [phase |-> name, ok |-> ok]) /\ UNCHANGED options

\* Shows the first view of these that is asked for, and returns; otherwise goes on.
ViewOr(views, next) ==
  \/ \E i \in DOMAIN views :
       /\ views[i] \in cmd /\ \A j \in 1 .. i - 1 : views[j] \notin cmd
       /\ shown' = Append(shown, views[i]) /\ Exit(0)
  \/ (\A i \in DOMAIN views : views[i] \notin cmd) /\ Goes(next) /\ UNCHANGED shown

\* Fault: an error in the tree does not end the run.
ChkerrNot(name) == name # "parse" /\ cnt'
Chkerr(name) == cnt'

\* A phase of the front end, with chkerr() after it.  The lexer reports a file that
\* is not there.
Checked(name, views, next) ==
  /\ step = name
  /\ \E ok \in BOOLEAN :
       /\ input = NoFile => ~ok
       /\ Ran(name, ok) /\ cnt' = (cnt \/ ~ok)
  /\ IF Chkerr(name) THEN Exit(1) /\ UNCHANGED shown ELSE ViewOr(views, next)

Lex == Checked("lex", <<"tokens">>, "parse")
Parse == Checked("parse", <<"ast">>, "sema")

\* Fault: the tree is asked about first.
SemaViewsSwapped == <<"sema_ast", "sema">>
SemaViews == <<"sema", "sema_ast">>
Sema == Checked("sema", SemaViews, "generate")

Generate ==
  step = "generate" /\ Ran("generate", TRUE) /\ Goes("verify") /\ UNCHANGED <<cnt, shown>>

\* Fault: a failure is shown, but not returned.
FailureSilent == 0
FailureStatus == Failure

\* A step that ends the process when it fails.
Fallible(name, next) ==
  /\ step = name
  /\ \/ Ran(name, TRUE) /\ Goes(next)
     \/ Ran(name, FALSE) /\ Exit(FailureStatus)
  /\ UNCHANGED <<cnt, shown>>

\* The module is written out if it is not valid.
Verify ==
  /\ step = "verify"
  /\ \/ Ran("verify", TRUE) /\ Goes("const_fold") /\ UNCHANGED shown
     \/ Ran("verify", FALSE) /\ Exit(FailureStatus) /\ shown' = Append(shown, "mlir")
  /\ UNCHANGED cnt

\* Fault: only the passes that are named.
NeedsNamed(pass) == pass \in po
Needs(pass) == pass \in po \/ "--jit" \in po

\* A pass of the pass manager, if it is in the pipeline.  It fails when the pass says so
\* (the lowering), and when the module it leaves is not valid (either).
Pass(name, option, next) ==
  \/ Needs(option) /\ Fallible(name, next)
  \/ /\ step = name /\ ~Needs(option) /\ Goes(next)
     /\ UNCHANGED <<options, cnt, ran, shown>>

ConstFold == Pass("const_fold", "--const-fold", "lowering")
Lowering == Pass("lowering", "--lowering", "built")

\* An assertion, a value that is not there, a constant that was freed, or a cast in a pass
\* that its operand does not allow.
Crash ==
  /\ \/ step \in {"sema", "generate"}
     \/ step = "const_fold" /\ Needs("--const-fold")
     \/ step = "lowering" /\ Needs("--lowering")
  /\ Ran(step, FALSE) /\ Exit(Killed) /\ UNCHANGED <<cnt, shown>>

Built ==
  /\ step = "built"
  /\ IF "mlir" \notin cmd /\ "--jit" \notin po THEN Exit(0) /\ UNCHANGED shown
     ELSE ViewOr(<<"mlir">>, "convert")
  /\ UNCHANGED <<options, cnt, ran>>

-----------------------------------------------------------------------------
(* run_jit *)

Convert == Fallible("convert", "engine")
CreateEngine == Fallible("engine", "lookup")
Lookup == Fallible("lookup", "call")

\* main is called as a function without arguments, whatever its parameters are.
Call ==
  /\ step = "call"
  /\ \/ Ran("call", TRUE) /\ Exit(0) /\ shown' = Append(shown, "result")
     \/ Ran("call", FALSE) /\ Exit(Killed) /\ UNCHANGED shown
  /\ UNCHANGED cnt

Init ==
  /\ args \in ArgVectors /\ at = 1 /\ input = NoFile /\ cmd = {} /\ po = {}
  /\ step = "main" /\ cnt = FALSE /\ ran = << >> /\ shown = << >> /\ status = 0

Next ==
  \/ MainNone \/ MainOne \/ MainMany \/ Option \/ OptionsEnd
  \/ Lex \/ Parse \/ Sema \/ Crash \/ Generate \/ Verify \/ ConstFold \/ Lowering \/ Built
  \/ Convert \/ CreateEngine \/ Lookup \/ Call

Spec == Init /\ [][Next]_vars

-----------------------------------------------------------------------------
\* The order of the pipeline.
Rank == [main |-> 0, options |-> 0, lex |-> 1, parse |-> 2, sema |-> 3, generate |-> 4,
         verify |-> 5, const_fold |-> 6, lowering |-> 7, built |-> 8,
         convert |-> 9, engine |-> 10, lookup |-> 11, call |-> 12, exited |-> 13]

\* No phase runs after one that went wrong (chkerr, failed), and they run in the order
\* of the pipeline.
Gated ==
  \A k \in DOMAIN ran : \A j \in 1 .. k - 1 :
    ran[j].ok /\ Rank[ran[j].phase] < Rank[ran[k].phase]

HasRun(name) == \E k \in DOMAIN ran : ran[k].phase = name /\ ran[k].ok

\* main is called only with --jit and without a view, and after the module was folded
\* and lowered, whether these passes were named or not.
OnlyLowered ==
  HasRun("call") => cmd = {} /\ "--jit" \in po /\ HasRun("const_fold") /\ HasRun("lowering")

\* What is shown, in the order of the pipeline.
ViewRank == [tokens |-> 1, ast |-> 2, sema |-> 3, sema_ast |-> 4, mlir |-> 5, result |-> 6]

\* One thing is shown, and no view that was asked for comes before it.
EarliestShown ==
  /\ Len(shown) <= 1
  /\ \A k \in DOMAIN shown : \A v \in cmd : ViewRank[shown[k]] <= ViewRank[v]
=============================================================================
