---------------------------- MODULE Driver_proof ----------------------------
(***************************************************************************)
(* That no phase of the compiler runs after one that went wrong, and that  *)
(* the process does what its command line means, for any arguments.        *)
(***************************************************************************)
EXTENDS CommandLine, Induction, TLAPS

\* What has run, what is next, and that while there is a next nothing went wrong.
Recorded ==
  /\ ran \in Seq([phase : DOMAIN Rank, ok : BOOLEAN])
  /\ step \in DOMAIN Rank
Behind == \A k \in DOMAIN ran : Rank[ran[k].phase] < Rank[step]
WellSoFar == step # "exited" => ~cnt /\ \A k \in DOMAIN ran : ran[k].ok

IInv == Recorded /\ Behind /\ WellSoFar /\ Gated

Later(name, next) == name \in DOMAIN Rank /\ next \in DOMAIN Rank /\ Rank[name] < Rank[next]

-----------------------------------------------------------------------------
LEMMA RankFacts ==
  /\ DOMAIN Rank = {"main", "options", "lex", "parse", "sema", "generate", "verify", "const_fold",
                    "lowering", "built", "convert", "engine", "lookup", "call", "exited"}
  /\ \A s \in DOMAIN Rank : Rank[s] \in Nat
  /\ \A s \in DOMAIN Rank : s # "exited" => Rank[s] < Rank["exited"]
  BY DEF Rank

LEMMA PhaseNames == Recorded => \A k \in DOMAIN ran : ran[k].phase \in DOMAIN Rank
<1> SUFFICES ASSUME Recorded, NEW k \in DOMAIN ran PROVE ran[k].phase \in DOMAIN Rank
  OBVIOUS
<1> DEFINE Entries == [phase : DOMAIN Rank, ok : BOOLEAN]
<1>1. ran \in Seq(Entries)
  BY DEF Recorded
<1> HIDE DEF Entries
<1>2. ran[k] \in Entries
  BY <1>1
<1> QED
  BY <1>2 DEF Entries

\* A phase is recorded, and the process goes on to a later one or exits.
LEMMA PhaseKeeps ==
  ASSUME IInv, NEW name, NEW ok \in BOOLEAN, step = name, step # "exited",
         Ran(name, ok), Later(name, step'), step' # "exited" => ok /\ ~cnt'
  PROVE  IInv'
<1> DEFINE n == Len(ran) + 1
           entry == [phase |-> name, ok |-> ok]
<1>1. ran' = Append(ran, entry) /\ entry \in [phase : DOMAIN Rank, ok : BOOLEAN]
  BY DEF Ran, Later
<1>2. /\ ran' \in Seq([phase : DOMAIN Rank, ok : BOOLEAN]) /\ DOMAIN ran' = 1 .. n
      /\ DOMAIN ran = 1 .. n - 1 /\ n \in Nat /\ ran'[n] = entry
      /\ \A k \in 1 .. n - 1 : ran'[k] = ran[k]
  BY <1>1 DEF IInv, Recorded
<1>3. \A k \in 1 .. n - 1 : ran[k].phase \in DOMAIN Rank /\ ran[k].ok /\ Rank[ran[k].phase] < Rank[name]
  BY <1>2, PhaseNames DEF IInv, Behind, WellSoFar
<1>4. Rank[name] < Rank[step'] /\ \A s \in DOMAIN Rank : Rank[s] \in Nat
  BY RankFacts DEF Later
<1>5. Recorded'
  BY <1>2 DEF Recorded, Later
<1>6. Behind'
  <2> SUFFICES ASSUME NEW k \in 1 .. n
               PROVE  Rank[ran'[k].phase] < Rank[step']
    BY <1>2 DEF Behind
  <2>1. CASE k = n
    BY <2>1, <1>2, <1>4
  <2>2. CASE k # n
    BY <2>2, <1>2, <1>3, <1>4 DEF Later
  <2> QED
    BY <2>1, <2>2
<1>7. WellSoFar'
  <2> SUFFICES ASSUME step' # "exited", NEW k \in 1 .. n
               PROVE  ~cnt' /\ ran'[k].ok
    BY <1>2 DEF WellSoFar
  <2>1. CASE k = n
    BY <2>1, <1>2
  <2>2. CASE k # n
    BY <2>2, <1>2, <1>3
  <2> QED
    BY <2>1, <2>2
<1>8. Gated'
  <2> SUFFICES ASSUME NEW k \in 1 .. n, NEW j \in 1 .. k - 1
               PROVE  ran'[j].ok /\ Rank[ran'[j].phase] < Rank[ran'[k].phase]
    BY <1>2 DEF Gated
  <2>1. CASE k = n
    BY <2>1, <1>2, <1>3
  <2>2. CASE k # n
    BY <2>2, <1>2 DEF IInv, Gated
  <2> QED
    BY <2>1, <2>2
<1> QED
  BY <1>5, <1>6, <1>7, <1>8 DEF IInv

\* Nothing is recorded, and the process goes on to a step that is not earlier.
LEMMA OtherKeeps ==
  ASSUME IInv, UNCHANGED <<ran, cnt>>, step' \in DOMAIN Rank, step # "exited",
         Rank[step] <= Rank[step']
  PROVE  IInv'
<1>1. Recorded' /\ Gated'
  BY DEF IInv, Recorded, Gated
<1>2. \A s \in DOMAIN Rank : Rank[s] \in Nat
  BY RankFacts
<1>3. \A k \in DOMAIN ran : ran[k].phase \in DOMAIN Rank
  BY PhaseNames DEF IInv
<1>4. Behind'
  BY <1>2, <1>3 DEF IInv, Recorded, Behind
<1>5. WellSoFar'
  BY DEF IInv, WellSoFar
<1> QED
  BY <1>1, <1>4, <1>5 DEF IInv

-----------------------------------------------------------------------------
LEMMA InitIInv == Init => IInv
<1> SUFFICES ASSUME Init PROVE IInv
  OBVIOUS
<1>1. ran = << >> /\ step = "main" /\ cnt = FALSE
  BY DEF Init
<1> QED
  BY <1>1, RankFacts DEF IInv, Recorded, Behind, WellSoFar, Gated

LEMMA CheckedKeeps ==
  ASSUME IInv, NEW name, NEW views, NEW next, Later(name, next), Later(name, "exited"),
         name # "exited", Checked(name, views, next)
  PROVE  IInv'
<1>1. PICK ok \in BOOLEAN : Ran(name, ok) /\ cnt' = (cnt \/ ~ok)
  BY DEF Checked
<1>2. step = name
  BY DEF Checked
<1>3. CASE cnt'
  <2>1. step' = "exited"
    BY <1>3 DEF Checked, Chkerr, Exit
  <2> QED
    BY <1>1, <1>2, <2>1, PhaseKeeps
<1>4. CASE ~cnt'
  <2>1. ok
    BY <1>1, <1>4
  <2>2. step' = "exited" \/ step' = next
    BY <1>4 DEF Checked, Chkerr, ViewOr, Exit, Goes
  <2> QED
    BY <1>1, <1>2, <1>4, <2>1, <2>2, PhaseKeeps
<1> QED
  BY <1>1, <1>3, <1>4

LEMMA FallibleKeeps ==
  ASSUME IInv, NEW name, NEW next, Later(name, next), Later(name, "exited"),
         name # "exited", Fallible(name, next)
  PROVE  IInv'
<1>1. step = name /\ cnt' = cnt
  BY DEF Fallible
<1>2. CASE Ran(name, TRUE) /\ Goes(next)
  <2>1. step' = next /\ ~cnt'
    BY <1>1, <1>2 DEF Goes, IInv, WellSoFar
  <2> QED
    BY <1>1, <1>2, <2>1, PhaseKeeps
<1>3. CASE Ran(name, FALSE) /\ Exit(FailureStatus)
  <2>1. step' = "exited"
    BY <1>3 DEF Exit
  <2> QED
    BY <1>1, <1>3, <2>1, PhaseKeeps
<1> QED
  BY <1>2, <1>3 DEF Fallible

\* A pass of the pass manager, or the choice to leave it out.
LEMMA PassKeeps ==
  ASSUME IInv, NEW name, NEW option, NEW next, Later(name, next), Later(name, "exited"),
         name # "exited", Pass(name, option, next)
  PROVE  IInv'
<1>1. CASE Fallible(name, next)
  BY <1>1, FallibleKeeps
<1>2. CASE step = name /\ Goes(next) /\ UNCHANGED <<options, cnt, ran, shown>>
  <2>1. step' \in DOMAIN Rank /\ Rank[step] < Rank[step'] /\ \A s \in DOMAIN Rank : Rank[s] \in Nat
    BY <1>2, RankFacts DEF Goes, Later
  <2>2. step \in DOMAIN Rank
    BY <1>2 DEF Later
  <2> QED
    BY <1>2, <2>1, <2>2, OtherKeeps
<1> QED
  BY <1>1, <1>2 DEF Pass

\* Every step keeps the invariant.
LEMMA NextIInv == IInv /\ [Next]_vars => IInv'
<1> SUFFICES ASSUME IInv, [Next]_vars PROVE IInv'
  OBVIOUS
<1>0. /\ Later("lex", "parse") /\ Later("parse", "sema") /\ Later("sema", "generate")
      /\ Later("generate", "verify") /\ Later("verify", "const_fold") /\ Later("const_fold", "lowering")
      /\ Later("lowering", "built") /\ Later("built", "convert") /\ Later("convert", "engine")
      /\ Later("engine", "lookup") /\ Later("lookup", "call")
      /\ \A s \in DOMAIN Rank : s # "exited" => Later(s, "exited")
  BY DEF Later, Rank
<1>1. CASE MainNone \/ MainOne \/ MainMany \/ Option \/ OptionsEnd
  <2>1. UNCHANGED <<ran, cnt>> /\ step \in {"main", "options"}
        /\ step' \in {step, "options", "lex", "exited"}
    BY <1>1 DEF MainNone, MainOne, MainMany, Option, OptionsEnd, Exit, Goes, Execute
  <2>2. step' \in DOMAIN Rank /\ Rank[step] <= Rank[step']
    BY <2>1 DEF Rank
  <2> QED
    BY <2>1, <2>2, OtherKeeps
<1>2. CASE Lex \/ Parse \/ Sema
  BY <1>0, <1>2, CheckedKeeps, RankFacts DEF Lex, Parse, Sema
<1>3. CASE Crash
  <2>1. step \in {"sema", "generate", "const_fold", "lowering"} /\ Ran(step, FALSE) /\ step' = "exited"
    BY <1>3 DEF Crash, Exit
  <2>2. Later(step, "exited") /\ step # "exited"
    BY <1>0, <2>1, RankFacts
  <2> QED
    BY <2>1, <2>2, PhaseKeeps
<1>4. CASE Generate
  <2>1. step = "generate" /\ Ran("generate", TRUE) /\ step' = "verify" /\ cnt' = cnt
    BY <1>4 DEF Generate, Goes
  <2>2. ~cnt'
    BY <2>1 DEF IInv, WellSoFar
  <2> QED
    BY <1>0, <2>1, <2>2, PhaseKeeps
<1>5. CASE Verify
  <2>1. step = "verify" /\ cnt' = cnt /\ ~cnt'
    BY <1>5 DEF Verify, IInv, WellSoFar
  <2>2. CASE Ran("verify", TRUE) /\ Goes("const_fold")
    BY <1>0, <2>1, <2>2, PhaseKeeps DEF Goes
  <2>3. CASE Ran("verify", FALSE) /\ Exit(FailureStatus)
    BY <1>0, <2>1, <2>3, PhaseKeeps, RankFacts DEF Exit
  <2> QED
    BY <1>5, <2>2, <2>3 DEF Verify
<1>6. CASE ConstFold
  BY <1>0, <1>6, PassKeeps, RankFacts DEF ConstFold
<1>7. CASE Lowering
  BY <1>0, <1>7, PassKeeps, RankFacts DEF Lowering
<1>8. CASE Built
  <2>1. UNCHANGED <<ran, cnt>> /\ step = "built" /\ step' \in {"convert", "exited"}
    BY <1>8 DEF Built, ViewOr, Exit, Goes
  <2>2. step' \in DOMAIN Rank /\ Rank[step] <= Rank[step']
    BY <2>1 DEF Rank
  <2> QED
    BY <2>1, <2>2, OtherKeeps
<1>9. CASE Convert \/ CreateEngine \/ Lookup
  BY <1>0, <1>9, FallibleKeeps, RankFacts DEF Convert, CreateEngine, Lookup
<1>10. CASE Call
  <2>1. PICK ok \in BOOLEAN : Ran("call", ok) /\ step = "call" /\ step' = "exited"
    BY <1>10 DEF Call, Exit
  <2> QED
    BY <1>0, <2>1, PhaseKeeps, RankFacts
<1>11. CASE UNCHANGED vars
  BY <1>11 DEF vars, IInv, Recorded, Behind, WellSoFar, Gated
<1> QED
  BY <1>1, <1>2, <1>3, <1>4, <1>5, <1>6, <1>7, <1>8, <1>9, <1>10, <1>11 DEF Next

-----------------------------------------------------------------------------
\* Whatever the arguments, no phase of the compiler runs after one that went wrong,
\* and the phases run in the order of the pipeline (execute, run_jit).
THEOREM PhasesGated == Spec => []Gated
<1>1. IInv => Gated
  BY DEF IInv
<1> QED
  BY <1>1, InitIInv, NextIInv, PTL DEF Spec

-----------------------------------------------------------------------------
(* What has to be true of the options and of what has run, at each step: the *)
(* process has not come past a view that was asked for.                      *)

\* The steps from a phase on.
SinceConvert == {"convert", "engine", "lookup", "call"}
SinceBuilt == {"built"} \cup SinceConvert
SinceLowering == {"lowering"} \cup SinceBuilt
SinceGenerate == {"generate", "verify", "const_fold"} \cup SinceLowering
SinceSema == {"sema"} \cup SinceGenerate
SinceParse == {"parse"} \cup SinceSema

Passed ==
  /\ cmd \subseteq {"tokens", "ast", "sema", "sema_ast", "mlir"}
  /\ step \in SinceParse => "tokens" \notin cmd
  /\ step \in SinceSema => "ast" \notin cmd
  /\ step \in SinceGenerate => "sema" \notin cmd /\ "sema_ast" \notin cmd
  /\ step \in SinceConvert => "mlir" \notin cmd /\ "--jit" \in po
  /\ step \in SinceLowering /\ Needs("--const-fold") => HasRun("const_fold")
  /\ step \in SinceBuilt /\ Needs("--lowering") => HasRun("lowering")

Unshown == step # "exited" => shown = << >>

OInv == IInv /\ Passed /\ Unshown /\ OnlyLowered /\ EarliestShown

\* What has run is what had run, and the phase that is recorded.
LEMMA RunAfter ==
  ASSUME IInv, NEW name, NEW ok \in BOOLEAN, Ran(name, ok), NEW other
  PROVE  HasRun(other)' <=> HasRun(other) \/ (other = name /\ ok)
<1> DEFINE n == Len(ran) + 1
           entry == [phase |-> name, ok |-> ok]
<1>1. ran \in Seq([phase : DOMAIN Rank, ok : BOOLEAN]) /\ ran' = Append(ran, entry)
  BY DEF Ran, IInv, Recorded
<1>2. /\ DOMAIN ran' = 1 .. n /\ DOMAIN ran = 1 .. n - 1 /\ n \in Nat \ {0} /\ ran'[n] = entry
      /\ \A k \in 1 .. n - 1 : ran'[k] = ran[k]
  BY <1>1
<1> QED
  BY <1>2 DEF HasRun

\* main has not been called before the step that does.
LEMMA NotCalled == IInv /\ step # "exited" => ~HasRun("call")
<1> SUFFICES ASSUME IInv, step # "exited", NEW k \in DOMAIN ran, ran[k].phase = "call"
             PROVE  FALSE
  BY DEF HasRun
<1>1. Rank["call"] < Rank[step] /\ step \in DOMAIN Rank
  BY DEF IInv, Behind, Recorded
<1> QED
  BY <1>1 DEF Rank

\* Nothing is shown.
LEMMA NothingShown ==
  ASSUME OInv, UNCHANGED shown, step # "exited"
  PROVE  Unshown' /\ EarliestShown'
BY DEF OInv, Unshown, EarliestShown

\* One view is shown, which no view that was asked for comes before.
LEMMA OneShown ==
  ASSUME OInv, step # "exited", NEW v, shown' = Append(shown, v), step' = "exited",
         UNCHANGED cmd, \A w \in cmd : ViewRank[v] <= ViewRank[w]
  PROVE  Unshown' /\ EarliestShown'
<1>1. shown' = <<v>>
  BY DEF OInv, Unshown
<1> QED
  BY <1>1 DEF Unshown, EarliestShown

\* An exit, at which nothing has to be shown to hold of later steps.
LEMMA ExitPassed ==
  ASSUME Passed, UNCHANGED cmd, step' = "exited"
  PROVE  Passed'
BY DEF Passed, SinceParse, SinceSema, SinceGenerate, SinceLowering, SinceBuilt, SinceConvert

-----------------------------------------------------------------------------
\* Init has the invariant.
LEMMA InitOInv == Init => OInv
<1> SUFFICES ASSUME Init PROVE OInv
  OBVIOUS
<1>1. ran = << >> /\ step = "main" /\ cmd = {} /\ shown = << >>
  BY DEF Init
<1>3. Passed
  BY <1>1 DEF Passed, SinceParse, SinceSema, SinceGenerate, SinceLowering, SinceBuilt, SinceConvert
<1>4. Unshown /\ OnlyLowered /\ EarliestShown
  BY <1>1 DEF Unshown, OnlyLowered, EarliestShown, HasRun
<1> QED
  BY <1>3, <1>4, InitIInv DEF OInv

\* The reading of the options, while nothing has run.
LEMMA OptionsKeep ==
  ASSUME OInv, MainNone \/ MainOne \/ MainMany \/ Option \/ OptionsEnd
  PROVE  (Passed /\ Unshown /\ OnlyLowered /\ EarliestShown)'
<1>1. /\ UNCHANGED <<ran, shown>> /\ step \in {"main", "options"}
      /\ step' \in {"main", "options", "lex", "exited"}
  BY DEF MainNone, MainOne, MainMany, Option, OptionsEnd, Exit, Goes, Execute, options
<1>2. cmd' \subseteq {"tokens", "ast", "sema", "sema_ast", "mlir"}
  <2>1. cmd \subseteq {"tokens", "ast", "sema", "sema_ast", "mlir"}
    BY DEF OInv, Passed
  <2>2. \A a \in DOMAIN View : View[a] \in {"tokens", "ast", "sema", "sema_ast", "mlir"}
    BY DEF View
  <2>3. cmd' = cmd \/ \E a \in DOMAIN View : cmd' = cmd \cup {View[a]}
    BY DEF MainNone, MainOne, MainMany, Option, OptionsEnd, options
  <2> QED
    BY <2>1, <2>2, <2>3
<1>4. Passed'
  BY <1>1, <1>2 DEF Passed,
         SinceParse, SinceSema, SinceGenerate, SinceLowering, SinceBuilt, SinceConvert
<1>5. shown = << >>
  BY <1>1 DEF OInv, Unshown
<1>6. ~HasRun("call")'
  BY <1>1, NotCalled DEF OInv, HasRun
<1> QED
  BY <1>1, <1>4, <1>5, <1>6 DEF Unshown, OnlyLowered, EarliestShown

\* A view is shown, or the process goes on without it.
LEMMA ViewKeeps ==
  ASSUME OInv, step # "exited", NEW views \in {<<"tokens">>, <<"ast">>, <<"sema", "sema_ast">>, <<"mlir">>},
         NEW next, ViewOr(views, next), UNCHANGED cmd,
         \A w \in cmd : \A i \in DOMAIN views :
           (\A j \in 1 .. i - 1 : views[j] \notin cmd) => ViewRank[views[i]] <= ViewRank[w]
  PROVE  /\ Unshown' /\ EarliestShown'
         /\ \/ step' = "exited"
            \/ step' = next /\ \A i \in DOMAIN views : views[i] \notin cmd
<1>1. CASE \E i \in DOMAIN views :
             /\ views[i] \in cmd /\ \A j \in 1 .. i - 1 : views[j] \notin cmd
             /\ shown' = Append(shown, views[i]) /\ Exit(0)
  <2>1. PICK i \in DOMAIN views :
          /\ views[i] \in cmd /\ \A j \in 1 .. i - 1 : views[j] \notin cmd
          /\ shown' = Append(shown, views[i]) /\ Exit(0)
    BY <1>1
  <2> QED
    BY <2>1, OneShown DEF Exit
<1>2. CASE (\A i \in DOMAIN views : views[i] \notin cmd) /\ Goes(next) /\ UNCHANGED shown
  BY <1>2, NothingShown DEF Goes
<1> QED
  BY <1>1, <1>2 DEF ViewOr

\* No view that was asked for comes before those of the step.
LEMMA ViewOrder ==
  ASSUME OInv
  PROVE  /\ step = "lex" => \A w \in cmd : ViewRank["tokens"] <= ViewRank[w]
         /\ step = "parse" => \A w \in cmd : ViewRank["ast"] <= ViewRank[w]
         /\ step = "sema" => \A w \in cmd : ViewRank["sema"] <= ViewRank[w]
         /\ step = "sema" /\ "sema" \notin cmd => \A w \in cmd : ViewRank["sema_ast"] <= ViewRank[w]
         /\ step \in {"verify", "built"} => \A w \in cmd : ViewRank["mlir"] <= ViewRank[w]
BY DEF OInv, Passed,
       SinceParse, SinceSema, SinceGenerate, SinceLowering, SinceBuilt, SinceConvert, ViewRank

\* A phase of the front end: what it shows, or that its views were not asked for.
LEMMA FrontEndKeeps ==
  ASSUME OInv, Lex \/ Parse \/ Sema
  PROVE  (Passed /\ Unshown /\ OnlyLowered /\ EarliestShown)'
<1> DEFINE Step(name, views, next) == step = name /\ Checked(name, views, next)
<1>1. \/ Step("lex", <<"tokens">>, "parse")
      \/ Step("parse", <<"ast">>, "sema")
      \/ Step("sema", <<"sema", "sema_ast">>, "generate")
  BY DEF Lex, Parse, Sema, SemaViews, Checked
<1>2. ASSUME NEW name \in {"lex", "parse", "sema"}, NEW views, NEW next, Step(name, views, next)
      PROVE  /\ UNCHANGED <<cmd, po>> /\ OnlyLowered' /\ step # "exited"
             /\ \A other : HasRun(other) => HasRun(other)'
             /\ \/ step' = "exited" /\ UNCHANGED shown
                \/ ViewOr(views, next)
  <2>1. PICK ok \in BOOLEAN : Ran(name, ok)
    BY <1>2 DEF Checked
  <2>2. \A other : HasRun(other)' <=> HasRun(other) \/ (other = name /\ ok)
    BY <2>1, RunAfter DEF OInv
  <2>3. UNCHANGED <<cmd, po>>
    BY <2>1 DEF Ran, options
  <2>4. ~HasRun("call")'
    BY <1>2, <2>2, NotCalled DEF OInv
  <2> QED
    BY <1>2, <2>2, <2>3, <2>4 DEF Checked, Exit, OnlyLowered
<1>3. CASE step' = "exited" /\ UNCHANGED shown
  BY <1>1, <1>2, <1>3, ExitPassed, NothingShown DEF OInv
<1>4. CASE Step("lex", <<"tokens">>, "parse") /\ ViewOr(<<"tokens">>, "parse")
  <2> DEFINE views == <<"tokens">>
  <2>1. \A w \in cmd : \A i \in DOMAIN views : ViewRank[views[i]] <= ViewRank[w]
    BY <1>4, ViewOrder
  <2>2. Unshown' /\ EarliestShown' /\ (step' = "exited" \/ (step' = "parse" /\ "tokens" \notin cmd))
    BY <1>2, <1>4, <2>1, ViewKeeps
  <2>3. CASE step' = "parse"
    <3>1. Passed'
      BY <1>2, <1>4, <2>2, <2>3 DEF OInv, Passed,
             SinceParse, SinceSema, SinceGenerate, SinceLowering, SinceBuilt, SinceConvert
    <3> QED
      BY <1>2, <1>4, <2>2, <3>1
  <2>4. CASE step' = "exited"
    BY <1>2, <1>4, <2>2, <2>4, ExitPassed DEF OInv
  <2> QED
    BY <2>2, <2>3, <2>4
<1>5. CASE Step("parse", <<"ast">>, "sema") /\ ViewOr(<<"ast">>, "sema")
  <2> DEFINE views == <<"ast">>
  <2>1. \A w \in cmd : \A i \in DOMAIN views : ViewRank[views[i]] <= ViewRank[w]
    BY <1>5, ViewOrder
  <2>2. Unshown' /\ EarliestShown' /\ (step' = "exited" \/ (step' = "sema" /\ "ast" \notin cmd))
    BY <1>2, <1>5, <2>1, ViewKeeps
  <2>3. CASE step' = "sema"
    <3>1. Passed'
      BY <1>2, <1>5, <2>2, <2>3 DEF OInv, Passed,
             SinceParse, SinceSema, SinceGenerate, SinceLowering, SinceBuilt, SinceConvert
    <3> QED
      BY <1>2, <1>5, <2>2, <3>1
  <2>4. CASE step' = "exited"
    BY <1>2, <1>5, <2>2, <2>4, ExitPassed DEF OInv
  <2> QED
    BY <2>2, <2>3, <2>4
<1>6. CASE Step("sema", <<"sema", "sema_ast">>, "generate") /\ ViewOr(<<"sema", "sema_ast">>, "generate")
  <2> DEFINE views == <<"sema", "sema_ast">>
  <2>0. DOMAIN views = {1, 2} /\ views[1] = "sema" /\ views[2] = "sema_ast"
    OBVIOUS
  <2>1. ASSUME NEW w \in cmd, NEW i \in DOMAIN views, \A j \in 1 .. i - 1 : views[j] \notin cmd
        PROVE  ViewRank[views[i]] <= ViewRank[w]
    <3>0. step = "sema"
      BY <1>6
    <3>1. CASE i = 1
      <4>1. ViewRank["sema"] <= ViewRank[w]
        BY <3>0, ViewOrder
      <4>2. views[i] = "sema"
        BY <2>0, <3>1
      <4> HIDE DEF views
      <4> QED
        BY <4>1, <4>2
    <3>2. CASE i = 2
      <4>1. 1 \in 1 .. i - 1
        BY <3>2
      <4>2. "sema" \notin cmd
        BY <2>0, <2>1, <4>1
      <4>3. ViewRank["sema_ast"] <= ViewRank[w]
        BY <3>0, <4>2, ViewOrder
      <4>4. views[i] = "sema_ast"
        BY <2>0, <3>2
      <4> HIDE DEF views
      <4> QED
        BY <4>3, <4>4
    <3> QED
      BY <2>0, <3>1, <3>2
  <2>2. /\ Unshown' /\ EarliestShown'
        /\ step' = "exited" \/ (step' = "generate" /\ \A i \in DOMAIN views : views[i] \notin cmd)
    BY <1>2, <1>6, <2>1, ViewKeeps
  <2>3. CASE step' = "generate"
    <3>1. "sema" \notin cmd /\ "sema_ast" \notin cmd
      BY <2>0, <2>2, <2>3
    <3>2. Passed'
      BY <1>2, <1>6, <2>3, <3>1 DEF OInv, Passed,
             SinceParse, SinceSema, SinceGenerate, SinceLowering, SinceBuilt, SinceConvert
    <3> QED
      BY <1>2, <1>6, <2>2, <3>2
  <2>4. CASE step' = "exited"
    BY <1>2, <1>6, <2>2, <2>4, ExitPassed DEF OInv
  <2> QED
    BY <2>2, <2>3, <2>4
<1> QED
  BY <1>1, <1>2, <1>3, <1>4, <1>5, <1>6

\* A later phase, or the choice to leave it out.
LEMMA PhaseKeepsPassed ==
  ASSUME OInv, Crash \/ Generate \/ ConstFold \/ Lowering \/ Convert \/ CreateEngine \/ Lookup
  PROVE  (Passed /\ Unshown /\ OnlyLowered /\ EarliestShown)'
<1>1. /\ UNCHANGED <<cmd, po, shown>>
      /\ step \in {"sema", "generate", "const_fold", "lowering", "convert", "engine", "lookup"}
  BY DEF Crash, Generate, ConstFold, Lowering, Pass, Convert, CreateEngine, Lookup, Fallible, Ran, options
<1>2. Unshown' /\ EarliestShown'
  BY <1>1, NothingShown
<1>3. (\E ok \in BOOLEAN : Ran(step, ok)) \/ UNCHANGED ran
  BY DEF Crash, Generate, ConstFold, Lowering, Pass, Convert, CreateEngine, Lookup, Fallible
<1>4. \A other : HasRun(other) => HasRun(other)'
  BY <1>3, RunAfter DEF OInv, HasRun
<1>5. ~HasRun("call")'
  BY <1>1, <1>3, RunAfter, NotCalled DEF OInv, HasRun
<1>6. OnlyLowered'
  BY <1>5 DEF OnlyLowered
<1>7. CASE step' = "exited"
  BY <1>1, <1>2, <1>6, <1>7, ExitPassed DEF OInv
<1>8. CASE step' # "exited"
  <2>1. \/ step = "generate" /\ step' = "verify"
        \/ step = "const_fold" /\ step' = "lowering" /\ (Needs("--const-fold") => Ran("const_fold", TRUE))
        \/ step = "lowering" /\ step' = "built" /\ (Needs("--lowering") => Ran("lowering", TRUE))
        \/ step = "convert" /\ step' = "engine"
        \/ step = "engine" /\ step' = "lookup"
        \/ step = "lookup" /\ step' = "call"
    BY <1>8 DEF Crash, Generate, ConstFold, Lowering, Pass, Convert, CreateEngine, Lookup, Fallible, Exit, Goes
  <2>2. /\ step = "const_fold" /\ Needs("--const-fold") => HasRun("const_fold")'
        /\ step = "lowering" /\ Needs("--lowering") => HasRun("lowering")'
    BY <2>1, RunAfter DEF OInv
  <2>3. \A pass : Needs(pass)' <=> Needs(pass)
    BY <1>1 DEF Needs
  <2>5. Passed'
    BY <1>1, <1>4, <2>1, <2>2, <2>3 DEF OInv, Passed,
           SinceParse, SinceSema, SinceGenerate, SinceLowering, SinceBuilt, SinceConvert
  <2> QED
    BY <1>2, <1>6, <2>5
<1> QED
  BY <1>7, <1>8

\* The verification, which shows a module that is not valid.
LEMMA VerifyKeeps ==
  ASSUME OInv, Verify
  PROVE  (Passed /\ Unshown /\ OnlyLowered /\ EarliestShown)'
<1>1. step = "verify" /\ UNCHANGED <<cmd, po>> /\ \E ok \in BOOLEAN : Ran("verify", ok)
  BY DEF Verify, Ran, options
<1>2. ~HasRun("call")' /\ \A other : HasRun(other) => HasRun(other)'
  BY <1>1, RunAfter, NotCalled DEF OInv
<1>3. OnlyLowered'
  BY <1>2 DEF OnlyLowered
<1>4. CASE step' = "const_fold" /\ UNCHANGED shown
  <2>1. Passed'
    BY <1>1, <1>2, <1>4 DEF OInv, Passed,
           SinceParse, SinceSema, SinceGenerate, SinceLowering, SinceBuilt, SinceConvert
  <2> QED
    BY <1>1, <1>3, <1>4, <2>1, NothingShown
<1>5. CASE step' = "exited" /\ shown' = Append(shown, "mlir")
  BY <1>1, <1>3, <1>5, ExitPassed, OneShown, ViewOrder DEF OInv
<1> QED
  BY <1>4, <1>5 DEF Verify, Goes, Exit

\* The end of a compilation without an execution.
LEMMA BuiltKeeps ==
  ASSUME OInv, Built
  PROVE  (Passed /\ Unshown /\ OnlyLowered /\ EarliestShown)'
<1>1. step = "built" /\ UNCHANGED <<cmd, po, ran>>
  BY DEF Built, options
<1>2. \A other : HasRun(other)' <=> HasRun(other)
  BY <1>1 DEF HasRun
<1>3. OnlyLowered'
  BY <1>1, <1>2 DEF OInv, OnlyLowered
<1>4. CASE step' = "exited" /\ UNCHANGED shown
  BY <1>1, <1>3, <1>4, ExitPassed, NothingShown DEF OInv
<1>5. CASE ("mlir" \in cmd \/ "--jit" \in po) /\ ViewOr(<<"mlir">>, "convert")
  <2> DEFINE views == <<"mlir">>
  <2>1. \A w \in cmd : \A i \in DOMAIN views : ViewRank[views[i]] <= ViewRank[w]
    BY <1>1, ViewOrder
  <2>2. Unshown' /\ EarliestShown' /\ (step' = "exited" \/ (step' = "convert" /\ "mlir" \notin cmd))
    BY <1>1, <1>5, <2>1, ViewKeeps
  <2>3. \A pass : Needs(pass)' <=> Needs(pass)
    BY <1>1 DEF Needs
  <2>4. Passed'
    BY <1>1, <1>2, <1>5, <2>2, <2>3, ExitPassed DEF OInv, Passed,
           SinceParse, SinceSema, SinceGenerate, SinceLowering, SinceBuilt, SinceConvert
  <2> QED
    BY <1>3, <2>2, <2>4
<1> QED
  BY <1>4, <1>5 DEF Built, Exit

\* The call of main.
LEMMA CallKeeps ==
  ASSUME OInv, Call
  PROVE  (Passed /\ Unshown /\ OnlyLowered /\ EarliestShown)'
<1>1. step = "call" /\ step' = "exited" /\ UNCHANGED <<cmd, po>> /\ \E ok \in BOOLEAN : Ran("call", ok)
  BY DEF Call, Ran, options, Exit
<1>2. \A other : HasRun(other) => HasRun(other)'
  BY <1>1, RunAfter DEF OInv
<1>4. cmd = {} /\ "--jit" \in po /\ HasRun("const_fold") /\ HasRun("lowering")
  BY <1>1 DEF OInv, Passed,
         SinceParse, SinceSema, SinceGenerate, SinceLowering, SinceBuilt, SinceConvert, Needs
<1>5. OnlyLowered'
  BY <1>1, <1>2, <1>4 DEF OnlyLowered
<1>6. shown' = Append(shown, "result") \/ UNCHANGED shown
  BY DEF Call
<1> QED
  BY <1>1, <1>4, <1>5, <1>6, ExitPassed, OneShown, NothingShown DEF OInv

\* Every step keeps the invariant.
LEMMA NextOInv == OInv /\ [Next]_vars => OInv'
<1> SUFFICES ASSUME OInv, [Next]_vars PROVE OInv'
  OBVIOUS
<1>1. IInv'
  BY NextIInv DEF OInv
<1>2. CASE Next
  BY <1>1, <1>2, OptionsKeep, FrontEndKeeps, PhaseKeepsPassed, VerifyKeeps, BuiltKeeps, CallKeeps
     DEF Next, OInv
<1>3. CASE UNCHANGED vars
  BY <1>1, <1>3 DEF vars, options, OInv, Passed,
         SinceParse, SinceSema, SinceGenerate, SinceLowering, SinceBuilt, SinceConvert, Needs, HasRun, Unshown, OnlyLowered, EarliestShown
<1> QED
  BY <1>2, <1>3

-----------------------------------------------------------------------------
(* The arguments as a whole, and how far main has read them.               *)

\* Whether argument k is a value, if f tells it of the one before.
ValueAt(a, f, k) == k > 1 /\ a[k - 1] \in ValueOptions /\ ~f[k - 1]

\* The values are those that their equation makes them.
LEMMA ValuesEquation ==
  ASSUME NEW a \in Seq(STRING)
  PROVE  Values(a) = [k \in 0 .. Len(a) |-> ValueAt(a, Values(a), k)]
<1> DEFINE Upto(n, f) == f = [k \in 0 .. n |-> ValueAt(a, f, k)]
           Missing == {n \in 0 .. Len(a) : ~\E f : Upto(n, f)}
<1>0. Len(a) \in Nat
  OBVIOUS
<1>1. Missing = {}
  <2> SUFFICES ASSUME Missing # {} PROVE FALSE
    OBVIOUS
  <2>1. Missing \in SUBSET Nat
    BY <1>0
  <2> HIDE DEF Missing
  <2>2. PICK m \in Missing : \A n \in Missing : m <= n
    BY <2>1, Least
  <2> USE DEF Missing
  <2>3. m \in 0 .. Len(a) /\ ~\E f : Upto(m, f)
    BY <2>2
  <2>4. m # 0
    <3> DEFINE z == [k \in 0 .. 0 |-> FALSE]
    <3>1. \A k \in 0 .. 0 : ValueAt(a, z, k) = FALSE
      BY DEF ValueAt
    <3>2. Upto(0, z)
      BY <3>1
    <3> QED
      BY <2>3, <3>2
  <2>5. PICK f : Upto(m - 1, f)
    BY <1>0, <2>1, <2>2, <2>3, <2>4
  <2> DEFINE g == [k \in 0 .. m |-> ValueAt(a, f, k)]
  <2>6. \A k \in 0 .. m - 1 : g[k] = f[k]
    <3> HIDE DEF g
    <3>1. \A k \in 0 .. m - 1 : f[k] = ValueAt(a, f, k)
      BY <2>5
    <3> QED
      BY <3>1, <2>3 DEF g
  <2>7. \A k \in 0 .. m : ValueAt(a, f, k) = ValueAt(a, g, k)
    <3> HIDE DEF g
    <3> QED
      BY <2>3, <2>6 DEF ValueAt
  <2>8. Upto(m, g)
    BY <2>7
  <2> QED
    BY <2>3, <2>8
<1>2. PICK f : Upto(Len(a), f)
  BY <1>0, <1>1
<1> QED
  BY <1>2 DEF Values, ValueAt

\* The argument after another is a value if the other is an option that takes one.
LEMMA ValueAfter ==
  ASSUME NEW a \in Seq(STRING), NEW k \in 1 .. Len(a)
  PROVE  Values(a)[k] <=> k # 1 /\ a[k - 1] \in ValueOptions /\ ~Values(a)[k - 1]
<1>1. k \in 0 .. Len(a) /\ (k > 1 <=> k # 1)
  OBVIOUS
<1> DEFINE v == Values(a)
<1>2. v = [j \in 0 .. Len(a) |-> ValueAt(a, v, j)]
  BY ValuesEquation
<1> HIDE DEF v
<1>3. v[k] = ValueAt(a, v, k)
  BY <1>1, <1>2
<1>4. v[k] <=> k # 1 /\ a[k - 1] \in ValueOptions /\ ~v[k - 1]
  BY <1>1, <1>3 DEF ValueAt
<1> QED
  BY <1>4 DEF v

\* The kinds of arguments.
OptionNames == DOMAIN View \cup ValueOptions \cup Passes \cup {"-h"}
LEMMA Kinds ==
  /\ DOMAIN View = {"-l", "-a", "-s", "-sa", "-m"}
  /\ Passes = {"--const-fold", "--lowering", "--jit"} /\ ValueOptions = {"-o"}
  /\ Dashed = OptionNames \cup {"-v", "-x"}
BY DEF View, Passes, ValueOptions, Dashed, OptionNames

LEMMA Places ==
  ASSUME args \in Seq(STRING)
  PROVE  /\ DOMAIN args = 1 .. Len(args) /\ Len(args) \in Nat
         /\ Read \subseteq DOMAIN args
         /\ \A S : Given(S) \subseteq Read /\ \A k \in Read : k \in Given(S) <=> args[k] \in S
         /\ Files = Read \ Given(OptionNames)
         /\ Named \subseteq Files /\ Files \subseteq Read /\ Wrong \subseteq Read
         /\ \A k \in Files : args[k] \notin OptionNames
<1>1. DOMAIN args = 1 .. Len(args) /\ Len(args) \in Nat /\ Read \subseteq DOMAIN args
  BY DEF Read
<1>2. \A S : Given(S) \subseteq Read /\ \A k \in Read : k \in Given(S) <=> args[k] \in S
  BY DEF Given
<1>3. Files = Read \ Given(OptionNames)
  BY DEF Files, OptionNames
<1>4. Named \subseteq Files
  BY DEF Named
<1>5. Wrong \subseteq Read
  BY <1>2, <1>3 DEF Wrong
<1> QED
  BY <1>1, <1>2, <1>3, <1>4, <1>5

\* The places stay, as the arguments do.
LEMMA PlacesStay ==
  ASSUME UNCHANGED args
  PROVE  /\ UNCHANGED <<Read, Files, Named, Wrong, AskHelp, Compile, File, AskedViews>>
         /\ \A S : Given(S)' = Given(S)
         /\ \A p : Wants(p)' = Wants(p)
<1>1. UNCHANGED Values(args)
  OBVIOUS
<1>2. UNCHANGED Read
  BY <1>1 DEF Read
<1>3. \A S : Given(S)' = Given(S)
  BY <1>2 DEF Given
<1>4. UNCHANGED <<Files, Named>>
  BY <1>2, <1>3 DEF Files, Named
<1>5. UNCHANGED Wrong
  BY <1>3, <1>4 DEF Wrong
<1>6. UNCHANGED AskHelp
  BY <1>3, <1>5 DEF AskHelp
<1>7. UNCHANGED <<Compile, File>>
  BY <1>4, <1>5, <1>6 DEF Compile, File
<1>8. UNCHANGED AskedViews /\ \A p : Wants(p)' = Wants(p)
  BY <1>3 DEF AskedViews, Wants
<1> QED
  BY <1>2, <1>3, <1>4, <1>5, <1>6, <1>7, <1>8

LEMMA AboveOne ==
  ASSUME NEW n \in Nat, n > 1
  PROVE  n # 0 /\ n # 1
OBVIOUS

LEMMA FirstIsLeast ==
  ASSUME NEW S \in SUBSET Nat, S # {}
  PROVE  First(S) \in S /\ \A k \in S : First(S) <= k
BY Least DEF First

\* The argument after one that is read, and after a value.
LEMMA NextRead ==
  ASSUME args \in Seq(STRING), NEW k \in Read
  PROVE  /\ k < Len(args) => (k + 1 \in Read <=> args[k] \notin ValueOptions)
         /\ k + 1 < Len(args) /\ args[k] \in ValueOptions => k + 2 \in Read
<1>1. k \in 1 .. Len(args) /\ Len(args) \in Nat /\ DOMAIN args = 1 .. Len(args) /\ ~Values(args)[k]
  BY Places DEF Read
<1>2. k < Len(args) => (Values(args)[k + 1] <=> args[k] \in ValueOptions)
  <2> SUFFICES ASSUME k < Len(args) PROVE Values(args)[k + 1] <=> args[k] \in ValueOptions
    OBVIOUS
  <2>1. k + 1 \in 1 .. Len(args) /\ (k + 1) - 1 = k /\ k + 1 # 1
    BY <1>1
  <2> QED
    BY <1>1, <2>1, ValueAfter
<1>3. k + 1 < Len(args) /\ args[k] \in ValueOptions => ~Values(args)[k + 2]
  <2> SUFFICES ASSUME k + 1 < Len(args), args[k] \in ValueOptions PROVE ~Values(args)[k + 2]
    OBVIOUS
  <2>1. k + 2 \in 1 .. Len(args) /\ (k + 2) - 1 = k + 1
    BY <1>1
  <2>2. Values(args)[k + 1]
    BY <1>1, <1>2
  <2> QED
    BY <2>1, <2>2, ValueAfter
<1> QED
  BY <1>1, <1>2, <1>3 DEF Read

\* How far main has read: what it has found before the next argument.
Progress ==
  /\ Len(args) > 1 /\ at \in 1 .. Len(args) + 1
  /\ at <= Len(args) => at \in Read
  /\ \A k \in Given({"-h"}) \cup Wrong : at <= k
  /\ cmd = {View[args[k]] : k \in {j \in Given(DOMAIN View) : j < at}}
  /\ po = {args[k] : k \in {j \in Given(Passes) : j < at}}
  /\ input = NoFile => \A k \in Named : at <= k
  /\ input # NoFile => \E k \in Named : k < at /\ input = args[k] /\ \A j \in Named : k <= j

\* What main has understood when it calls execute.
Understood ==
  /\ Compile /\ input = File /\ cmd = AskedViews
  /\ \A p \in Passes : p \in po <=> Wants(p)

\* The argument at the place of at, and the value after it, are read.
LEMMA Advance ==
  ASSUME args \in Seq(STRING), Progress, at <= Len(args), NEW n \in Nat,
         n = IF args[at] \in ValueOptions THEN at + 2 ELSE at + 1, n <= Len(args) + 1,
         at \notin Given({"-h"}) \cup Wrong
  PROVE  /\ n \in 1 .. Len(args) + 1 /\ (n <= Len(args) => n \in Read)
         /\ \A k \in Given({"-h"}) \cup Wrong : n <= k
         /\ \A k \in Read : k < n <=> k < at \/ k = at
<1>1. /\ at \in Read /\ Read \subseteq 1 .. Len(args) /\ Len(args) \in Nat /\ at \in 1 .. Len(args)
      /\ Given({"-h"}) \cup Wrong \subseteq Read
  BY Places DEF Progress
<1>2. n <= Len(args) => n \in Read
  BY <1>1, NextRead
<1>3. args[at] \in ValueOptions => at + 1 \notin Read
  BY <1>1, NextRead
<1>4. ASSUME NEW k \in Read PROVE k < n <=> k < at \/ k = at
  <2>1. CASE args[at] \in ValueOptions
    <3>1. k # at + 1
      BY <1>3, <2>1
    <3> QED
      BY <1>1, <2>1, <3>1
  <2>2. CASE args[at] \notin ValueOptions
    BY <1>1, <2>2
  <2> QED
    BY <2>1, <2>2
<1>5. ASSUME NEW k \in Given({"-h"}) \cup Wrong PROVE n <= k
  <2>1. k \in Read /\ at <= k /\ k # at
    BY <1>1 DEF Progress
  <2>2. ~(k < n)
    BY <1>1, <1>4, <2>1
  <2> QED
    BY <1>1, <2>1, <2>2
<1> QED
  BY <1>1, <1>2, <1>4, <1>5

\* What is found at the argument at the place of at.
LEMMA FoundHere ==
  ASSUME args \in Seq(STRING), Progress, at <= Len(args)
  PROVE  /\ at \in Read /\ at \in 1 .. Len(args)
         /\ at \in Given({"-h"}) <=> args[at] = "-h"
         /\ at \in Files <=> args[at] \notin OptionNames
         /\ at \in Named <=> args[at] \notin OptionNames /\ args[at] # NoFile
         /\ at \in Wrong <=> \/ args[at] \notin OptionNames /\ input # NoFile
                             \/ args[at] \in ValueOptions /\ at = Len(args)
<1>1. at \in Read /\ at \in 1 .. Len(args)
  BY Places DEF Progress
<1>2. /\ at \in Given({"-h"}) <=> args[at] = "-h"
      /\ at \in Given(ValueOptions) <=> args[at] \in ValueOptions
      /\ at \in Given(OptionNames) <=> args[at] \in OptionNames
  BY <1>1 DEF Given
<1>3. at \in Files <=> args[at] \notin OptionNames
  BY <1>1, <1>2, Places
<1>4. at \in Named <=> args[at] \notin OptionNames /\ args[at] # NoFile
  BY <1>3 DEF Named
<1>5. (\E j \in Named : j < at) <=> input # NoFile
  <2>1. at \in Nat /\ \A j \in Named : j \in Nat
    <3>1. Named \subseteq 1 .. Len(args)
      BY Places
    <3> QED
      BY <1>1, <3>1
  <2>2. /\ input = NoFile => \A k \in Named : at <= k
        /\ input # NoFile => \E k \in Named : k < at
    BY DEF Progress
  <2>3. \A j \in Named : ~(at <= j /\ j < at)
    BY <2>1
  <2> QED
    BY <2>2, <2>3
<1>6. at \in Wrong <=> \/ at \in Files /\ \E j \in Named : j < at
                       \/ at \in Given(ValueOptions) /\ at = Len(args)
  <2> DEFINE second == {k \in Files : \E j \in Named : j < k}
             last == {k \in Given(ValueOptions) : k = Len(args)}
  <2>1. Wrong = second \cup last
    BY DEF Wrong
  <2>2. at \in second <=> at \in Files /\ \E j \in Named : j < at
    OBVIOUS
  <2>3. at \in last <=> at \in Given(ValueOptions) /\ at = Len(args)
    OBVIOUS
  <2> HIDE DEF second, last
  <2> QED
    BY <2>1, <2>2, <2>3
<1> QED
  BY <1>1, <1>2, <1>3, <1>4, <1>5, <1>6

\* An argument is read, and main goes on.
LEMMA OptionProgress ==
  ASSUME args \in Seq(STRING), Progress, step = "options", Option, step' = "options"
  PROVE  Progress'
<1>1. /\ at <= Len(args) /\ UNCHANGED args
      /\ \/ /\ args[at] \in DOMAIN View /\ cmd' = cmd \cup {View[args[at]]}
            /\ at' = at + 1 /\ UNCHANGED <<input, po>>
         \/ /\ args[at] \in ValueOptions /\ at < Len(args) /\ at' = at + 2 /\ UNCHANGED <<input, cmd, po>>
         \/ /\ args[at] \in Passes /\ po' = po \cup {args[at]}
            /\ at' = at + 1 /\ UNCHANGED <<input, cmd>>
         \/ /\ args[at] \notin OptionNames /\ input = NoFile /\ input' = args[at]
            /\ at' = at + 1 /\ UNCHANGED <<cmd, po>>
  BY DEF Option, Exit, Skip, OptionNames
<1>2. /\ at \in Read /\ at \in 1 .. Len(args) /\ Len(args) \in Nat
      /\ at \in Given({"-h"}) <=> args[at] = "-h"
      /\ at \in Named <=> args[at] \notin OptionNames /\ args[at] # NoFile
      /\ at \in Wrong <=> \/ args[at] \notin OptionNames /\ input # NoFile
                          \/ args[at] \in ValueOptions /\ at = Len(args)
  BY <1>1, FoundHere, Places
<1>3. /\ at' = IF args[at] \in ValueOptions THEN at + 2 ELSE at + 1
      /\ at' <= Len(args) + 1 /\ at' \in Nat
      /\ at \notin Given({"-h"}) \cup Wrong
  <2>1. args[at] # "-h"
    BY <1>1, Kinds DEF OptionNames
  <2>2. at' = IF args[at] \in ValueOptions THEN at + 2 ELSE at + 1
    BY <1>1, Kinds DEF OptionNames
  <2>3. args[at] \notin OptionNames => input = NoFile
    BY <1>1 DEF OptionNames
  <2>4. args[at] \in ValueOptions => at < Len(args)
    BY <1>1, Kinds DEF OptionNames
  <2>5. at \notin Wrong
    BY <1>2, <2>3, <2>4
  <2>6. at \notin Given({"-h"})
    BY <1>2, <2>1
  <2>7. at' <= Len(args) + 1 /\ at' \in Nat
    BY <1>2, <2>2, <2>4
  <2> QED
    BY <2>2, <2>5, <2>6, <2>7
<1>4. /\ at' \in 1 .. Len(args) + 1 /\ (at' <= Len(args) => at' \in Read)
      /\ \A k \in Given({"-h"}) \cup Wrong : at' <= k
      /\ \A k \in Read : k < at' <=> k < at \/ k = at
  BY <1>1, <1>3, Advance
<1>5. \A S : {j \in Given(S) : j < at'} =
               {j \in Given(S) : j < at} \cup (IF args[at] \in S THEN {at} ELSE {})
  <2> SUFFICES ASSUME NEW S
               PROVE  {j \in Given(S) : j < at'} =
                        {j \in Given(S) : j < at} \cup (IF args[at] \in S THEN {at} ELSE {})
    OBVIOUS
  <2>1. Given(S) \subseteq Read /\ (at \in Given(S) <=> args[at] \in S)
    BY <1>2 DEF Given
  <2>2. \A j \in Given(S) : j < at' <=> j < at \/ j = at
    BY <1>4, <2>1
  <2>3. args[at] \in S => at \in Given(S) /\ at < at'
    BY <1>2, <1>4, <2>1
  <2> QED
    BY <2>1, <2>2, <2>3
<1>6. cmd' = {View[args[k]] : k \in {j \in Given(DOMAIN View) : j < at'}}
  <2>1. cmd = {View[args[k]] : k \in {j \in Given(DOMAIN View) : j < at}}
    BY DEF Progress
  <2>2. CASE args[at] \in DOMAIN View
    <3>1. cmd' = cmd \cup {View[args[at]]}
      BY <1>1, <2>2, Kinds DEF OptionNames
    <3>2. {j \in Given(DOMAIN View) : j < at'} = {j \in Given(DOMAIN View) : j < at} \cup {at}
      BY <1>5, <2>2
    <3> QED
      BY <2>1, <3>1, <3>2
  <2>3. CASE args[at] \notin DOMAIN View
    <3>1. cmd' = cmd
      BY <1>1, <2>3
    <3>2. {j \in Given(DOMAIN View) : j < at'} = {j \in Given(DOMAIN View) : j < at}
      BY <1>5, <2>3
    <3> QED
      BY <2>1, <3>1, <3>2
  <2> QED
    BY <2>2, <2>3
<1>7. po' = {args[k] : k \in {j \in Given(Passes) : j < at'}}
  <2>1. po = {args[k] : k \in {j \in Given(Passes) : j < at}}
    BY DEF Progress
  <2>2. CASE args[at] \in Passes
    <3>1. po' = po \cup {args[at]}
      BY <1>1, <2>2, Kinds DEF OptionNames
    <3>2. {j \in Given(Passes) : j < at'} = {j \in Given(Passes) : j < at} \cup {at}
      BY <1>5, <2>2
    <3> QED
      BY <2>1, <3>1, <3>2
  <2>3. CASE args[at] \notin Passes
    <3>1. po' = po
      BY <1>1, <2>3
    <3>2. {j \in Given(Passes) : j < at'} = {j \in Given(Passes) : j < at}
      BY <1>5, <2>3
    <3> QED
      BY <2>1, <3>1, <3>2
  <2> QED
    BY <2>2, <2>3
<1>8. /\ input' = NoFile => \A k \in Named : at' <= k
      /\ input' # NoFile => \E k \in Named : k < at' /\ input' = args[k] /\ \A j \in Named : k <= j
  <2>0. Named \subseteq Read /\ at' \in Nat /\ at \in Nat /\ \A k \in Read : k \in Nat
    <3>1. Named \subseteq Read /\ Read \subseteq 1 .. Len(args)
      BY Places
    <3> QED
      BY <1>2, <1>3, <3>1
  <2>5. ASSUME NEW k \in Named PROVE at' <= k <=> at <= k /\ k # at
    BY <1>4, <2>0
  <2>1. \A k \in Named : k < at' <=> k < at \/ k = at
    BY <1>4, <2>0
  <2>2. /\ input = NoFile => \A k \in Named : at <= k
        /\ input # NoFile => \E k \in Named : k < at /\ input = args[k] /\ \A j \in Named : k <= j
    BY DEF Progress
  <2>3. CASE args[at] \in OptionNames
    <3>1. input' = input /\ at \notin Named
      BY <1>1, <1>2, <2>3
    <3> QED
      BY <2>1, <2>2, <2>5, <3>1
  <2>4. CASE args[at] \notin OptionNames
    <3>1. input = NoFile /\ input' = args[at]
      BY <1>1, <2>4 DEF OptionNames
    <3>2. CASE args[at] = NoFile
      <4>1. at \notin Named
        BY <1>2, <3>2
      <4> QED
        BY <2>2, <2>5, <3>1, <3>2, <4>1
    <3>3. CASE args[at] # NoFile
      <4>1. at \in Named /\ at < at'
        BY <1>2, <1>3, <2>0, <2>1, <2>4, <3>3
      <4> QED
        BY <2>2, <3>1, <3>3, <4>1
    <3> QED
      BY <3>2, <3>3
  <2> QED
    BY <2>3, <2>4
<1>9. /\ UNCHANGED <<Read, Named, Wrong>> /\ (\A S : Given(S)' = Given(S)) /\ UNCHANGED args
  BY <1>1, PlacesStay
<1> QED
  BY <1>4, <1>6, <1>7, <1>8, <1>9 DEF Progress

-----------------------------------------------------------------------------
(* What the process has made of its arguments, and how it ends.            *)

Reading ==
  /\ args \in Seq(STRING)
  /\ step = "main" => at = 1 /\ input = NoFile /\ cmd = {} /\ po = {}
  /\ step \in {"main", "options"} => ran = << >> /\ shown = << >>
  /\ step = "options" => Progress
  /\ step \notin {"main", "options", "exited"} \/ ran # << >> => Understood
  /\ step \notin {"main", "options", "lex", "exited"} => ran # << >>
  /\ step = "exited" /\ ran = << >> =>
       shown = << >> /\ (IF AskHelp THEN status = 0 ELSE status # 0 /\ ~Compile)

\* A process that ends well has shown a view, or was not to run main, or has.
Ended ==
  step = "exited" /\ ran # << >> =>
    /\ status = 0 <=> Went
    /\ status = 0 => \/ \E v \in cmd : shown = <<v>>
                     \/ cmd = {} /\ ("--jit" \in po => HasRun("call"))
ShownAsked == \A k \in DOMAIN shown : shown[k] \in cmd \cup {"result", "mlir"}

LInv == OInv /\ Reading /\ Ended /\ ShownAsked

\* The end of the arguments: those that were found are all there are.
LEMMA AllRead ==
  ASSUME args \in Seq(STRING), Progress, at = Len(args) + 1
  PROVE  /\ Given({"-h"}) = {} /\ Wrong = {} /\ ~AskHelp
         /\ cmd = AskedViews /\ \A p \in Passes : p \in po <=> Wants(p)
         /\ IF input = NoFile THEN ~Compile ELSE Understood
<1>0. Len(args) > 1
  BY DEF Progress
<1>1. /\ Len(args) \in Nat /\ Read \subseteq 1 .. Len(args)
      /\ Given({"-h"}) \subseteq Read /\ Wrong \subseteq Read /\ Named \subseteq Read
      /\ Given(DOMAIN View) \subseteq Read /\ Given(Passes) \subseteq Read
  BY Places
<1>2. \A k \in Read : k < at /\ ~(at <= k)
  BY <1>1
<1>3. Given({"-h"}) = {} /\ Wrong = {}
  BY <1>1, <1>2 DEF Progress
<1>4. ~AskHelp
  BY <1>3 DEF AskHelp, Progress
<1>5. {j \in Given(DOMAIN View) : j < at} = Given(DOMAIN View) /\ {j \in Given(Passes) : j < at} = Given(Passes)
  BY <1>1, <1>2
<1>6. cmd = AskedViews
  BY <1>5 DEF Progress, AskedViews
<1>7. ASSUME NEW p \in Passes PROVE p \in po <=> Wants(p)
  <2>1. po = {args[k] : k \in Given(Passes)}
    BY <1>5 DEF Progress
  <2>2. p \in po <=> \E k \in Read : args[k] = p
    BY <1>7, <2>1 DEF Given
  <2> QED
    BY <2>2 DEF Wants, Given
<1>8. CASE input = NoFile
  <2>1. Named = {}
    BY <1>1, <1>2, <1>8 DEF Progress
  <2>2. Len(args) # 1
    BY <1>0, <1>1, AboveOne
  <2> QED
    BY <1>3, <1>4, <1>6, <1>7, <1>8, <2>1, <2>2 DEF Compile
<1>9. CASE input # NoFile
  <2>1. PICK k \in Named : input = args[k] /\ \A j \in Named : k <= j
    BY <1>9 DEF Progress
  <2>2. First(Named) \in Named /\ \A j \in Named : First(Named) <= j
    <3>1. Named \in SUBSET Nat /\ Named # {}
      BY <1>1, <2>1
    <3> QED
      BY <3>1, FirstIsLeast
  <2>3. First(Named) = k
    <3>1. k \in Nat /\ First(Named) \in Nat
      <4>1. Named \subseteq Nat
        BY <1>1
      <4>2. k \in Named /\ First(Named) \in Named
        BY <2>1, <2>2
      <4> QED
        BY <4>1, <4>2
    <3>2. k <= First(Named) /\ First(Named) <= k
      BY <2>1, <2>2
    <3> QED
      BY <3>1, <3>2
  <2>4. input = File
    BY <2>1, <2>3 DEF File
  <2>5. Len(args) # 1
    BY <1>0, <1>1, AboveOne
  <2>6. Compile
    BY <1>3, <1>4, <2>1, <2>5 DEF Compile
  <2> QED
    BY <1>3, <1>4, <1>6, <1>7, <1>9, <2>4, <2>6 DEF Understood
<1> QED
  BY <1>3, <1>4, <1>6, <1>7, <1>8, <1>9

\* An argument with which main gives up or helps.
LEMMA GivesUp ==
  ASSUME args \in Seq(STRING), Progress, at <= Len(args)
  PROVE  /\ args[at] = "-h" => AskHelp
         /\ args[at] \in ValueOptions /\ at = Len(args) => ~AskHelp /\ ~Compile
         /\ args[at] \notin OptionNames /\ input # NoFile => ~AskHelp /\ ~Compile
<1>1. /\ at \in Read /\ at \in 1 .. Len(args)
      /\ at \in Given({"-h"}) <=> args[at] = "-h"
      /\ at \in Wrong <=> \/ args[at] \notin OptionNames /\ input # NoFile
                          \/ args[at] \in ValueOptions /\ at = Len(args)
  BY FoundHere
<1>2. /\ Given({"-h"}) \subseteq 1 .. Len(args) /\ Wrong \subseteq 1 .. Len(args)
      /\ Len(args) \in Nat
  BY Places
<1>3. /\ \A k \in Given({"-h"}) : at <= k
      /\ \A k \in Wrong : at <= k
  BY DEF Progress
<1>4. Given({"-h"}) # {} => First(Given({"-h"})) \in Given({"-h"}) /\ \A k \in Given({"-h"}) : First(Given({"-h"})) <= k
  <2>1. Given({"-h"}) \in SUBSET Nat
    BY <1>2
  <2> QED
    BY <2>1, FirstIsLeast
<1>5. ASSUME args[at] = "-h" PROVE AskHelp
  <2>1. at \in Given({"-h"}) /\ at \notin Wrong
    BY <1>1, <1>5, Kinds DEF OptionNames
  <2>2. First(Given({"-h"})) = at
    BY <1>2, <1>3, <1>4, <2>1
  <2>3. \A k \in Wrong : at < k
    BY <1>1, <1>2, <1>3, <2>1
  <2> QED
    BY <2>1, <2>2, <2>3 DEF AskHelp
<1>6. ASSUME at \in Wrong PROVE ~AskHelp /\ ~Compile
  <2>1. ~Compile
    BY <1>6 DEF Compile
  <2>2. args # << >> /\ args # <<"-v">>
    <3>1. Len(args) > 1
      BY DEF Progress
    <3>2. Len(args) # 0 /\ Len(args) # 1
      BY <1>2, <3>1, AboveOne
    <3> QED
      BY <3>2
  <2>3. Given({"-h"}) # {} => ~(First(Given({"-h"})) < at)
    BY <1>1, <1>2, <1>3, <1>4
  <2> QED
    BY <1>6, <2>1, <2>2, <2>3 DEF AskHelp
<1> QED
  BY <1>1, <1>5, <1>6

\* A single argument.
LEMMA OneArgument ==
  ASSUME args \in Seq(STRING), Len(args) = 1
  PROVE  /\ args[1] \in {"-h", "-v"} => AskHelp
         /\ args[1] \in Dashed \ {"-h", "-v"} => ~AskHelp /\ ~Compile
         /\ args[1] \notin Dashed =>
              Compile /\ File = args[1] /\ AskedViews = {} /\ \A p \in Passes : ~Wants(p)
<1>1. DOMAIN args = {1} /\ Read = {1} /\ args = <<args[1]>>
  <2>1. DOMAIN args = {1} /\ args = <<args[1]>>
    OBVIOUS
  <2>2. ~Values(args)[1]
    BY ValueAfter
  <2> QED
    BY <2>1, <2>2 DEF Read
<1>2. \A S : Given(S) = IF args[1] \in S THEN {1} ELSE {}
  BY <1>1 DEF Given
<1>3. Files = IF args[1] \in OptionNames THEN {} ELSE {1}
  BY <1>1, <1>2, Places
<1>4. Named = IF args[1] \in OptionNames \cup {NoFile} THEN {} ELSE {1}
  BY <1>3 DEF Named
<1>5. Wrong = IF args[1] \in ValueOptions THEN {1} ELSE {}
  <2>1. {k \in Files : \E j \in Named : j < k} = {}
    BY <1>3, <1>4
  <2>2. Given(ValueOptions) = IF args[1] \in ValueOptions THEN {1} ELSE {}
    BY <1>2
  <2>3. {k \in Given(ValueOptions) : k = Len(args)} = Given(ValueOptions)
    BY <2>2
  <2> QED
    BY <2>1, <2>2, <2>3 DEF Wrong
<1>6. ASSUME args[1] \in {"-h", "-v"} PROVE AskHelp
  <2>1. CASE args[1] = "-v"
    BY <1>1, <2>1 DEF AskHelp
  <2>2. CASE args[1] = "-h"
    <3>1. Given({"-h"}) = {1} /\ Wrong = {}
      BY <1>2, <1>5, <2>2, Kinds
    <3> QED
      BY <3>1 DEF AskHelp
  <2> QED
    BY <1>6, <2>1, <2>2
<1>7. ASSUME args[1] \notin {"-h", "-v"} PROVE ~AskHelp
  <2>1. Given({"-h"}) = {}
    BY <1>2, <1>7
  <2>2. args # << >> /\ args # <<"-v">>
    BY <1>1, <1>7
  <2> QED
    BY <2>1, <2>2 DEF AskHelp
<1>8. ASSUME args[1] \in Dashed PROVE ~Compile
  BY <1>8 DEF Compile
<1>9. ASSUME args[1] \notin Dashed
      PROVE  Compile /\ File = args[1] /\ AskedViews = {} /\ \A p \in Passes : ~Wants(p)
  <2>1. args[1] \notin OptionNames /\ args[1] \notin {"-h", "-v"} /\ args[1] \notin ValueOptions
    BY <1>9, Kinds DEF OptionNames
  <2>2. Compile
    BY <1>5, <1>7, <1>9, <2>1 DEF Compile
  <2>3. File = args[1]
    <3>1. CASE args[1] = NoFile
      BY <1>4, <3>1 DEF File
    <3>2. CASE args[1] # NoFile
      <4>1. Named = {1}
        BY <1>4, <2>1, <3>2
      <4>2. First(Named) = 1
        BY <4>1, FirstIsLeast
      <4> QED
        BY <4>1, <4>2 DEF File
    <3> QED
      BY <3>1, <3>2
  <2>4. AskedViews = {}
    <3>1. Given(DOMAIN View) = {}
      BY <1>2, <2>1 DEF OptionNames
    <3> QED
      BY <3>1 DEF AskedViews
  <2>5. ASSUME NEW p \in Passes PROVE ~Wants(p)
    <3>1. args[1] \notin {p}
      BY <2>1, <2>5 DEF OptionNames
    <3> QED
      BY <1>2, <3>1 DEF Wants
  <2> QED
    BY <2>2, <2>3, <2>4, <2>5
<1> QED
  BY <1>6, <1>7, <1>8, <1>9

-----------------------------------------------------------------------------
(* One lemma for what each step does with it.                              *)

LEMMA InitLInv == Init => LInv
<1> SUFFICES ASSUME Init PROVE LInv
  OBVIOUS
<1>1. /\ args \in ArgVectors /\ at = 1 /\ input = NoFile /\ cmd = {} /\ po = {}
      /\ step = "main" /\ ran = << >> /\ shown = << >>
  BY DEF Init
<1>2. Reading
  BY <1>1, ArgVectorsAssumption DEF Reading
<1>3. Ended /\ ShownAsked
  BY <1>1 DEF Ended, ShownAsked
<1> QED
  BY <1>2, <1>3, InitOInv DEF LInv

\* An exit without anything run.
LEMMA EarlyExit ==
  ASSUME LInv, UNCHANGED <<args, ran, shown>>, step \in {"main", "options"}, step' = "exited",
         IF AskHelp THEN status' = 0 ELSE status' # 0 /\ ~Compile
  PROVE  Reading' /\ Ended' /\ ShownAsked'
<1>1. ran' = << >> /\ shown' = << >>
  BY DEF LInv, Reading
<1>2. UNCHANGED <<AskHelp, Compile>>
  BY PlacesStay
<1> QED
  BY <1>1, <1>2 DEF LInv, Reading, Ended, ShownAsked

LEMMA MainKeeps ==
  ASSUME LInv, MainNone \/ MainOne \/ MainMany
  PROVE  Reading' /\ Ended' /\ ShownAsked'
<1>0. /\ step = "main" /\ UNCHANGED <<args, at, cmd, po, ran, shown>>
      /\ args \in Seq(STRING) /\ Len(args) \in Nat /\ ran = << >> /\ shown = << >>
      /\ at = 1 /\ input = NoFile /\ cmd = {} /\ po = {}
  BY DEF MainNone, MainOne, MainMany, options, LInv, Reading
<1>1. CASE MainNone
  <2>1. args = << >> /\ step' = "exited" /\ status' = 0
    BY <1>1 DEF MainNone, Exit
  <2>2. AskHelp
    BY <2>1 DEF AskHelp
  <2> QED
    BY <1>0, <2>1, <2>2, EarlyExit
<1>2. CASE MainOne
  <2>1. Len(args) = 1
    BY <1>2 DEF MainOne
  <2>2. CASE args[1] \in {"-h", "-v"} /\ Exit(0)
    BY <1>0, <2>1, <2>2, OneArgument, EarlyExit DEF Exit
  <2>3. CASE args[1] \in Dashed \ {"-h", "-v"} /\ Exit(1)
    BY <1>0, <2>1, <2>3, OneArgument, EarlyExit DEF Exit
  <2>4. CASE args[1] \notin Dashed /\ Execute(args[1])
    <3>1. input' = args[1] /\ step' = "lex"
      BY <2>4 DEF Execute, Goes
    <3>2. Compile /\ File = args[1] /\ AskedViews = {} /\ \A p \in Passes : ~Wants(p)
      BY <1>0, <2>1, <2>4, OneArgument
    <3>3. UNCHANGED <<Compile, File, AskedViews>> /\ \A p : Wants(p)' = Wants(p)
      BY <1>0, PlacesStay
    <3>4. Understood'
      BY <1>0, <3>1, <3>2, <3>3 DEF Understood
    <3> QED
      BY <1>0, <3>1, <3>4 DEF Reading, Ended, ShownAsked
  <2> QED
    BY <1>2, <2>2, <2>3, <2>4 DEF MainOne
<1>3. CASE MainMany
  <2>1. Len(args) > 1 /\ step' = "options" /\ UNCHANGED <<at, input>>
    BY <1>3 DEF MainMany, Goes, options
  <2>2. 1 \in Read
    <3>1. 1 \in 1 .. Len(args)
      BY <1>0, <2>1
    <3> QED
      BY <1>0, <3>1, ValueAfter DEF Read
  <2>3. Progress
    <3>1. Read \subseteq 1 .. Len(args) /\ Given({"-h"}) \cup Wrong \subseteq Read /\ Named \subseteq Read
          /\ Given(DOMAIN View) \subseteq Read /\ Given(Passes) \subseteq Read
      BY <1>0, Places
    <3>2. \A k \in Read : 1 <= k /\ ~(k < 1)
      BY <1>0, <3>1
    <3>3. {j \in Given(DOMAIN View) : j < 1} = {} /\ {j \in Given(Passes) : j < 1} = {}
      BY <3>1, <3>2
    <3>4. 1 \in 1 .. Len(args) + 1
      BY <1>0
    <3> QED
      BY <1>0, <2>1, <2>2, <3>1, <3>2, <3>3, <3>4 DEF Progress
  <2>4. Progress'
    <3>1. /\ UNCHANGED <<Read, Named, Wrong, args, at, input, cmd, po>>
          /\ \A S : Given(S)' = Given(S)
      BY <1>0, <2>1, PlacesStay
    <3> QED
      BY <2>3, <3>1 DEF Progress
  <2> QED
    BY <1>0, <2>1, <2>4 DEF Reading, Ended, ShownAsked
<1> QED
  BY <1>1, <1>2, <1>3

LEMMA ReadingKeeps ==
  ASSUME LInv, Option \/ OptionsEnd
  PROVE  Reading' /\ Ended' /\ ShownAsked'
<1>0. /\ step = "options" /\ UNCHANGED <<args, ran, shown>> /\ Progress
      /\ args \in Seq(STRING) /\ Len(args) \in Nat /\ ran = << >> /\ shown = << >>
  BY DEF Option, OptionsEnd, options, LInv, Reading
<1>1. CASE Option
  <2>0. at <= Len(args)
    BY <1>1 DEF Option
  <2>1. CASE step' = "options"
    BY <1>0, <1>1, <2>1, OptionProgress DEF Reading, Ended, ShownAsked
  <2>2. CASE step' # "options"
    <3>1. /\ step' = "exited"
          /\ \/ args[at] = "-h" /\ status' = 0
             \/ args[at] \in ValueOptions /\ at = Len(args) /\ status' = 1
             \/ args[at] \notin OptionNames /\ input # NoFile /\ status' = 1
      BY <1>0, <1>1, <2>2 DEF Option, Exit, OptionNames
    <3> QED
      BY <1>0, <2>0, <3>1, GivesUp, EarlyExit
  <2> QED
    BY <2>1, <2>2
<1>2. CASE OptionsEnd
  <2>1. at = Len(args) + 1 /\ UNCHANGED <<input, cmd, po>>
    <3>1. at > Len(args) /\ at \in 1 .. Len(args) + 1
      BY <1>0, <1>2 DEF OptionsEnd, Progress
    <3> QED
      BY <1>0, <1>2, <3>1 DEF OptionsEnd, options
  <2>2. ~AskHelp /\ IF input = NoFile THEN ~Compile ELSE Understood
    BY <1>0, <2>1, AllRead
  <2>3. CASE input = NoFile
    BY <1>0, <1>2, <2>2, <2>3, EarlyExit DEF OptionsEnd, Exit
  <2>4. CASE input # NoFile
    <3>1. step' = "lex"
      BY <1>2, <2>4 DEF OptionsEnd, Goes
    <3>2. UNCHANGED <<Compile, File, AskedViews>> /\ \A p : Wants(p)' = Wants(p)
      BY <1>0, PlacesStay
    <3>3. Understood'
      BY <2>1, <2>2, <2>4, <3>2 DEF Understood
    <3> QED
      BY <1>0, <3>1, <3>3 DEF Reading, Ended, ShownAsked
  <2> QED
    BY <2>3, <2>4
<1> QED
  BY <1>1, <1>2

-----------------------------------------------------------------------------
\* A phase is next, and the options stay what they are.
LEMMA PhaseReads ==
  ASSUME LInv, UNCHANGED options, step \notin {"main", "options", "exited"},
         step' \notin {"main", "options", "lex"}, ran' # << >>
  PROVE  Reading'
<1>1. Understood /\ args \in Seq(STRING)
  BY DEF LInv, Reading
<1>2. UNCHANGED <<args, input, cmd, po>>
  BY DEF options
<1>3. UNCHANGED <<Compile, File, AskedViews>> /\ \A p : Wants(p)' = Wants(p)
  BY <1>2, PlacesStay
<1>4. Understood'
  BY <1>1, <1>2, <1>3 DEF Understood
<1> QED
  BY <1>1, <1>2, <1>4 DEF Reading

\* Whether all went well, with one more phase.
LEMMA WentAfter ==
  ASSUME IInv, step # "exited", NEW name, NEW ok \in BOOLEAN, Ran(name, ok)
  PROVE  ran' # << >> /\ (Went' <=> ok) /\ UNCHANGED options
<1> DEFINE n == Len(ran) + 1
           entry == [phase |-> name, ok |-> ok]
<1>1. ran \in Seq([phase : DOMAIN Rank, ok : BOOLEAN]) /\ ran' = Append(ran, entry) /\ UNCHANGED options
  BY DEF Ran, IInv, Recorded
<1>2. /\ DOMAIN ran' = 1 .. n /\ DOMAIN ran = 1 .. n - 1 /\ n \in Nat \ {0} /\ ran'[n] = entry
      /\ \A k \in 1 .. n - 1 : ran'[k] = ran[k]
  BY <1>1
<1>3. \A k \in 1 .. n - 1 : ran[k].ok
  BY <1>2 DEF IInv, WellSoFar
<1>4. n \in 1 .. n /\ \A k \in 1 .. n : k = n \/ k \in 1 .. n - 1
  BY <1>2
<1>5. ran' # << >>
  BY <1>2, <1>4
<1>6. \A k \in 1 .. n : ran'[k].ok <=> (k = n => ok)
  BY <1>2, <1>3, <1>4
<1> QED
  BY <1>1, <1>2, <1>4, <1>5, <1>6 DEF Went

\* The process goes on.
LEMMA GoesOn ==
  ASSUME LInv, step # "exited", step' # "exited", UNCHANGED <<shown, cmd>>
  PROVE  Ended' /\ ShownAsked'
BY DEF LInv, Ended, ShownAsked

\* It ends because something failed, and nothing but the module is shown.
LEMMA EndsBadly ==
  ASSUME LInv, step # "exited", ~Went', status' # 0, UNCHANGED cmd,
         UNCHANGED shown \/ shown' = Append(shown, "mlir")
  PROVE  Ended' /\ ShownAsked'
<1>1. shown = << >>
  BY DEF LInv, OInv, Unshown
<1>2. shown' = << >> \/ shown' = <<"mlir">>
  BY <1>1
<1> QED
  BY <1>2 DEF Ended, ShownAsked

\* It ends with a view.
LEMMA EndsShowing ==
  ASSUME LInv, step # "exited", Went', status' = 0, UNCHANGED cmd,
         NEW v \in cmd, shown' = Append(shown, v)
  PROVE  Ended' /\ ShownAsked'
<1>1. shown = << >>
  BY DEF LInv, OInv, Unshown
<1>2. shown' = <<v>>
  BY <1>1
<1> QED
  BY <1>2 DEF Ended, ShownAsked

\* The front end: an error, a view, or the next phase.
LEMMA FrontEndEnds ==
  ASSUME LInv, Lex \/ Parse \/ Sema
  PROVE  Reading' /\ Ended' /\ ShownAsked'
<1>1. PICK name \in {"lex", "parse", "sema"}, views \in {<<"tokens">>, <<"ast">>, SemaViews},
           next \in {"parse", "sema", "generate"} : Checked(name, views, next)
  BY DEF Lex, Parse, Sema
<1>2. PICK ok \in BOOLEAN : Ran(name, ok) /\ cnt' = (cnt \/ ~ok)
  BY <1>1 DEF Checked
<1>3. step = name /\ step # "exited" /\ ~cnt
  BY <1>1 DEF Checked, LInv, OInv, IInv, WellSoFar
<1>4. ran' # << >> /\ (Went' <=> ok) /\ UNCHANGED options
  BY <1>2, <1>3, WentAfter DEF LInv, OInv
<1>5. CASE cnt'
  <2>1. step' = "exited" /\ status' = 1 /\ UNCHANGED shown /\ ~ok
    BY <1>1, <1>2, <1>3, <1>5 DEF Checked, Chkerr, Exit
  <2>2. Reading'
    BY <1>3, <1>4, <2>1, PhaseReads
  <2> QED
    BY <1>3, <1>4, <2>1, <2>2, EndsBadly DEF options
<1>6. CASE ~cnt'
  <2>1. ViewOr(views, next) /\ ok
    BY <1>1, <1>2, <1>6 DEF Checked, Chkerr
  <2>2. CASE \E i \in DOMAIN views : views[i] \in cmd /\ shown' = Append(shown, views[i]) /\ Exit(0)
    <3>1. Reading'
      BY <1>3, <1>4, <2>2, PhaseReads DEF Exit
    <3> QED
      BY <1>3, <1>4, <2>1, <2>2, <3>1, EndsShowing DEF options, Exit
  <2>3. CASE Goes(next) /\ UNCHANGED shown
    <3>1. Reading'
      BY <1>3, <1>4, <2>3, PhaseReads DEF Goes
    <3> QED
      BY <1>3, <1>4, <2>3, <3>1, GoesOn DEF options, Goes
  <2> QED
    BY <2>1, <2>2, <2>3 DEF ViewOr
<1> QED
  BY <1>5, <1>6

\* The phases after it.
LEMMA PhaseEnds ==
  ASSUME LInv,
         Crash \/ Generate \/ Verify \/ ConstFold \/ Lowering \/ Convert \/ CreateEngine \/ Lookup
  PROVE  Reading' /\ Ended' /\ ShownAsked'
<1>0. /\ step \in {"sema", "generate", "verify", "const_fold", "lowering", "convert", "engine", "lookup"}
      /\ ran # << >> /\ IInv
  BY DEF Crash, Generate, Verify, ConstFold, Lowering, Pass, Convert, CreateEngine, Lookup, Fallible,
         LInv, Reading, OInv
<1>1. CASE \E ok \in BOOLEAN : Ran(step, ok) /\ (ok => step' \notin {"main", "options", "lex", "exited"} /\ UNCHANGED shown)
           /\ (~ok => step' = "exited" /\ status' # 0 /\ (UNCHANGED shown \/ shown' = Append(shown, "mlir")))
  <2>1. PICK ok \in BOOLEAN :
          /\ Ran(step, ok)
          /\ ok => step' \notin {"main", "options", "lex", "exited"} /\ UNCHANGED shown
          /\ ~ok => step' = "exited" /\ status' # 0 /\ (UNCHANGED shown \/ shown' = Append(shown, "mlir"))
    BY <1>1
  <2>2. ran' # << >> /\ (Went' <=> ok) /\ UNCHANGED options
    BY <1>0, <2>1, WentAfter
  <2>3. step' \notin {"main", "options", "lex"}
    BY <2>1
  <2>4. Reading'
    BY <1>0, <2>2, <2>3, PhaseReads
  <2> QED
    BY <1>0, <2>1, <2>2, <2>4, GoesOn, EndsBadly DEF options
<1>2. CASE UNCHANGED <<options, ran, shown>> /\ step' \in {"lowering", "built"}
  <2>1. Reading'
    BY <1>0, <1>2, PhaseReads
  <2> QED
    BY <1>0, <1>2, <2>1, GoesOn DEF options
<1>3. Killed # 0 /\ FailureStatus # 0
  BY DEF Killed, FailureStatus, Failure
<1> QED
  BY <1>0, <1>1, <1>2, <1>3
     DEF Crash, Generate, Verify, ConstFold, Lowering, Pass, Convert, CreateEngine, Lookup, Fallible, Exit, Goes

\* The end of the compilation: the module, or nothing more to do, or the execution.
LEMMA BuiltEnds ==
  ASSUME LInv, Built
  PROVE  Reading' /\ Ended' /\ ShownAsked'
<1>0. step = "built" /\ UNCHANGED <<options, ran>> /\ ran # << >> /\ shown = << >> /\ Went
  BY DEF Built, LInv, Reading, OInv, Unshown, IInv, WellSoFar, Went
<1>1. cmd \subseteq {"mlir"} /\ UNCHANGED cmd
  BY <1>0 DEF LInv, OInv, Passed, options,
         SinceParse, SinceSema, SinceGenerate, SinceLowering, SinceBuilt, SinceConvert
<1>2. Went'
  BY <1>0 DEF Went
<1>3. CASE "mlir" \notin cmd /\ "--jit" \notin po /\ Exit(0) /\ UNCHANGED shown
  <2>1. Reading'
    BY <1>0, <1>3, PhaseReads DEF Exit
  <2>2. cmd' = {} /\ "--jit" \notin po' /\ shown' = << >> /\ status' = 0
    BY <1>0, <1>1, <1>3 DEF options, Exit
  <2> QED
    BY <1>2, <2>1, <2>2 DEF Ended, ShownAsked
<1>4. CASE ViewOr(<<"mlir">>, "convert")
  <2> DEFINE views == <<"mlir">>
  <2>1. CASE \E i \in DOMAIN views : views[i] \in cmd /\ shown' = Append(shown, views[i]) /\ Exit(0)
    <3>1. Reading'
      BY <1>0, <2>1, PhaseReads DEF Exit
    <3> QED
      BY <1>0, <1>1, <1>2, <2>1, <3>1, EndsShowing DEF Exit
  <2>2. CASE Goes("convert") /\ UNCHANGED shown
    <3>1. Reading'
      BY <1>0, <2>2, PhaseReads DEF Goes
    <3> QED
      BY <1>0, <1>1, <2>2, <3>1, GoesOn DEF Goes
  <2> QED
    BY <1>4, <2>1, <2>2 DEF ViewOr
<1> QED
  BY <1>3, <1>4 DEF Built

\* The execution.
LEMMA CallEnds ==
  ASSUME LInv, Call
  PROVE  Reading' /\ Ended' /\ ShownAsked'
<1>0. step = "call" /\ step' = "exited" /\ shown = << >> /\ IInv
  BY DEF Call, Exit, LInv, OInv, Unshown
<1>1. PICK ok \in BOOLEAN : /\ Ran("call", ok)
                           /\ IF ok THEN status' = 0 /\ shown' = Append(shown, "result")
                              ELSE status' = Killed /\ UNCHANGED shown
  BY DEF Call, Exit
<1>2. ran' # << >> /\ (Went' <=> ok) /\ UNCHANGED options
  BY <1>0, <1>1, WentAfter
<1>3. Reading'
  BY <1>0, <1>2, PhaseReads
<1>4. CASE ~ok
  BY <1>0, <1>1, <1>2, <1>3, <1>4, EndsBadly DEF options, Killed
<1>5. CASE ok
  <2>1. cmd' = {}
    BY <1>0, <1>2 DEF LInv, OInv, Passed, options,
           SinceParse, SinceSema, SinceGenerate, SinceLowering, SinceBuilt, SinceConvert
  <2>2. HasRun("call")'
    BY <1>0, <1>1, <1>5, RunAfter
  <2>3. shown' = <<"result">> /\ status' = 0
    BY <1>0, <1>1, <1>5
  <2> QED
    BY <1>2, <1>3, <1>5, <2>1, <2>2, <2>3 DEF Ended, ShownAsked
<1> QED
  BY <1>4, <1>5

LEMMA NextLInv == LInv /\ [Next]_vars => LInv'
<1> SUFFICES ASSUME LInv, [Next]_vars PROVE LInv'
  OBVIOUS
<1>1. OInv'
  BY NextOInv DEF LInv
<1>2. CASE Next
  BY <1>1, <1>2, MainKeeps, ReadingKeeps, FrontEndEnds, PhaseEnds, BuiltEnds, CallEnds DEF Next, LInv
<1>3. CASE UNCHANGED vars
  <2>1. /\ UNCHANGED <<Compile, File, AskedViews, AskHelp, Read, Named, Wrong>>
        /\ (\A p : Wants(p)' = Wants(p)) /\ \A S : Given(S)' = Given(S)
    BY <1>3, PlacesStay DEF vars, options
  <2>2. UNCHANGED <<args, at, input, cmd, po, step, ran, shown, status>>
    BY <1>3 DEF vars, options
  <2>3. UNCHANGED Understood
    BY <2>1, <2>2 DEF Understood
  <2>4. UNCHANGED Progress
    BY <2>1, <2>2 DEF Progress
  <2>5. Reading'
    BY <2>1, <2>2, <2>3, <2>4 DEF LInv, Reading
  <2>6. Ended' /\ ShownAsked'
    BY <2>2 DEF LInv, Ended, ShownAsked, Went, HasRun
  <2> QED
    BY <1>1, <2>5, <2>6 DEF LInv
<1> QED
  BY <1>2, <1>3

-----------------------------------------------------------------------------
\* Whatever the arguments, the file that is compiled is the first one that is neither
\* an option nor the value of one (main).
THEOREM TheFile == Spec => []InputFile
<1>1. LInv => InputFile
  BY DEF LInv, Reading, Understood, InputFile
<1> QED
  BY <1>1, InitLInv, NextLInv, PTL DEF Spec

\* The process ends with status 0 exactly if the arguments ask for help or for a
\* compilation and every phase went well (main, execute, run_jit).
THEOREM Status == Spec => []StatusTells
<1>1. LInv => StatusTells
  <2> SUFFICES ASSUME LInv, step = "exited" PROVE status = 0 <=> Went /\ (AskHelp \/ Compile)
    BY DEF StatusTells
  <2>1. CASE ran = << >>
    <3>1. Went
      BY <2>1 DEF Went
    <3> QED
      BY <2>1, <3>1 DEF LInv, Reading
  <2>2. CASE ran # << >>
    BY <2>2 DEF LInv, Reading, Ended, Understood
  <2> QED
    BY <2>1, <2>2
<1> QED
  BY <1>1, InitLInv, NextLInv, PTL DEF Spec

\* Only what was asked for is shown, and of several views the earliest of the
\* pipeline (execute).
THEOREM Views == Spec => []EarliestView
<1>1. LInv => EarliestView
  <2> SUFFICES ASSUME LInv PROVE EarliestView
    OBVIOUS
  <2>1. EarliestShown
    BY DEF LInv, OInv
  <2>2. \A k \in DOMAIN shown : shown[k] \in AskedViews \cup {"result", "mlir"}
    <3>1. CASE ran = << >>
      <4>1. shown = << >>
        BY <3>1 DEF LInv, OInv, Unshown, Reading
      <4> QED
        BY <4>1
    <3>2. CASE ran # << >>
      BY <3>2 DEF LInv, Reading, Understood, ShownAsked
    <3> QED
      BY <3>1, <3>2
  <2>3. ASSUME step = "exited", status = 0, AskedViews # {}, ~AskHelp
        PROVE  \E v \in AskedViews : shown = <<v>> /\ \A w \in AskedViews : ViewRank[v] <= ViewRank[w]
    <3>1. ran # << >> /\ cmd = AskedViews
      BY <2>3 DEF LInv, Reading, Understood
    <3>2. PICK v \in cmd : shown = <<v>>
      BY <2>3, <3>1 DEF LInv, Ended
    <3>3. 1 \in DOMAIN shown /\ shown[1] = v
      BY <3>2
    <3> QED
      BY <2>1, <3>1, <3>2, <3>3 DEF EarliestShown
  <2> QED
    BY <2>1, <2>2, <2>3 DEF EarliestView
<1> QED
  BY <1>1, InitLInv, NextLInv, PTL DEF Spec

\* main is called only if --jit was given and no view, after folding and lowering; and
\* it is called then, if everything goes well (execute, run_jit).
THEOREM Execution == Spec => []ExecutedLowered
<1>1. LInv => ExecutedLowered
  <2> SUFFICES ASSUME LInv PROVE ExecutedLowered
    OBVIOUS
  <2>0. "--jit" \in Passes
    BY Kinds
  <2>1. OnlyLowered
    BY DEF LInv, OInv
  <2>2. HasRun("call") => AskedViews = {} /\ Wants("--jit")
    <3>1. HasRun("call") => ran # << >>
      BY DEF HasRun
    <3> QED
      BY <2>0, <2>1, <3>1 DEF OnlyLowered, LInv, Reading, Understood
  <2>3. ASSUME step = "exited", Compile, Went, Wants("--jit"), AskedViews = {}
        PROVE  HasRun("call")
    <3>1. ~AskHelp
      BY <2>3 DEF Compile
    <3>2. ran # << >> /\ cmd = {} /\ "--jit" \in po
      BY <2>0, <2>3, <3>1 DEF LInv, Reading, Understood
    <3>3. status = 0
      BY <2>3, <3>2 DEF LInv, Ended
    <3> QED
      BY <2>3, <3>2, <3>3 DEF LInv, Ended
  <2> QED
    BY <2>1, <2>2, <2>3 DEF ExecutedLowered
<1> QED
  BY <1>1, InitLInv, NextLInv, PTL DEF Spec
=============================================================================
