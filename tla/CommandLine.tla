---------------------------- MODULE CommandLine -----------------------------
(***************************************************************************)
(* What a command line means, read as a whole, where main (src/main.cpp)   *)
(* reads one argument after the other; and what it makes the process do.   *)
(***************************************************************************)
EXTENDS Driver

\* Whether an argument is the value of the option before it.
Values(a) ==
  LET value[k \in 0 .. Len(a)] == k > 1 /\ a[k - 1] \in ValueOptions /\ ~value[k - 1]
  IN  value
Read == {k \in DOMAIN args : ~Values(args)[k]}
Given(S) == {k \in Read : args[k] \in S}
Files == Read \ Given(DOMAIN View \cup ValueOptions \cup Passes \cup {"-h"})
Named == {k \in Files : args[k] # NoFile}
First(S) == CHOOSE k \in S : \A j \in S : k <= j

\* Where the arguments stop making sense: a second file, an option without its value.
Wrong == {k \in Files : \E j \in Named : j < k} \cup {k \in Given(ValueOptions) : k = Len(args)}

\* Whether the arguments ask for help before anything is wrong with them, or compile
\* a file.
AskHelp ==
  \/ args = << >>
  \/ Given({"-h"}) # {} /\ \A k \in Wrong : First(Given({"-h"})) < k
  \/ args = <<"-v">>
Compile ==
  ~AskHelp /\ Wrong = {} /\ (IF Len(args) = 1 THEN args[1] \notin Dashed ELSE Named # {})
File == IF Named = {} THEN NoFile ELSE args[First(Named)]

AskedViews == {View[args[k]] : k \in Given(DOMAIN View)}
Wants(pass) == Given({pass}) # {}

Went == \A k \in DOMAIN ran : ran[k].ok

-----------------------------------------------------------------------------
\* The process says it succeeded exactly if its arguments made sense and every phase
\* it ran went well.
StatusTells ==
  step = "exited" => (status = 0 <=> Went /\ (AskHelp \/ Compile))

\* Nothing is shown but what was asked for, and of several views the one that comes
\* first in the pipeline; the module is also shown when it is not valid.
EarliestView ==
  /\ EarliestShown
  /\ \A k \in DOMAIN shown : shown[k] \in AskedViews \cup {"result", "mlir"}
  /\ step = "exited" /\ status = 0 /\ AskedViews # {} /\ ~AskHelp =>
       \E v \in AskedViews : shown = <<v>> /\ \A w \in AskedViews : ViewRank[v] <= ViewRank[w]

\* The file that is compiled is the first argument that is neither an option nor the
\* value of one.
InputFile == ran # << >> => input = File

\* A program is executed only if that was asked for and no view was; it has been
\* folded and lowered, as if those passes had been named.
ExecutedLowered ==
  /\ OnlyLowered
  /\ HasRun("call") => AskedViews = {} /\ Wants("--jit")
  /\ step = "exited" /\ Compile /\ Went /\ Wants("--jit") /\ AskedViews = {} => HasRun("call")
=============================================================================
