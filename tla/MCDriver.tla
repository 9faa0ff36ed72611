------------------------------ MODULE MCDriver ------------------------------
(***************************************************************************)
(* Argument vectors for Driver, whose meaning CommandLine gives.           *)
(***************************************************************************)
EXTENDS CommandLine, FiniteSets

Over(alphabet, n) == UNION {[1 .. k -> alphabet] : k \in 0 .. n}
Vectors ==
  Over({"-l", "-a", "-s", "-sa", "-m", "-o", "-h", "-v", "-x", "f", "",
        "--const-fold", "--lowering", "--jit"}, 3)
  \cup Over({"-o", "-m", "-sa", "-s", "--jit", "f"}, 4) \cup Over({"-o", "f", "--jit"}, 5)
=============================================================================
