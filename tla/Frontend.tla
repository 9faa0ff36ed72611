------------------------------ MODULE Frontend ------------------------------
(***************************************************************************)
(* Semantic analysis and code generation on one tree.  Code generation     *)
(* starts when semantic analysis has ended without an error (the gate in   *)
(* execute of src/main.cpp), and trusts the types it has left in the tree. *)
(***************************************************************************)
EXTENDS Sema

VARIABLES genTodo, vals, env, blocks, fault  \* of Codegen

sema == <<todo, rets, scopes, functions, funcRet, reported, crashed>>
gen == <<genTodo, vals, env, blocks, fault>>

G == INSTANCE Codegen WITH todo <- genTodo

FrontendInit == Init /\ G!Start

\* sema.scan(...).chkerr() ends the program if an error was reported.
Analyse == Next /\ UNCHANGED gen
Generate == Done /\ ~reported /\ ~crashed /\ G!Next /\ UNCHANGED sema

FrontendNext == Analyse \/ Generate

FrontendSpec == FrontendInit /\ [][FrontendNext]_<<prog, resolved, sema, gen>>
=============================================================================
