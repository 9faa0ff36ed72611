--------------------------- MODULE MCTypeStorage ----------------------------
(* Types of rank 0 to 2. *)
EXTENDS TypeStorage

SmallDims == {<< >>, <<2>>, <<2, 3>>, <<3, 2>>}
=============================================================================
