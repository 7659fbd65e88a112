------------------------------ MODULE MCTreeSpawn ------------------------------
(***************************************************************************)
(* TreeSpawn for TLC: a wide and shallow, and a narrow and deep choice of  *)
(* the tree's limits.                                                      *)
(***************************************************************************)
EXTENDS TreeSpawn

WideAndNarrow == {[maxChildren |-> 2, maxDepth |-> 2], [maxChildren |-> 1, maxDepth |-> 3]}
OneWidth == {[maxChildren |-> 2, maxDepth |-> 2]}
=============================================================================
