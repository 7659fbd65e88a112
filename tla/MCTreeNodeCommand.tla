--------------------------- MODULE MCTreeNodeCommand ---------------------------
(***************************************************************************)
(* TreeNodeCommand for TLC: requests and circles are interchangeable.      *)
(***************************************************************************)
EXTENDS TreeNodeCommand, TLC

Symmetry == Permutations(Requests) \union Permutations(Circles)
=============================================================================
