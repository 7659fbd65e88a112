------------------------------ MODULE MCRelayLeg ------------------------------
(***************************************************************************)
(* RelayLeg for TLC: the identities of leg processes are interchangeable.  *)
(***************************************************************************)
EXTENDS RelayLeg, TLC

Symmetry == Permutations(Legs)
=============================================================================
