-------------------------- MODULE MCRemoteConnection --------------------------
(***************************************************************************)
(* RemoteConnection for TLC: the identities of helpers are interchangeable.*)
(***************************************************************************)
EXTENDS RemoteConnection, TLC

Symmetry == Permutations(Owners)
=============================================================================
