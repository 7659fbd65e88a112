----------------------- MODULE MCCanonicalAuditQueue -----------------------
(***************************************************************************)
(* CanonicalAuditQueue for TLC: MaxRequests and None get their values in   *)
(* the configurations.                                                     *)
(***************************************************************************)
EXTENDS CanonicalAuditQueue
=============================================================================
