--------------------- MODULE MCTranscriptRecoveryJournal ---------------------
(***************************************************************************)
(* Small instances of TranscriptRecoveryJournal.  Bytes are counted in     *)
(* units: a base for the envelope, one for a short record, two for a long  *)
(* one, and one more once the revision has grown a digit (the envelope     *)
(* spells the revision in decimal, so a publication can grow although its  *)
(* records did not).                                                       *)
(***************************************************************************)
EXTENDS TranscriptRecoveryJournal, TLC

CONSTANTS k1, short, long, DigitAt

MCKeys == {k1}

MCPayloadBytes(content) ==
  1 + MapThenSumSet(LAMBDA k : CASE content.records[k] = long -> 2
                                 [] content.records[k] = short -> 1
                                 [] OTHER -> 0, Keys)
    + (IF content.revision >= DigitAt THEN 1 ELSE 0)

\* Reservation names are only compared with each other.
Symmetry == Permutations(ReservationIds)
=============================================================================
