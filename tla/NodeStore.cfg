SPECIFICATION FairSpec
CHECK_DEADLOCK FALSE
CONSTANTS
  Stream = {s}
  Noted = {a}
  Lines = {w}
  MaxWrites = 3
  MaxFaults = 2
  Torn = Torn
  None = None
  Nothing = Nothing
INVARIANTS ShowsWhatWasSaid SafeSurvives Discoverable CommittedArchiveIsWhole
PROPERTIES RetriedIsSaved
