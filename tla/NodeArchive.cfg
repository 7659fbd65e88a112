SPECIFICATION Spec
CHECK_DEADLOCK FALSE
CONSTANTS
  Stream = {s}
  Noted = {a}
  Lines = {w}
  MaxWrites = 2
  MaxFaults = 2
  Torn = Torn
  None = None
  Nothing = Nothing
INVARIANTS EntriesAtDestination
