SPECIFICATION Spec
CONSTANTS
  k1 = k1
  short = short
  long = long
  Keys <- MCKeys
  Values = {long}
  PayloadBytes <- MCPayloadBytes
  Absent = Absent
  Blank = Blank
  Torn = Torn
  Idle = Idle
  Nothing = Nothing
  DigitAt = 3
  Capacity = 5
  ReservationIds = {}
  ReservationSizes = {}
  MaxRevision = 3
  Faults = {"kill"}
INVARIANT InterruptedFirstPublicationReadable
CHECK_DEADLOCK FALSE
