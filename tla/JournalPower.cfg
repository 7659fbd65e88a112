SPECIFICATION Spec
CONSTANTS
  k1 = k1
  short = short
  long = long
  Keys <- MCKeys
  Values = {short, long}
  PayloadBytes <- MCPayloadBytes
  Absent = Absent
  Blank = Blank
  Torn = Torn
  Idle = Idle
  Nothing = Nothing
  DigitAt = 3
  Capacity = 5
  ReservationIds = {r1, r2}
  ReservationSizes = {2}
  MaxRevision = 3
  Faults = {"power"}
INVARIANTS PowerLossRecovers ReservationsAddUp CapacityHeld
SYMMETRY Symmetry
