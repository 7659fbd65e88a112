SPECIFICATION FairSpec
CHECK_DEADLOCK FALSE
CONSTANTS
  Requests = {r1, r2}
  Circles = {c1, c2}
  MaxKnown = 1
  MaxAttempts = 2
  MaxRestarts = 1
  MaxWakes = 3
  None = None
INVARIANTS DispatchedOnce RefusalsAreTrue PublicationNeverConflicts OneCirclePerRequest
PROPERTIES NoStartAfterAnswer QueueNeverWedges
