SPECIFICATION Spec
CHECK_DEADLOCK FALSE
CONSTANTS
  Requests = {r1}
  Circles = {c1}
  MaxKnown = 1
  MaxAttempts = 2
  MaxRestarts = 0
  MaxWakes = 1
  None = None
PROPERTIES RefusalLeavesNoClaim
