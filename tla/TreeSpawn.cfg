SPECIFICATION FairSpec
CHECK_DEADLOCK FALSE
CONSTANTS
  Errands = {e1, e2}
  Local = {e2}
  Others = {o1}
  Root = root
  Parent = parent
  Scopes = {s1, s2}
  Bounds <- WideAndNarrow
  MaxActs = 3
  None = None
INVARIANTS TypeOK RefusedLeavesNothing ToldChildHasItsCircle
PROPERTIES SpawnsUnderParentAsIssued SlotsGrowWithinBounds EveryErrandAnswered
