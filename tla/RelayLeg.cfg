SPECIFICATION FairSpec
CONSTANTS
  Legs = {l1, l2}
  Calls = {c1, c2}
  Ceiling = 2
  None = None
INVARIANTS LegIsKnown NothingSurvives
PROPERTIES LegReturns DisconnectAnswers
