SPECIFICATION FairSpec
CONSTANTS
  MaxRequests = 2
  None = None
INVARIANTS RecordedIsInLedger NoDoubleAppend RecordedInOrder CloseTruth RetirementNeverCutsOff
PROPERTIES EveryRequestAnswered ShutdownCompletes
CHECK_DEADLOCK FALSE
