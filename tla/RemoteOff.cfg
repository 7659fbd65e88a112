SPECIFICATION Spec
CONSTANTS
  Owners = {o1, o2}
  Actions = {"identity", "prepare", "import", "finalize", "resume", "pair-request", "cancel"}
  Operation = Operation
  Absent = Absent
  Damaged = Damaged
  None = None
SYMMETRY Symmetry
INVARIANTS HelperIsOnRecord OpenOnlyAsAsked RecordedIsOnDisk
PROPERTIES DisconnectIsComplete
