\* Safety and the contract, for every option and every misfortune.
CONSTANTS
  Message = {p1, p2, p3}
  NoMessage = NoMessage
  Options <- OptionRecords
  Faults <- FaultKinds
  MaxLosses = 2
SPECIFICATION Spec
INVARIANTS TypeOK ConfirmSound TagsAgree SequenceInStep
PROPERTY ImplementsContract
SYMMETRY Symmetry
CHECK_DEADLOCK FALSE
