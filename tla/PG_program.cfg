SPECIFICATION Spec
CONSTANTS
  Others <- MCOthers
  Commands <- MCCommands
  NoValue = NoValue
INVARIANTS
  OnePerName
  Precedence
  CallOrder
  WorkerAgrees
  CleanedUp
  RecordsCaptured
CHECK_DEADLOCK FALSE
