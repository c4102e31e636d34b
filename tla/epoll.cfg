SPECIFICATION FairSpec
CONSTANTS
  Inputs <- ShortInputs
  Cap = 2
  Block = 4
  Faults = {"create", "add", "wait"}
INVARIANTS TypeOK LinesInOrder ReturnsOnExit NoLineUnseen IInv
PROPERTY ExitEnds
CHECK_DEADLOCK FALSE
