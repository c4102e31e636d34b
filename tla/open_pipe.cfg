SPECIFICATION FairSpec
CONSTANTS
  Inputs <- TwoLines
  Cap = 2
  Block = 4
  Faults = {}
PROPERTY ReadIsPrinted
CHECK_DEADLOCK FALSE
