SPECIFICATION FairSpec
CONSTANTS
  Faults = {}
  AddrLen = 64
  Modes <- NoFailure
  Apps <- AnyApps
  ServerFirst = TRUE
PROPERTY BothSucceed
CHECK_DEADLOCK FALSE
