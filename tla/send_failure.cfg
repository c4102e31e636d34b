SPECIFICATION Spec
CONSTANTS
  Faults = {}
  AddrLen = 64
  Modes <- SameFailure
  Apps <- HelloOnly
  ServerFirst = TRUE
PROPERTY RequestedFailureReported
CHECK_DEADLOCK FALSE
