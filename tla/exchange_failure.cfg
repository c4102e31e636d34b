SPECIFICATION Spec
CONSTANTS
  Faults = {"crash"}
  AddrLen = 64
  Modes <- NoFailure
  Apps <- HelloOnly
  ServerFirst = TRUE
INVARIANTS ExchangeFailureReported
CHECK_DEADLOCK FALSE
