SPECIFICATION Spec
CONSTANTS
  NAddr = 3
  Fd <- SixFds
  Others <- Stdio
  Faults = {"getaddrinfo", "socket", "setsockopt", "bind", "listen", "accept", "connect"}
  ServerFirst = FALSE
INVARIANTS OnlyConnectionOpen ListFreed IInv
PROPERTY ImplementsDial
CHECK_DEADLOCK FALSE
