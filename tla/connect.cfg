SPECIFICATION FairSpec
CONSTANTS
  NAddr = 3
  Fd <- SixFds
  Others <- Stdio
  Faults = {}
  ServerFirst = TRUE
INVARIANT AllAddressesTried
PROPERTY BothConnect
CHECK_DEADLOCK FALSE
