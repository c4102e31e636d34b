SPECIFICATION FairSpec
CONSTANTS
  Faults = {"link", "loss", "crash"}
  AddrLen = 64
  Modes <- ClientWithE
  Apps <- HelloOnly
  ServerFirst = TRUE
INVARIANT AwaitedCanHappen
PROPERTIES PeerFailureDetected ClientNeverStuck ProbeEnds
CHECK_DEADLOCK FALSE
