SPECIFICATION Spec
CONSTANTS
  Faults = {"socket", "malloc", "ep_create", "nbx", "link", "loss", "crash"}
  AddrLen = 64
  Modes <- AnyModes
  Apps <- OnePair
  ServerFirst = FALSE
INVARIANTS TypeOK AllInv NoCircularWait ExitsAgree RemoteDisconnectedFirst SuccessMeansPrinted PrintedWasReceived EndpointClosedFirst BufferReleased
PROPERTIES HeldUntilDone ImplementsDial ImplementsTransfer
CHECK_DEADLOCK FALSE
