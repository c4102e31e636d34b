SPECIFICATION Spec
CONSTANTS
  Words <- SomeWords
  CommandLines <- AtMostOne
  UnsetMode <- AnyTestMode
  IntValues = 64
INVARIANT PortSet
CHECK_DEADLOCK FALSE
